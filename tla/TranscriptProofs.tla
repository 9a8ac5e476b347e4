-------------------------- MODULE TranscriptProofs --------------------------
(***************************************************************************)
(* What the pages show of a session while its turns run, for any number of *)
(* pages, turns, messages, interrupts, downloads and broken links          *)
(* (Transcript.tla).                                                       *)
(*                                                                         *)
(* The invariants are about the end of a long way, from the engine's step  *)
(* through the journal and the frames to the reducer, and none of them is  *)
(* inductive.  The proof walks that way:                                   *)
(*                                                                         *)
(*  - the model that the whole journal makes is the one of the engine's    *)
(*    step: it has a prompt when the engine asks, a file not known to be   *)
(*    written when it writes, no streaming bubble when it is idle, and a   *)
(*    bundle for each file written (PhaseInv);                             *)
(*  - each page agrees with the model of the journal up to its cursor, as  *)
(*    far as its own past allows (AgreeInv);                               *)
(*  - on a connected page that is not at the end of the journal, the frame *)
(*    that ends it or the resume that asks for it is on its way            *)
(*    (CatchInv);                                                          *)
(*  - under the path of a turn whose write succeeded is all of its         *)
(*    content, or what a later turn has left there, and the turn that runs *)
(*    is later than those (FilesInv).                                      *)
(*                                                                         *)
(* The first needs what the reducer makes of every event of a turn, field  *)
(* by field (ReduceFacts), and that a journal can be reduced event by      *)
(* event (ModelOfAppend).  The second rests on the first only through the  *)
(* types; a frame advances the page and its part of the journal by the     *)
(* same event, unless it skips one, and then the page is gapped.           *)
(***************************************************************************)
EXTENDS Transcript, SequenceTheorems, WellFoundedInduction, TLAPS

Arguments == States \cup {"", "Write", "ok", "failed", "error", "interrupted"}

OfTurns == {"assistant_delta", "assistant_message", "tool_use", "tool_stream", "tool_result", "permission_request"}

\* Events that the Session pushes when the turns in W have written their file.
Sound(W) ==
    {e \in Events :
        /\ e.type \in OfTurns => e.of \in Turns
        /\ e.type = "session_status" => e.arg \in States
        /\ e.type = "tool_result" => e.arg \in {"ok", "failed"} /\ (e.arg = "ok" => e.of \in W)}

\* Items of a transcript: a bundle offers files that are written.
BubbleItems == [kind : {"assistant"}, of : Turns, text : {"partial", "final"}, streaming : BOOLEAN]
CardItems == [kind : {"tool"}, of : Turns, output : BOOLEAN, result : {"none", "ok", "failed"}]
LineItems == [kind : {"system", "system_message", "error"}, text : Arguments]
BundleItems(W) == [kind : {"bundle"}, paths : SUBSET W]
Items(W) == BubbleItems \cup CardItems \cup LineItems \cup BundleItems(W)

Models(W) ==
    [items : Seq(Items(W)), live : Nat, edits : SUBSET Turns, changed : SUBSET W,
     pending : Turns \cup {None}, state : States]

\* A model a page may have: deltas go to a bubble that is streaming.
Model(m, W) ==
    /\ m \in Models(W)
    /\ m.live # 0 => /\ m.live \in 1..Len(m.items)
                     /\ m.items[m.live].kind = "assistant" /\ m.items[m.live].streaming

\* Not true of a page that sent a message into a turn: its old bubble goes on streaming.
OnlyLiveStreams(m) ==
    \A i \in 1..Len(m.items) : m.items[i].kind = "assistant" /\ m.items[i].streaming => i = m.live

Bundles(items) == {items[i].paths : i \in {j \in 1..Len(items) : items[j].kind = "bundle"}}

Singles(W) == {{x} : x \in W}

\* The model of a journal when the engine's step is s, in the turn t.
Phase(m, s, t, W) ==
    /\ Model(m, W) /\ OnlyLiveStreams(m)
    /\ m.pending = IF s = "asking" THEN t ELSE None
    /\ t = None <=> s = "idle"
    /\ s = "idle" => m.live = 0
    /\ m.edits = IF s = "writing" THEN {t} ELSE {}
    /\ m.changed = {}
    /\ Bundles(m.items) = Singles(W)

\* The model of the first n events.
Journal(n) == ModelOf(SubSeq(log, 1, n))

SameTranscript(m, n) ==
    /\ m.items = n.items /\ m.live = n.live
    /\ m.edits = n.edits /\ m.changed = n.changed

\* What the page shows is what the journal up to its cursor makes, with the exceptions of
\* PromptsAgree and LiveViewIsJournalView.
Agrees(p) ==
    LET j == Journal(highestSeq[p]) IN
    /\ p \notin gapped => \/ page[p].pending = j.pending
                          \/ page[p].pending = None /\ j.pending \in {answered[p], rewound[p]}
    /\ p \notin gapped \cup cut => SameTranscript(page[p], j)

\* Something will take a connected page to the end of the journal, where it is not there.
CatchingUp(p) ==
    link[p] = "on" =>
        \/ \E i \in DOMAIN sent[p] : sent[p][i].type = "resume"
        \/ \E i \in DOMAIN inbox[p] : inbox[p][i].seq = Len(log)
        \/ highestSeq[p] = Len(log)

Resuming(commands) == \E i \in DOMAIN commands : commands[i].type = "resume"

\* What a page asks for and gets: a bundle is asked for when its file is written, and what is served is
\* finished, or of a later turn at the same path.
Finished(d) == d.by >= d.of /\ d.what = IF d.by \in Large THEN "error" ELSE "whole"
Spoilt(d) == d.by > d.of /\ PathOf[d.by] = PathOf[d.of] /\ d.what = "half"
Honest == {d \in Downloads : d.via = "zip" => Finished(d) \/ Spoilt(d)}
FrameSet(n, W) == [seq : 1..n, event : Sound(W)] \cup [seq : {0}, event : Honest]
Asked(W) == {c \in Commands : c.type = "download" => (c.via = "zip" => c.of \in W)}

EngineTyping ==
    /\ step \in {"idle", "ticking", "asking", "writing"}
    /\ writes \in BOOLEAN /\ interrupted \in BOOLEAN
    /\ written \subseteq Turns

\* The types that the proof needs, closer than TypeOK.
Typing ==
    /\ EngineTyping
    /\ currentTurn \in Turns \cup {None} /\ lastTurn \in Turns \cup {None}
    /\ armed \subseteq Turns /\ allowed \in BOOLEAN
    /\ log \in Seq(Sound(written)) /\ log # <<>> /\ log[1].type = "session_status"
    /\ link \in [Pages -> {"off", "open", "on"}]
    /\ sent \in [Pages -> Seq(Asked(written))]
    /\ inbox \in [Pages -> Seq(FrameSet(Len(log), written))]
    /\ got \in [Pages -> SUBSET Honest]
    /\ highestSeq \in [Pages -> 0..Len(log)]
    /\ page \in [Pages -> Models(written)] /\ \A p \in Pages : Model(page[p], written)
    /\ gapped \cup cut \subseteq Pages
    /\ answered \in [Pages -> Turns \cup {None}] /\ rewound \in [Pages -> Turns \cup {None}]

PhaseInv == Phase(ModelOf(log), step, currentTurn, written)
AgreeInv == \A p \in Pages : Agrees(p)
CatchInv == \A p \in Pages : CatchingUp(p)

\* Under the path of a turn whose write succeeded is its content, all of it, or that of a later turn.
\* The turn that runs is later than all of them.
FilesInv ==
    /\ file \in [Paths -> Versions]
    /\ \A q \in Paths : file[q].by # None => PathOf[file[q].by] = q
    /\ \A t \in written : file[PathOf[t]].by >= t /\ (file[PathOf[t]].by = t => file[PathOf[t]].part = "whole")
    /\ \A t \in written : t <= lastTurn
    /\ currentTurn # None => currentTurn = lastTurn /\ currentTurn \notin written

\* The inductive invariant is TranscriptInv /\ FilesInv.
TranscriptInv == Typing /\ PhaseInv /\ AgreeInv /\ CatchInv

-----------------------------------------------------------------------------
(* Induction on the numbers below a bound, by the least one that fails.    *)

Below == {pair \in Nat \X Nat : pair[1] < pair[2]}

LEMMA BelowIsWellFounded == IsWellFoundedOn(Below, Nat)
  BY NatLessThanWellFounded, Zenon DEF OpToRel, Below

LEMMA UpTo ==
    ASSUME NEW N \in Nat, NEW T, 0 \in T, \A n \in 0..(N - 1) : n \in T => n + 1 \in T
    PROVE  \A n \in 0..N : n \in T
<1> SUFFICES ASSUME NEW n \in 0..N, n \notin T PROVE FALSE
  OBVIOUS
<1> DEFINE F == {k \in 0..N : k \notin T}
<1>1. F \in SUBSET Nat /\ F # {}
  OBVIOUS
<1>2. PICK least \in F : \A k \in F : ~(<<k, least>> \in Below)
  BY <1>1, BelowIsWellFounded, WFMin
<1>3. least \in 1..N
  BY <1>2
<1>4. least - 1 \notin F
  <2>1. <<least - 1, least>> \in Below
    BY <1>3 DEF Below
  <2> QED
    BY <1>2, <2>1
<1>5. least - 1 \in T /\ least - 1 \in 0..(N - 1)
  BY <1>3, <1>4
<1>6. (least - 1) + 1 \in T /\ (least - 1) + 1 = least
  BY <1>3, <1>5
<1> QED
  BY <1>2, <1>6

-----------------------------------------------------------------------------
(* The model a page makes of a journal.                                    *)

IsHistory(f, n, events) == f = [i \in 0..n |-> IF i = 0 THEN EmptyModel ELSE Reduce(f[i - 1], events[i])]

LEMMA HistoryExists ==
    ASSUME NEW N \in Nat, NEW events
    PROVE  \E f : IsHistory(f, N, events)
<1> DEFINE T == {n \in 0..N : \E f : IsHistory(f, n, events)}
<1>1. 0 \in T
  <2> DEFINE f == [i \in 0..0 |-> EmptyModel]
  <2>1. f = [i \in 0..0 |-> IF i = 0 THEN EmptyModel ELSE Reduce(f[i - 1], events[i])]
    OBVIOUS
  <2>2. IsHistory(f, 0, events)
    BY <2>1 DEF IsHistory
  <2> HIDE DEF f
  <2> QED
    BY <2>2
<1>2. ASSUME NEW n \in 0..(N - 1), n \in T PROVE n + 1 \in T
  <2>1. PICK f : IsHistory(f, n, events)
    BY <1>2
  <2> DEFINE g == [i \in 0..(n + 1) |-> IF i = n + 1 THEN Reduce(f[n], events[n + 1]) ELSE f[i]]
  <2>2. \A i \in 0..n : g[i] = f[i]
    OBVIOUS
  <2>3. ASSUME NEW i \in 0..(n + 1)
        PROVE  g[i] = IF i = 0 THEN EmptyModel ELSE Reduce(g[i - 1], events[i])
    <3>1. CASE i = n + 1
      <4>1. g[i] = Reduce(f[n], events[n + 1]) /\ i # 0 /\ i - 1 = n
        BY <3>1
      <4>2. g[n] = f[n]
        BY <2>2
      <4> HIDE DEF g
      <4> QED
        BY <3>1, <4>1, <4>2
    <3>2. CASE i \in 0..n
      <4>1. g[i] = f[i] /\ (i # 0 => g[i - 1] = f[i - 1])
        BY <2>2, <3>2
      <4>2. f[i] = IF i = 0 THEN EmptyModel ELSE Reduce(f[i - 1], events[i])
        BY <2>1, <3>2 DEF IsHistory
      <4> HIDE DEF g
      <4> QED
        BY <4>1, <4>2
    <3> QED
      BY <3>1, <3>2
  <2>4. IsHistory(g, n + 1, events)
    <3>1. g = [i \in 0..(n + 1) |-> g[i]]
      OBVIOUS
    <3> HIDE DEF g
    <3> QED
      BY <2>3, <3>1 DEF IsHistory
  <2>5. n + 1 \in 0..N
    BY <1>2
  <2> HIDE DEF g
  <2> QED
    BY <2>4, <2>5
<1> HIDE DEF T
<1>3. \A n \in 0..N : n \in T
  BY <1>1, <1>2, UpTo
<1> QED
  BY <1>3 DEF T

\* Two histories agree as far as their events do.
LEMMA HistoriesAgree ==
    ASSUME NEW m \in Nat, NEW n \in m..m + 1, NEW f, NEW g, NEW s, NEW t,
           IsHistory(f, m, s), IsHistory(g, n, t), \A i \in 1..m : s[i] = t[i]
    PROVE  f[m] = g[m]
<1> DEFINE T == {k \in 0..m : f[k] = g[k]}
<1>1. 0 \in T
  BY DEF IsHistory
<1>2. ASSUME NEW k \in 0..(m - 1), k \in T PROVE k + 1 \in T
  <2>1. k + 1 \in 1..m /\ k + 1 \in 0..m /\ k + 1 \in 0..n /\ (k + 1) - 1 = k /\ k + 1 # 0
    OBVIOUS
  <2>2. f[k + 1] = Reduce(f[k], s[k + 1])
    BY <2>1 DEF IsHistory
  <2>3. g[k + 1] = Reduce(g[k], t[k + 1])
    BY <2>1 DEF IsHistory
  <2> QED
    BY <1>2, <2>1, <2>2, <2>3
<1> HIDE DEF T
<1>3. \A k \in 0..m : k \in T
  BY <1>1, <1>2, UpTo
<1> QED
  BY <1>3 DEF T

LEMMA ModelOfHistory ==
    ASSUME NEW events, Len(events) \in Nat
    PROVE  \E f : IsHistory(f, Len(events), events) /\ ModelOf(events) = f[Len(events)]
<1> DEFINE f == CHOOSE f : IsHistory(f, Len(events), events)
<1>1. IsHistory(f, Len(events), events)
  BY HistoryExists, Zenon
<1>2. ModelOf(events) = f[Len(events)]
  BY Zenon DEF ModelOf, IsHistory
<1> QED
  BY <1>1, <1>2, Zenon

LEMMA ModelOfEmpty == ModelOf(<<>>) = EmptyModel
<1>1. Len(<<>>) = 0
  OBVIOUS
<1>2. PICK f : IsHistory(f, 0, <<>>) /\ ModelOf(<<>>) = f[0]
  BY <1>1, ModelOfHistory
<1> QED
  BY <1>2 DEF IsHistory

LEMMA ModelOfAppend ==
    ASSUME NEW S, NEW events \in Seq(S), NEW e \in S
    PROVE  ModelOf(Append(events, e)) = Reduce(ModelOf(events), e)
<1> DEFINE n == Len(events)
           longer == Append(events, e)
<1>1. /\ n \in Nat /\ Len(longer) = n + 1 /\ longer[n + 1] = e
      /\ \A i \in 1..n : events[i] = longer[i]
  OBVIOUS
<1> HIDE DEF longer
<1>2. PICK f : IsHistory(f, n, events) /\ ModelOf(events) = f[n]
  BY <1>1, ModelOfHistory
<1>3. PICK g : IsHistory(g, n + 1, longer) /\ ModelOf(longer) = g[n + 1]
  BY <1>1, ModelOfHistory
<1> HIDE DEF n
<1>4. f[n] = g[n]
  BY <1>1, <1>2, <1>3, HistoriesAgree
<1>5. g[n + 1] = Reduce(g[n], longer[n + 1])
  BY <1>1, <1>3 DEF IsHistory
<1> QED
  BY <1>1, <1>2, <1>3, <1>4, <1>5 DEF longer

-----------------------------------------------------------------------------
(* The reducer, field by field.                                            *)

Record(items, live, edits, changed, pending, state) ==
    [items |-> items, live |-> live, edits |-> edits, changed |-> changed, pending |-> pending,
     state |-> state]

Outputs(items, t) == [i \in DOMAIN items |-> CardOutput(items[i], t)]
Results(items, t, result) == [i \in DOMAIN items |-> CardResult(items[i], t, result)]

Closed(items, k) == [items EXCEPT ![k] = [items[k] EXCEPT !.streaming = FALSE]]

LEMMA Fields ==
    ASSUME NEW W, NEW m \in Models(W)
    PROVE  m = Record(m.items, m.live, m.edits, m.changed, m.pending, m.state)
BY DEF Models, Record

LEMMA ShowForm ==
    ASSUME NEW W, NEW m \in Models(W), NEW item
    PROVE  Show(m, item) = Record(Append(m.items, item), m.live, m.edits, m.changed, m.pending, m.state)
<1> DEFINE x == Append(m.items, item)
<1>1. Show(m, item) = [m EXCEPT !.items = x]
  BY DEF Show
<1> HIDE DEF x
<1>2. Show(m, item) = Record(x, m.live, m.edits, m.changed, m.pending, m.state)
  BY <1>1 DEF Models, Record
<1> QED
  BY <1>2 DEF x

LEMMA CloseLiveForm ==
    ASSUME NEW W, NEW m \in Models(W)
    PROVE  CloseLive(m) = Record(IF m.live = 0 THEN m.items ELSE Closed(m.items, m.live), 0,
                                 m.edits, m.changed, m.pending, m.state)
BY DEF CloseLive, Models, Record, Closed

LEMMA AppendDeltaForm ==
    ASSUME NEW W, NEW m \in Models(W), NEW t
    PROVE  AppendDelta(m, t) =
             Record(IF m.live # 0 THEN m.items ELSE Append(m.items, Bubble(t, "partial", TRUE)),
                    IF m.live # 0 THEN m.live ELSE Len(m.items) + 1,
                    m.edits, m.changed, m.pending, m.state)
BY DEF AppendDelta, Show, Models, Record

LEMMA FinalizeForm ==
    ASSUME NEW W, NEW m \in Models(W), NEW t
    PROVE  Finalize(m, t) =
             Record(IF m.live # 0 THEN [m.items EXCEPT ![m.live] = Bubble(t, "final", FALSE)]
                                  ELSE Append(m.items, Bubble(t, "final", FALSE)),
                    0, m.edits, m.changed, m.pending, m.state)
BY DEF Finalize, Show, Models, Record

LEMMA ToolStreamForm ==
    ASSUME NEW W, NEW m \in Models(W), NEW t
    PROVE  OnToolStream(m, t) =
             Record(Outputs(m.items, t),
                    m.live, m.edits, m.changed, m.pending, m.state)
BY DEF OnToolStream, Models, Record, Outputs

LEMMA ToolResultForm ==
    ASSUME NEW W, NEW m \in Models(W), NEW e
    PROVE  OnToolResult(m, e) =
             Record(Results(m.items, e.of, e.arg),
                    m.live, m.edits \ {e.of},
                    IF e.of \in m.edits /\ e.arg = "ok" THEN m.changed \cup {e.of} ELSE m.changed,
                    m.pending, m.state)
<1> DEFINE x == Results(m.items, e.of, e.arg)
           y == m.edits \ {e.of}
           z == IF e.of \in m.edits /\ e.arg = "ok" THEN m.changed \cup {e.of} ELSE m.changed
<1>1. OnToolResult(m, e) = [m EXCEPT !.items = x, !.edits = y, !.changed = z]
  BY Zenon DEF OnToolResult, Results
<1> HIDE DEF x, y, z
<1>2. OnToolResult(m, e) = Record(x, m.live, y, z, m.pending, m.state)
  BY <1>1 DEF Models, Record
<1> QED
  BY <1>2 DEF x, y, z

LEMMA OnStatusForm ==
    ASSUME NEW W, NEW m \in Models(W), NEW state
    PROVE  OnStatus(m, state) =
             Record(m.items, m.live, m.edits, m.changed,
                    IF state = "awaiting-approval" THEN m.pending ELSE None, state)
<1> DEFINE x == IF state = "awaiting-approval" THEN m.pending ELSE None
<1>1. OnStatus(m, state) = [m EXCEPT !.state = state, !.pending = x]
  BY Zenon DEF OnStatus
<1> HIDE DEF x
<1>2. OnStatus(m, state) = Record(m.items, m.live, m.edits, m.changed, x, state)
  BY <1>1 DEF Models, Record
<1> QED
  BY <1>2 DEF x

Closing(items, live) == IF live = 0 THEN items ELSE Closed(items, live)

LEMMA PendingForm ==
    ASSUME NEW W, NEW m \in Models(W), NEW t
    PROVE  [m EXCEPT !.pending = t] = Record(m.items, m.live, m.edits, m.changed, t, m.state)
BY DEF Models, Record

LEMMA ToolUseForm ==
    ASSUME NEW W, NEW m \in Models(W), NEW t
    PROVE  [Show(CloseLive(m), ToolCard(t)) EXCEPT !.edits = @ \cup {t}] =
             Record(Append(Closing(m.items, m.live), ToolCard(t)), 0, m.edits \cup {t}, m.changed,
                    m.pending, m.state)
<1> DEFINE x == Closing(m.items, m.live)
           y == Append(x, ToolCard(t))
<1>1. CloseLive(m) = Record(x, 0, m.edits, m.changed, m.pending, m.state)
  BY CloseLiveForm DEF Closing
<1>2. Show(CloseLive(m), ToolCard(t)) = Record(y, 0, m.edits, m.changed, m.pending, m.state)
  <2> HIDE DEF x
  <2>1. Show(CloseLive(m), ToolCard(t)) = [CloseLive(m) EXCEPT !.items = Append(CloseLive(m).items, ToolCard(t))]
    BY DEF Show
  <2>2. CloseLive(m).items = x
    BY <1>1 DEF Record
  <2>3. Show(CloseLive(m), ToolCard(t)) = [CloseLive(m) EXCEPT !.items = y]
    BY <2>1, <2>2
  <2> HIDE DEF y
  <2> QED
    BY <1>1, <2>3 DEF Record
<1> HIDE DEF y
<1>3. [Show(CloseLive(m), ToolCard(t)) EXCEPT !.edits = @ \cup {t}] =
        Record(y, 0, m.edits \cup {t}, m.changed, m.pending, m.state)
  BY <1>2 DEF Record
<1> QED
  BY <1>3 DEF x, y

\* The transcript when the turn is over.
Ended(items, changed, status) ==
    IF status # "ok" THEN Append(items, Line("system", status))
    ELSE IF changed # {} THEN Append(items, Bundle(changed)) ELSE items

LEMMA TurnCompleteForm ==
    ASSUME NEW W, NEW m \in Models(W), NEW status
    PROVE  OnTurnComplete(m, status) =
             Record(Ended(Closing(m.items, m.live), m.changed, status), 0, {}, {}, None, m.state)
<1> DEFINE x == Closing(m.items, m.live)
           closed == [CloseLive(m) EXCEPT !.pending = None, !.edits = {}, !.changed = {}]
<1>1. CloseLive(m) = Record(x, 0, m.edits, m.changed, m.pending, m.state)
  BY CloseLiveForm DEF Closing
<1>2. closed = Record(x, 0, {}, {}, None, m.state)
  <2> HIDE DEF x
  <2> QED
    <3> DEFINE a == [CloseLive(m) EXCEPT !.pending = None]
    <3>1. a = Record(x, 0, m.edits, m.changed, None, m.state)
      BY <1>1 DEF Record
    <3> DEFINE b == [a EXCEPT !.edits = {}]
    <3>2. b = Record(x, 0, {}, m.changed, None, m.state)
      <4> HIDE DEF a
      <4> QED
        BY <3>1 DEF Record
    <3> DEFINE c == [b EXCEPT !.changed = {}]
    <3>3. c = Record(x, 0, {}, {}, None, m.state)
      <4> HIDE DEF b
      <4> QED
        BY <3>2 DEF Record
    <3>4. closed = c
      BY Zenon
    <3> QED
      BY <3>3, <3>4, Zenon
<1>3. OnTurnComplete(m, status) =
        IF status # "ok" THEN Show(closed, Line("system", status))
        ELSE IF m.changed # {} THEN Show(closed, Bundle(m.changed)) ELSE closed
  BY Zenon DEF OnTurnComplete
<1>4. ASSUME NEW item PROVE Show(closed, item) = Record(Append(x, item), 0, {}, {}, None, m.state)
  <2> HIDE DEF x, closed
  <2> DEFINE y == Append(x, item)
  <2>1. Show(closed, item) = [closed EXCEPT !.items = Append(closed.items, item)]
    BY DEF Show
  <2>2. closed.items = x
    BY <1>2 DEF Record
  <2>3. Show(closed, item) = [closed EXCEPT !.items = y]
    BY <2>1, <2>2
  <2> HIDE DEF y
  <2>4. Show(closed, item) = Record(y, 0, {}, {}, None, m.state)
    BY <1>2, <2>3 DEF Record
  <2> QED
    BY <2>4 DEF y
<1> HIDE DEF closed, x
<1>5. CASE status # "ok"
  BY <1>3, <1>4, <1>5 DEF Ended, x
<1>6. CASE status = "ok" /\ m.changed # {}
  BY <1>3, <1>4, <1>6 DEF Ended, x
<1>7. CASE status = "ok" /\ m.changed = {}
  BY <1>2, <1>3, <1>7 DEF Ended, x
<1> QED
  BY <1>5, <1>6, <1>7

ItemsAfter(items, live, changed, e) ==
    CASE e.type = "assistant_delta" ->
            IF live # 0 THEN items ELSE Append(items, Bubble(e.of, "partial", TRUE))
      [] e.type = "assistant_message" ->
            IF live # 0 THEN [items EXCEPT ![live] = Bubble(e.of, "final", FALSE)]
                        ELSE Append(items, Bubble(e.of, "final", FALSE))
      [] e.type = "tool_use" -> Append(Closing(items, live), ToolCard(e.of))
      [] e.type = "tool_stream" -> Outputs(items, e.of)
      [] e.type = "tool_result" -> Results(items, e.of, e.arg)
      [] e.type = "turn_complete" -> Ended(Closing(items, live), changed, e.arg)
      [] e.type \in {"system_message", "error"} -> Append(items, Line(e.type, ""))
      [] e.type \in {"permission_request", "session_status"} -> items

LiveAfter(items, live, e) ==
    IF e.type = "assistant_delta" THEN (IF live # 0 THEN live ELSE Len(items) + 1)
    ELSE IF e.type \in {"assistant_message", "tool_use", "turn_complete"} THEN 0 ELSE live

EditsAfter(edits, e) ==
    IF e.type = "tool_use" THEN edits \cup {e.of}
    ELSE IF e.type = "tool_result" THEN edits \ {e.of}
    ELSE IF e.type = "turn_complete" THEN {} ELSE edits

ChangedAfter(edits, changed, e) ==
    IF e.type = "tool_result" /\ e.of \in edits /\ e.arg = "ok" THEN changed \cup {e.of}
    ELSE IF e.type = "turn_complete" THEN {} ELSE changed

PendingAfter(pending, e) ==
    IF e.type = "permission_request" THEN e.of
    ELSE IF e.type = "turn_complete" \/ (e.type = "session_status" /\ e.arg # "awaiting-approval")
         THEN None ELSE pending

StateAfter(state, e) == IF e.type = "session_status" THEN e.arg ELSE state

\* The fields of the model after an event.
LEMMA ReduceForm ==
    ASSUME NEW W, NEW V, NEW m \in Models(W), NEW e \in Sound(V)
    PROVE  Reduce(m, e) =
             Record(ItemsAfter(m.items, m.live, m.changed, e), LiveAfter(m.items, m.live, e),
                    EditsAfter(m.edits, e), ChangedAfter(m.edits, m.changed, e),
                    PendingAfter(m.pending, e), StateAfter(m.state, e))
<1> USE DEF Reduce, ItemsAfter, LiveAfter, EditsAfter, ChangedAfter, PendingAfter, StateAfter
<1>1. CASE e.type = "assistant_delta"
  BY <1>1, AppendDeltaForm
<1>2. CASE e.type = "assistant_message"
  BY <1>2, FinalizeForm
<1>3. CASE e.type = "tool_use"
  BY <1>3, ToolUseForm
<1>4. CASE e.type = "tool_stream"
  BY <1>4, ToolStreamForm
<1>5. CASE e.type = "tool_result"
  BY <1>5, ToolResultForm
<1>6. CASE e.type = "permission_request"
  BY <1>6, PendingForm
<1>7. CASE e.type = "session_status"
  BY <1>7, OnStatusForm
<1>8. CASE e.type = "turn_complete"
  <2>1. Reduce(m, e) = OnTurnComplete(m, e.arg)
    BY <1>8
  <2> QED
    BY <1>8, <2>1, TurnCompleteForm
<1>9. CASE e.type \in {"system_message", "error"}
  BY <1>9, ShowForm
<1> QED
  BY <1>1, <1>2, <1>3, <1>4, <1>5, <1>6, <1>7, <1>8, <1>9 DEF Sound, Events

-----------------------------------------------------------------------------
(* The items of a transcript.                                              *)

LEMMA ItemKinds ==
    ASSUME NEW W, NEW item \in Items(W)
    PROVE  /\ item.kind \in {"assistant", "tool", "system", "system_message", "error", "bundle"}
           /\ item.kind = "assistant" => item \in BubbleItems
           /\ item.kind = "tool" => item \in CardItems
           /\ item.kind = "bundle" => item \in BundleItems(W)
BY DEF Items, BubbleItems, CardItems, LineItems, BundleItems

LEMMA NewItems ==
    ASSUME NEW W, NEW t \in Turns, NEW status \in Arguments
    PROVE  /\ Bubble(t, "partial", TRUE) \in Items(W) /\ Bubble(t, "final", FALSE) \in Items(W)
           /\ ToolCard(t) \in Items(W)
           /\ \A kind \in {"system", "system_message", "error"} : Line(kind, status) \in Items(W)
           /\ \A paths \in SUBSET W : Bundle(paths) \in Items(W)
<1>1. Bubble(t, "partial", TRUE) \in BubbleItems /\ Bubble(t, "final", FALSE) \in BubbleItems
  BY DEF Bubble, BubbleItems
<1>2. ToolCard(t) \in CardItems
  BY DEF ToolCard, CardItems
<1>3. \A kind \in {"system", "system_message", "error"} : Line(kind, status) \in LineItems
  BY DEF Line, LineItems
<1>4. \A paths \in SUBSET W : Bundle(paths) \in BundleItems(W)
  BY DEF Bundle, BundleItems
<1> QED
  BY <1>1, <1>2, <1>3, <1>4 DEF Items

LEMMA NewKinds ==
    ASSUME NEW t, NEW status, NEW kind, NEW paths
    PROVE  /\ Bubble(t, "partial", TRUE).kind = "assistant" /\ Bubble(t, "partial", TRUE).streaming = TRUE
           /\ Bubble(t, "final", FALSE).kind = "assistant" /\ Bubble(t, "final", FALSE).streaming = FALSE
           /\ ToolCard(t).kind = "tool"
           /\ Line(kind, status).kind = kind
           /\ Bundle(paths).kind = "bundle" /\ Bundle(paths).paths = paths
BY DEF Bubble, ToolCard, Line, Bundle

LEMMA ClosedBubble ==
    ASSUME NEW W, NEW item \in Items(W), item.kind = "assistant"
    PROVE  LET x == [item EXCEPT !.streaming = FALSE] IN
           x \in Items(W) /\ x.kind = "assistant" /\ x.streaming = FALSE
<1>1. item \in BubbleItems
  BY ItemKinds
<1>2. [item EXCEPT !.streaming = FALSE] \in BubbleItems
  BY <1>1 DEF BubbleItems
<1>3. [item EXCEPT !.streaming = FALSE].kind = "assistant" /\ [item EXCEPT !.streaming = FALSE].streaming = FALSE
  BY <1>1 DEF BubbleItems
<1> QED
  BY <1>2, <1>3 DEF Items

LEMMA ClosedFacts ==
    ASSUME NEW W, NEW items \in Seq(Items(W)), NEW k \in 1..Len(items), items[k].kind = "assistant"
    PROVE  /\ Closed(items, k) \in Seq(Items(W)) /\ Len(Closed(items, k)) = Len(items)
           /\ \A i \in 1..Len(items) : i # k => Closed(items, k)[i] = items[i]
           /\ Closed(items, k)[k].kind = "assistant" /\ Closed(items, k)[k].streaming = FALSE
<1> DEFINE x == [items[k] EXCEPT !.streaming = FALSE]
<1>1. x \in Items(W) /\ x.kind = "assistant" /\ x.streaming = FALSE
  BY ClosedBubble
<1>2. Closed(items, k) = [items EXCEPT ![k] = x]
  BY DEF Closed
<1> HIDE DEF x
<1> QED
  BY <1>1, <1>2

LEMMA CardFacts ==
    ASSUME NEW W, NEW item \in Items(W), NEW t, NEW result \in {"ok", "failed"},
           NEW x \in {CardOutput(item, t), CardResult(item, t, result)}
    PROVE  /\ x \in Items(W) /\ x.kind = item.kind
           /\ item.kind # "tool" => x = item
<1>1. CASE ~IsCard(item, t)
  BY <1>1 DEF CardOutput, CardResult
<1>2. CASE IsCard(item, t)
  <2>1. item \in CardItems /\ item.kind = "tool"
    BY <1>2, ItemKinds DEF IsCard
  <2>2. CardOutput(item, t) = [item EXCEPT !.output = TRUE]
    BY <1>2 DEF CardOutput
  <2>3. CardResult(item, t, result) = [item EXCEPT !.result = result]
    BY <1>2 DEF CardResult
  <2>4. CardOutput(item, t) \in CardItems
    BY <2>1, <2>2 DEF CardItems
  <2>5. CardResult(item, t, result) \in CardItems
    BY <2>1, <2>3 DEF CardItems
  <2>6. x \in CardItems /\ x.kind = "tool"
    BY <2>4, <2>5 DEF CardItems
  <2> QED
    BY <2>1, <2>6 DEF Items
<1> QED
  BY <1>1, <1>2

LEMMA CardsFacts ==
    ASSUME NEW W, NEW items \in Seq(Items(W)), NEW t, NEW result \in {"ok", "failed"},
           NEW new, new = Outputs(items, t) \/ new = Results(items, t, result)
    PROVE  /\ new \in Seq(Items(W)) /\ Len(new) = Len(items)
           /\ \A i \in 1..Len(items) : /\ new[i].kind = items[i].kind
                                       /\ items[i].kind # "tool" => new[i] = items[i]
<1>1. DOMAIN items = 1..Len(items) /\ Len(items) \in Nat /\ \A i \in 1..Len(items) : items[i] \in Items(W)
  OBVIOUS
<1>2. /\ DOMAIN new = 1..Len(items) /\ new = [i \in 1..Len(items) |-> new[i]]
      /\ \A i \in 1..Len(items) : new[i] \in {CardOutput(items[i], t), CardResult(items[i], t, result)}
  BY <1>1 DEF Outputs, Results
<1>3. \A i \in 1..Len(items) : new[i] \in Items(W) /\ new[i].kind = items[i].kind
                               /\ (items[i].kind # "tool" => new[i] = items[i])
  BY <1>1, <1>2, CardFacts
<1>4. new \in Seq(Items(W)) /\ Len(new) = Len(items)
  BY <1>1, <1>2, <1>3
<1> QED
  BY <1>3, <1>4

\* Closing the bubble that deltas go to leaves nothing streaming.
LEMMA ClosingFacts ==
    ASSUME NEW W, NEW m, Model(m, W)
    PROVE  LET new == Closing(m.items, m.live) IN
           /\ new \in Seq(Items(W)) /\ Len(new) = Len(m.items)
           /\ \A i \in 1..Len(m.items) :
                 /\ new[i].kind = m.items[i].kind
                 /\ new[i].kind # "assistant" => new[i] = m.items[i]
           /\ OnlyLiveStreams(m) => \A i \in 1..Len(m.items) : new[i].kind = "assistant" => ~new[i].streaming
<1>1. m.items \in Seq(Items(W)) /\ m.live \in Nat
  BY DEF Model, Models
<1>2. CASE m.live = 0
  BY <1>1, <1>2 DEF Closing, OnlyLiveStreams
<1>3. CASE m.live # 0
  <2>1. m.live \in 1..Len(m.items) /\ m.items[m.live].kind = "assistant"
    BY <1>3 DEF Model
  <2>2. Closing(m.items, m.live) = Closed(m.items, m.live)
    BY <1>3 DEF Closing
  <2> DEFINE new == Closed(m.items, m.live)
  <2>3. /\ new \in Seq(Items(W)) /\ Len(new) = Len(m.items)
        /\ \A i \in 1..Len(m.items) : i # m.live => new[i] = m.items[i]
        /\ new[m.live].kind = "assistant" /\ new[m.live].streaming = FALSE
    <3> DEFINE items == m.items
               k == m.live
    <3>1. items \in Seq(Items(W)) /\ k \in 1..Len(items) /\ items[k].kind = "assistant"
      BY <1>1, <2>1
    <3> HIDE DEF items, k
    <3>2. /\ Closed(items, k) \in Seq(Items(W)) /\ Len(Closed(items, k)) = Len(items)
          /\ \A i \in 1..Len(items) : i # k => Closed(items, k)[i] = items[i]
          /\ Closed(items, k)[k].kind = "assistant" /\ Closed(items, k)[k].streaming = FALSE
      BY <3>1, ClosedFacts
    <3> QED
      BY <3>2 DEF items, k
  <2> HIDE DEF new
  <2>4. \A i \in 1..Len(m.items) : new[i].kind = m.items[i].kind /\ (new[i].kind # "assistant" => new[i] = m.items[i])
    BY <2>1, <2>3
  <2>5. ASSUME OnlyLiveStreams(m), NEW i \in 1..Len(m.items), new[i].kind = "assistant"
        PROVE  ~new[i].streaming
    <3>1. CASE i = m.live
      BY <2>3, <3>1
    <3>2. CASE i # m.live
      BY <2>3, <2>5, <3>2 DEF OnlyLiveStreams
    <3> QED
      BY <3>1, <3>2
  <2> QED
    BY <2>2, <2>3, <2>4, <2>5 DEF new
<1> QED
  BY <1>2, <1>3

LEMMA BundlesSame ==
    ASSUME NEW n \in Nat, NEW a, NEW b, Len(a) = n, Len(b) = n,
           \A i \in 1..n : a[i].kind = b[i].kind /\ (a[i].kind = "bundle" => a[i] = b[i])
    PROVE  Bundles(a) = Bundles(b)
<1>1. {j \in 1..n : a[j].kind = "bundle"} = {j \in 1..n : b[j].kind = "bundle"}
  OBVIOUS
<1>2. \A i \in {j \in 1..n : a[j].kind = "bundle"} : a[i].paths = b[i].paths
  OBVIOUS
<1> QED
  BY <1>1, <1>2 DEF Bundles

LEMMA BundlesAppend ==
    ASSUME NEW W, NEW items \in Seq(Items(W)), NEW item \in Items(W)
    PROVE  Bundles(Append(items, item)) =
             Bundles(items) \cup (IF item.kind = "bundle" THEN {item.paths} ELSE {})
<1> DEFINE n == Len(items)
           new == Append(items, item)
<1>1. /\ n \in Nat /\ Len(new) = n + 1 /\ new[n + 1] = item
      /\ \A i \in 1..n : new[i] = items[i]
  OBVIOUS
<1> HIDE DEF new
<1>2. ASSUME NEW x \in Bundles(new) PROVE x \in Bundles(items) \cup (IF item.kind = "bundle" THEN {item.paths} ELSE {})
  BY <1>1, <1>2 DEF Bundles
<1>3. ASSUME NEW x \in Bundles(items) PROVE x \in Bundles(new)
  BY <1>1, <1>3 DEF Bundles
<1>4. item.kind = "bundle" => item.paths \in Bundles(new)
  BY <1>1 DEF Bundles
<1> QED
  BY <1>2, <1>3, <1>4 DEF new

-----------------------------------------------------------------------------
(* What an event does to a transcript.                                     *)

\* The items are of their kinds, deltas go to a bubble that is streaming, no other is if no other
\* was, and `new` bundles are added.
Follows(m, W, items, live, new) ==
    /\ items \in Seq(Items(W)) /\ live \in Nat
    /\ live # 0 => /\ live \in 1..Len(items)
                   /\ items[live].kind = "assistant" /\ items[live].streaming
    /\ OnlyLiveStreams(m) =>
          \A i \in 1..Len(items) : items[i].kind = "assistant" /\ items[i].streaming => i = live
    /\ Bundles(items) = Bundles(m.items) \cup new

LEMMA Unfollowed ==
    ASSUME NEW W, NEW m, Model(m, W)
    PROVE  Follows(m, W, m.items, m.live, {})
BY DEF Follows, Model, Models, OnlyLiveStreams

LEMMA ClosingFollows ==
    ASSUME NEW W, NEW m, Model(m, W)
    PROVE  Follows(m, W, Closing(m.items, m.live), 0, {})
<1> DEFINE items == Closing(m.items, m.live)
<1>1. /\ items \in Seq(Items(W)) /\ Len(items) = Len(m.items)
      /\ \A i \in 1..Len(m.items) :
            items[i].kind = m.items[i].kind /\ (items[i].kind # "assistant" => items[i] = m.items[i])
      /\ OnlyLiveStreams(m) => \A i \in 1..Len(m.items) : items[i].kind = "assistant" => ~items[i].streaming
  BY ClosingFacts
<1> HIDE DEF items
<1>2. Len(m.items) \in Nat
  BY DEF Model, Models
<1>3. Bundles(items) = Bundles(m.items)
  BY <1>1, <1>2, BundlesSame
<1>4. Follows(m, W, items, 0, {})
  BY <1>1, <1>3 DEF Follows
<1> QED
  BY <1>4 DEF items

\* An item that does not stream is added.
LEMMA AppendFollows ==
    ASSUME NEW W, NEW m, NEW items, NEW live, Follows(m, W, items, live, {}),
           NEW item \in Items(W), item.kind = "assistant" => ~item.streaming
    PROVE  Follows(m, W, Append(items, item), live, IF item.kind = "bundle" THEN {item.paths} ELSE {})
<1> DEFINE longer == Append(items, item)
<1>1. items \in Seq(Items(W)) /\ live \in Nat
  BY DEF Follows
<1>2. /\ longer \in Seq(Items(W)) /\ Len(items) \in Nat /\ Len(longer) = Len(items) + 1
      /\ longer[Len(items) + 1] = item /\ \A i \in 1..Len(items) : longer[i] = items[i]
  BY <1>1
<1>3. Bundles(longer) = Bundles(items) \cup (IF item.kind = "bundle" THEN {item.paths} ELSE {})
  BY <1>1, BundlesAppend
<1> HIDE DEF longer
<1>4. live # 0 => /\ live \in 1..Len(longer)
                  /\ longer[live].kind = "assistant" /\ longer[live].streaming
  BY <1>1, <1>2 DEF Follows
<1>5. ASSUME OnlyLiveStreams(m), NEW i \in 1..Len(longer), longer[i].kind = "assistant", longer[i].streaming
      PROVE  i = live
  <2>1. CASE i = Len(items) + 1
    BY <1>2, <1>5, <2>1
  <2>2. CASE i \in 1..Len(items)
    BY <1>2, <1>5, <2>2 DEF Follows
  <2> QED
    BY <1>2, <2>1, <2>2
<1>6. Bundles(longer) = Bundles(m.items) \cup (IF item.kind = "bundle" THEN {item.paths} ELSE {})
  BY <1>3 DEF Follows
<1>7. Follows(m, W, longer, live, IF item.kind = "bundle" THEN {item.paths} ELSE {})
  BY <1>1, <1>2, <1>4, <1>5, <1>6 DEF Follows
<1> QED
  BY <1>7 DEF longer

LEMMA DeltaFollows ==
    ASSUME NEW W, NEW m, Model(m, W), m.live = 0, NEW t \in Turns
    PROVE  Follows(m, W, Append(m.items, Bubble(t, "partial", TRUE)), Len(m.items) + 1, {})
<1> DEFINE item == Bubble(t, "partial", TRUE)
           longer == Append(m.items, item)
           n == Len(m.items)
<1>1. m.items \in Seq(Items(W)) /\ n \in Nat
  BY DEF Model, Models
<1>2. item \in Items(W) /\ item.kind = "assistant" /\ item.streaming
  <2>1. "" \in Arguments
    BY DEF Arguments
  <2> QED
    BY <2>1, NewItems, NewKinds
<1> HIDE DEF item
<1>3. /\ longer \in Seq(Items(W)) /\ Len(longer) = n + 1
      /\ longer[n + 1] = item /\ \A i \in 1..n : longer[i] = m.items[i]
  BY <1>1, <1>2
<1>4. Bundles(longer) = Bundles(m.items)
  BY <1>1, <1>2, BundlesAppend
<1> HIDE DEF longer, n
<1>5. ASSUME OnlyLiveStreams(m), NEW i \in 1..Len(longer), longer[i].kind = "assistant", longer[i].streaming
      PROVE  i = n + 1
  <2>1. ASSUME i # n + 1 PROVE FALSE
    <3>1. i \in 1..n /\ longer[i] = m.items[i]
      BY <1>1, <1>3, <2>1
    <3> QED
      BY <1>5, <3>1 DEF OnlyLiveStreams, n
  <2> QED
    BY <2>1
<1>6. Follows(m, W, longer, n + 1, {})
  BY <1>1, <1>2, <1>3, <1>4, <1>5 DEF Follows
<1> QED
  BY <1>6 DEF longer, n, item

LEMMA MessageFollows ==
    ASSUME NEW W, NEW m, Model(m, W), m.live # 0, NEW t \in Turns
    PROVE  Follows(m, W, [m.items EXCEPT ![m.live] = Bubble(t, "final", FALSE)], 0, {})
<1> DEFINE item == Bubble(t, "final", FALSE)
           new == [m.items EXCEPT ![m.live] = item]
           n == Len(m.items)
<1>1. /\ m.items \in Seq(Items(W)) /\ n \in Nat
      /\ m.live \in 1..n /\ m.items[m.live].kind = "assistant"
  BY DEF Model, Models
<1>2. item \in Items(W) /\ item.kind = "assistant" /\ ~item.streaming
  <2>1. "" \in Arguments
    BY DEF Arguments
  <2> QED
    BY <2>1, NewItems, NewKinds
<1> HIDE DEF item
<1>3. /\ new \in Seq(Items(W)) /\ Len(new) = n
      /\ \A i \in 1..n : new[i] = IF i = m.live THEN item ELSE m.items[i]
  BY <1>1, <1>2
<1> HIDE DEF new
<1>4. Bundles(new) = Bundles(m.items)
  <2>1. \A i \in 1..n : new[i].kind = m.items[i].kind /\ (new[i].kind = "bundle" => new[i] = m.items[i])
    BY <1>1, <1>2, <1>3
  <2> QED
    BY <1>1, <1>3, <2>1, BundlesSame
<1>5. ASSUME OnlyLiveStreams(m), NEW i \in 1..Len(new), new[i].kind = "assistant", new[i].streaming
      PROVE  i = 0
  BY <1>2, <1>3, <1>5 DEF OnlyLiveStreams
<1>6. Follows(m, W, new, 0, {})
  BY <1>3, <1>4, <1>5 DEF Follows
<1> QED
  BY <1>6 DEF new, item

LEMMA SameKindsFollow ==
    ASSUME NEW W, NEW m, Model(m, W), NEW new \in Seq(Items(W)), Len(new) = Len(m.items),
           \A i \in 1..Len(m.items) : /\ new[i].kind = m.items[i].kind
                                      /\ m.items[i].kind # "tool" => new[i] = m.items[i]
    PROVE  Follows(m, W, new, m.live, {})
<1>1. m.items \in Seq(Items(W)) /\ Len(m.items) \in Nat /\ m.live \in Nat
  BY DEF Model, Models
<1>2. Bundles(new) = Bundles(m.items)
  <2>1. \A i \in 1..Len(m.items) : new[i].kind = m.items[i].kind /\ (new[i].kind = "bundle" => new[i] = m.items[i])
    OBVIOUS
  <2> QED
    BY <1>1, <2>1, BundlesSame
<1>3. m.live # 0 => m.live \in 1..Len(new) /\ new[m.live].kind = "assistant" /\ new[m.live].streaming
  BY DEF Model
<1>4. OnlyLiveStreams(m) =>
        \A i \in 1..Len(new) : new[i].kind = "assistant" /\ new[i].streaming => i = m.live
  BY DEF OnlyLiveStreams
<1> QED
  BY <1>1, <1>2, <1>3, <1>4 DEF Follows

LEMMA CardsFollow ==
    ASSUME NEW W, NEW m, Model(m, W), NEW t, NEW result \in {"ok", "failed"},
           NEW new, new = Outputs(m.items, t) \/ new = Results(m.items, t, result)
    PROVE  Follows(m, W, new, m.live, {})
<1>1. m.items \in Seq(Items(W))
  BY DEF Model, Models
<1>2. /\ new \in Seq(Items(W)) /\ Len(new) = Len(m.items)
      /\ \A i \in 1..Len(m.items) : /\ new[i].kind = m.items[i].kind
                                    /\ m.items[i].kind # "tool" => new[i] = m.items[i]
  BY <1>1, CardsFacts
<1> QED
  BY <1>2, SameKindsFollow

LEMMA SoundFacts ==
    ASSUME NEW W, NEW e \in Sound(W)
    PROVE  /\ e \in Events /\ e.arg \in Arguments /\ e.of \in Turns \cup {None}
           /\ e.type \in OfTurns \cup {"session_status", "turn_complete", "system_message", "error"}
           /\ e.type \in OfTurns => e.of \in Turns
           /\ e.type = "session_status" => e.arg \in States
           /\ e.type = "tool_result" => e.arg \in {"ok", "failed"} /\ (e.arg = "ok" => e.of \in W)
BY DEF Sound, Events, Arguments, OfTurns

NewBundles(changed, e) ==
    IF e.type = "turn_complete" /\ e.arg = "ok" /\ changed # {} THEN {changed} ELSE {}

LEMMA EndedFollows ==
    ASSUME NEW W, NEW m, Model(m, W), NEW status \in Arguments
    PROVE  Follows(m, W, Ended(Closing(m.items, m.live), m.changed, status), 0,
                   IF status = "ok" /\ m.changed # {} THEN {m.changed} ELSE {})
<1> DEFINE items == Closing(m.items, m.live)
<1>1. Follows(m, W, items, 0, {})
  BY ClosingFollows
<1>2. 1 \in Nat /\ m.changed \in SUBSET W
  BY DEF Model, Models
<1> HIDE DEF items
<1>3. CASE status # "ok"
  <2> DEFINE item == Line("system", status)
  <2>1. item \in LineItems /\ item.kind = "system"
    BY DEF LineItems, Line
  <2>2. item \in Items(W)
    BY <2>1 DEF Items
  <2> HIDE DEF item
  <2>3. Follows(m, W, Append(items, item), 0, {})
    BY <1>1, <2>1, <2>2, AppendFollows
  <2> QED
    BY <1>3, <2>3 DEF Ended, item, items
<1>4. CASE status = "ok" /\ m.changed # {}
  <2> DEFINE item == Bundle(m.changed)
  <2>1. item \in BundleItems(W) /\ item.kind = "bundle" /\ item.paths = m.changed
    BY <1>2 DEF BundleItems, Bundle
  <2>2. item \in Items(W)
    BY <2>1 DEF Items
  <2> HIDE DEF item
  <2>3. Follows(m, W, Append(items, item), 0, {m.changed})
    BY <1>1, <2>1, <2>2, AppendFollows
  <2> QED
    BY <1>4, <2>3 DEF Ended, item, items
<1>5. CASE status = "ok" /\ m.changed = {}
  BY <1>1, <1>5 DEF Ended, items
<1> QED
  BY <1>3, <1>4, <1>5

LEMMA ReduceFollows ==
    ASSUME NEW W, NEW m, Model(m, W), NEW e \in Sound(W)
    PROVE  Follows(m, W, ItemsAfter(m.items, m.live, m.changed, e), LiveAfter(m.items, m.live, e),
                   NewBundles(m.changed, e))
<1>0. /\ e.arg \in Arguments /\ "" \in Arguments
      /\ e.type \in OfTurns => e.of \in Turns
      /\ e.type = "tool_result" => e.arg \in {"ok", "failed"}
  BY SoundFacts DEF Arguments
<1>1. CASE e.type = "assistant_delta"
  <2>1. CASE m.live # 0
    BY <1>1, <2>1, Unfollowed DEF ItemsAfter, LiveAfter, NewBundles
  <2>2. CASE m.live = 0
    <3>1. e.of \in Turns
      BY <1>0, <1>1 DEF OfTurns
    <3>2. Follows(m, W, Append(m.items, Bubble(e.of, "partial", TRUE)), Len(m.items) + 1, {})
      BY <2>2, <3>1, DeltaFollows
    <3> QED
      BY <1>1, <2>2, <3>2 DEF ItemsAfter, LiveAfter, NewBundles
  <2> QED
    BY <2>1, <2>2
<1>2. CASE e.type = "assistant_message"
  <2>1. e.of \in Turns
    BY <1>0, <1>2 DEF OfTurns
  <2>2. CASE m.live # 0
    <3>1. Follows(m, W, [m.items EXCEPT ![m.live] = Bubble(e.of, "final", FALSE)], 0, {})
      BY <2>1, <2>2, MessageFollows
    <3> QED
      BY <1>2, <2>2, <3>1 DEF ItemsAfter, LiveAfter, NewBundles
  <2>3. CASE m.live = 0
    <3> DEFINE item == Bubble(e.of, "final", FALSE)
    <3>1. item \in Items(W) /\ item.kind = "assistant" /\ ~item.streaming
      BY <1>0, <2>1, NewItems, NewKinds
    <3> HIDE DEF item
    <3>2. Follows(m, W, m.items, 0, {})
      BY <2>3, Unfollowed
    <3>3. Follows(m, W, Append(m.items, item), 0, {})
      BY <3>1, <3>2, AppendFollows
    <3> QED
      BY <1>2, <2>3, <3>3 DEF ItemsAfter, LiveAfter, NewBundles, item
  <2> QED
    BY <2>2, <2>3
<1>3. CASE e.type = "tool_use"
  <2> DEFINE item == ToolCard(e.of)
             items == Closing(m.items, m.live)
  <2>1. item \in Items(W) /\ item.kind = "tool"
    BY <1>0, <1>3, NewItems, NewKinds DEF OfTurns
  <2> HIDE DEF item
  <2>2. Follows(m, W, items, 0, {})
    BY ClosingFollows
  <2> HIDE DEF items
  <2>3. Follows(m, W, Append(items, item), 0, {})
    BY <2>1, <2>2, AppendFollows
  <2> QED
    BY <1>3, <2>3 DEF ItemsAfter, LiveAfter, NewBundles, item, items
<1>4. CASE e.type = "tool_stream"
  <2>1. Follows(m, W, Outputs(m.items, e.of), m.live, {})
    BY CardsFollow
  <2> QED
    BY <1>4, <2>1 DEF ItemsAfter, LiveAfter, NewBundles
<1>5. CASE e.type = "tool_result"
  <2>1. Follows(m, W, Results(m.items, e.of, e.arg), m.live, {})
    BY <1>0, <1>5, CardsFollow
  <2> QED
    BY <1>5, <2>1 DEF ItemsAfter, LiveAfter, NewBundles
<1>6. CASE e.type = "turn_complete"
  BY <1>0, <1>6, EndedFollows DEF ItemsAfter, LiveAfter, NewBundles
<1>7. CASE e.type \in {"system_message", "error"}
  <2> DEFINE item == Line(e.type, "")
  <2>1. item \in LineItems /\ item.kind = e.type
    BY <1>0, <1>7 DEF LineItems, Line
  <2>2. item \in Items(W) /\ item.kind # "assistant" /\ item.kind # "bundle"
    BY <1>7, <2>1 DEF Items
  <2> HIDE DEF item
  <2>3. Follows(m, W, m.items, m.live, {})
    BY Unfollowed
  <2>4. Follows(m, W, Append(m.items, item), m.live, {})
    BY <2>2, <2>3, AppendFollows
  <2> QED
    BY <1>7, <2>4 DEF ItemsAfter, LiveAfter, NewBundles, item
<1>8. CASE e.type \in {"permission_request", "session_status"}
  BY <1>8, Unfollowed DEF ItemsAfter, LiveAfter, NewBundles
<1> QED
  BY <1>1, <1>2, <1>3, <1>4, <1>5, <1>6, <1>7, <1>8, SoundFacts DEF OfTurns

\* SessionModel.apply() keeps a model in shape, adds no bundle but for the files of a turn that ends,
\* and its fields are those of ReduceForm.
LEMMA ReduceFacts ==
    ASSUME NEW W, W \subseteq Turns, NEW m, Model(m, W), NEW e \in Sound(W)
    PROVE  LET n == Reduce(m, e) IN
           /\ Model(n, W) /\ (OnlyLiveStreams(m) => OnlyLiveStreams(n))
           /\ n.items = ItemsAfter(m.items, m.live, m.changed, e)
           /\ n.live = LiveAfter(m.items, m.live, e)
           /\ n.edits = EditsAfter(m.edits, e)
           /\ n.changed = ChangedAfter(m.edits, m.changed, e)
           /\ n.pending = PendingAfter(m.pending, e)
           /\ n.state = StateAfter(m.state, e)
           /\ Bundles(n.items) = Bundles(m.items) \cup NewBundles(m.changed, e)
<1> DEFINE n == Reduce(m, e)
           i == ItemsAfter(m.items, m.live, m.changed, e)
           l == LiveAfter(m.items, m.live, e)
           d == EditsAfter(m.edits, e)
           c == ChangedAfter(m.edits, m.changed, e)
           p == PendingAfter(m.pending, e)
           s == StateAfter(m.state, e)
<1>0. m \in Models(W)
  BY DEF Model
<1>1. n = Record(i, l, d, c, p, s)
  BY <1>0, ReduceForm
<1>2. Follows(m, W, i, l, NewBundles(m.changed, e))
  BY ReduceFollows
<1>3. d \in SUBSET Turns
  BY <1>0, SoundFacts DEF EditsAfter, Models, OfTurns
<1>4. c \in SUBSET W
  BY <1>0, SoundFacts DEF ChangedAfter, Models
<1>5. p \in Turns \cup {None}
  BY <1>0, SoundFacts DEF PendingAfter, Models, OfTurns
<1>6. s \in States
  BY <1>0, SoundFacts DEF StateAfter, Models
<1> HIDE DEF n, i, l, d, c, p, s
<1>7. /\ n.items = i /\ n.live = l /\ n.edits = d /\ n.changed = c
      /\ n.pending = p /\ n.state = s
  BY <1>1 DEF Record
<1>8. n \in Models(W)
  BY <1>1, <1>2, <1>3, <1>4, <1>5, <1>6 DEF Record, Models, Follows
<1>9. Model(n, W) /\ (OnlyLiveStreams(m) => OnlyLiveStreams(n))
  BY <1>2, <1>7, <1>8 DEF Follows, Model, OnlyLiveStreams
<1>10. Bundles(n.items) = Bundles(m.items) \cup NewBundles(m.changed, e)
  BY <1>2, <1>7 DEF Follows
<1> QED
  BY <1>7, <1>9, <1>10, Zenon DEF n, i, l, d, c, p, s

LEMMA SameStep ==
    ASSUME NEW W, W \subseteq Turns, NEW m, NEW j, Model(m, W), Model(j, W), NEW e \in Sound(W),
           SameTranscript(m, j)
    PROVE  SameTranscript(Reduce(m, e), Reduce(j, e))
<1>1. /\ Reduce(m, e).items = ItemsAfter(m.items, m.live, m.changed, e)
      /\ Reduce(m, e).live = LiveAfter(m.items, m.live, e)
      /\ Reduce(m, e).edits = EditsAfter(m.edits, e)
      /\ Reduce(m, e).changed = ChangedAfter(m.edits, m.changed, e)
  BY ReduceFacts, Zenon
<1>2. /\ Reduce(j, e).items = ItemsAfter(j.items, j.live, j.changed, e)
      /\ Reduce(j, e).live = LiveAfter(j.items, j.live, e)
      /\ Reduce(j, e).edits = EditsAfter(j.edits, e)
      /\ Reduce(j, e).changed = ChangedAfter(j.edits, j.changed, e)
  BY ReduceFacts, Zenon
<1> QED
  BY <1>1, <1>2, Zenon DEF SameTranscript

LEMMA EmptyModelFacts ==
    ASSUME NEW W
    PROVE  /\ Model(EmptyModel, W) /\ OnlyLiveStreams(EmptyModel)
           /\ EmptyModel.items = <<>> /\ EmptyModel.live = 0 /\ EmptyModel.edits = {}
           /\ EmptyModel.changed = {} /\ EmptyModel.pending = None
<1>1. "idle" \in States /\ <<>> \in Seq(Items(W)) /\ Len(<<>>) = 0
  BY DEF States
<1> QED
  BY <1>1 DEF EmptyModel, Model, Models, OnlyLiveStreams

\* More turns may write their file.
LEMMA SoundGrows ==
    ASSUME NEW W, NEW V, W \subseteq V
    PROVE  Sound(W) \subseteq Sound(V)
BY DEF Sound

LEMMA ItemsGrow ==
    ASSUME NEW W, NEW V, W \subseteq V
    PROVE  Items(W) \subseteq Items(V)
<1>1. BundleItems(W) \subseteq BundleItems(V)
  BY DEF BundleItems
<1> QED
  BY <1>1 DEF Items

LEMMA ModelGrows ==
    ASSUME NEW W, NEW V, W \subseteq V, NEW m, Model(m, W)
    PROVE  Model(m, V)
<1>1. Seq(Items(W)) \subseteq Seq(Items(V))
  BY ItemsGrow, SeqMonotonic
<1>2. m \in Models(V)
  BY <1>1 DEF Model, Models
<1> QED
  BY <1>2 DEF Model

-----------------------------------------------------------------------------
(* Prefixes of a journal.                                                  *)

LEMMA PrefixFacts ==
    ASSUME NEW S, NEW s \in Seq(S)
    PROVE  /\ Len(s) \in Nat /\ SubSeq(s, 1, Len(s)) = s /\ SubSeq(s, 1, 0) = <<>>
           /\ \A n \in 0..(Len(s) - 1) : /\ SubSeq(s, 1, n) \in Seq(S) /\ s[n + 1] \in S
                                         /\ SubSeq(s, 1, n + 1) = Append(SubSeq(s, 1, n), s[n + 1])
<1>1. Len(s) \in Nat /\ \A i \in 1..Len(s) : s[i] \in S
  OBVIOUS
<1>2. SubSeq(s, 1, Len(s)) = s
  BY SubSeqFull
<1>3. SubSeq(s, 1, 0) = <<>>
  BY SubSeqEmpty
<1>4. ASSUME NEW n \in 0..(Len(s) - 1)
      PROVE  /\ SubSeq(s, 1, n) \in Seq(S) /\ s[n + 1] \in S
             /\ SubSeq(s, 1, n + 1) = Append(SubSeq(s, 1, n), s[n + 1])
  <2>1. SubSeq(s, 1, n) \in Seq(S) /\ s[n + 1] \in S /\ n + 1 \in 1..Len(s)
    BY <1>1, <1>4, SubSeqProperties
  <2>2. SubSeq(s, 1, n + 1) = SubSeq(s, 1, n) \o <<s[n + 1]>>
    <3>1. n + 1 \in 1..Len(s) /\ 1 \in 1..Len(s) /\ (n + 1) - 1 = n
      BY <1>1, <1>4
    <3> QED
      BY <1>1, <3>1, SubSeqRecursiveSecond
  <2>3. Append(SubSeq(s, 1, n), s[n + 1]) = SubSeq(s, 1, n) \o <<s[n + 1]>>
    BY <2>1, AppendIsConcat
  <2> QED
    BY <2>1, <2>2, <2>3
<1> QED
  BY <1>1, <1>2, <1>3, <1>4

LEMMA PrefixOfConcat ==
    ASSUME NEW S, NEW s \in Seq(S), NEW t \in Seq(S), NEW n \in 0..Len(s)
    PROVE  SubSeq(s \o t, 1, n) = SubSeq(s, 1, n)
<1>1. CASE n = 0
  BY <1>1, SubSeqEmpty
<1>2. CASE n # 0
  <2>1. n \in 1..Len(s) /\ 1 \in 1..Len(s)
    BY <1>2
  <2> QED
    BY <2>1, SubSeqOfConcat1
<1> QED
  BY <1>1, <1>2

\* What a page makes of a sound journal is in shape.
LEMMA HistoryIsModel ==
    ASSUME NEW W, W \subseteq Turns, NEW events \in Seq(Sound(W)), NEW n \in 0..Len(events)
    PROVE  Model(ModelOf(SubSeq(events, 1, n)), W)
<1> DEFINE T == {k \in 0..Len(events) : Model(ModelOf(SubSeq(events, 1, k)), W)}
<1>0. Len(events) \in Nat
  OBVIOUS
<1>1. 0 \in T
  <2>1. SubSeq(events, 1, 0) = <<>>
    BY SubSeqEmpty
  <2>2. Model(ModelOf(SubSeq(events, 1, 0)), W)
    BY <2>1, ModelOfEmpty, EmptyModelFacts, Zenon
  <2> QED
    BY <1>0, <2>2
<1>2. ASSUME NEW k \in 0..(Len(events) - 1), k \in T PROVE k + 1 \in T
  <2>1. /\ SubSeq(events, 1, k) \in Seq(Sound(W)) /\ events[k + 1] \in Sound(W)
        /\ SubSeq(events, 1, k + 1) = Append(SubSeq(events, 1, k), events[k + 1])
    BY <1>2, PrefixFacts, Zenon
  <2>2. ModelOf(SubSeq(events, 1, k + 1)) = Reduce(ModelOf(SubSeq(events, 1, k)), events[k + 1])
    BY <2>1, ModelOfAppend
  <2>3. Model(ModelOf(SubSeq(events, 1, k)), W)
    BY <1>2
  <2>4. Model(ModelOf(SubSeq(events, 1, k + 1)), W)
    <3>1. Model(Reduce(ModelOf(SubSeq(events, 1, k)), events[k + 1]), W)
      BY <2>1, <2>3, ReduceFacts
    <3> QED
      BY <2>2, <3>1
  <2> QED
    BY <1>0, <2>4
<1> HIDE DEF T
<1>3. n \in T
  BY <1>0, <1>1, <1>2, UpTo
<1> QED
  BY <1>3 DEF T

LEMMA ModelOfOneMore ==
    ASSUME NEW S, NEW s \in Seq(S), NEW t \in Seq(S), NEW e \in S
    PROVE  ModelOf(s \o Append(t, e)) = Reduce(ModelOf(s \o t), e)
<1>1. s \o Append(t, e) = Append(s \o t, e)
  <2>1. Append(t, e) = t \o <<e>> /\ Append(s \o t, e) = (s \o t) \o <<e>> /\ <<e>> \in Seq(S)
    BY AppendIsConcat, ConcatProperties
  <2> QED
    BY <2>1, ConcatAssociative
<1>2. s \o t \in Seq(S)
  BY ConcatProperties
<1> QED
  BY <1>1, <1>2, ModelOfAppend

LEMMA ModelOfMore1 ==
    ASSUME NEW S, NEW s \in Seq(S), NEW a \in S
    PROVE  ModelOf(s \o <<a>>) = Reduce(ModelOf(s \o <<>>), a)
<1> DEFINE t == <<>>
           u == <<a>>
<1>1. t \in Seq(S) /\ u = Append(t, a)
  OBVIOUS
<1> HIDE DEF t, u
<1>2. ModelOf(s \o Append(t, a)) = Reduce(ModelOf(s \o t), a)
  BY <1>1, ModelOfOneMore
<1> QED
  BY <1>1, <1>2 DEF t, u

LEMMA ModelOfMore2 ==
    ASSUME NEW S, NEW s \in Seq(S), NEW a \in S, NEW b \in S
    PROVE  ModelOf(s \o <<a, b>>) = Reduce(ModelOf(s \o <<a>>), b)
<1> DEFINE t == <<a>>
           u == <<a, b>>
<1>1. t \in Seq(S) /\ u = Append(t, b)
  OBVIOUS
<1> HIDE DEF t, u
<1>2. ModelOf(s \o Append(t, b)) = Reduce(ModelOf(s \o t), b)
  BY <1>1, ModelOfOneMore
<1> QED
  BY <1>1, <1>2 DEF t, u

LEMMA ModelOfMore3 ==
    ASSUME NEW S, NEW s \in Seq(S), NEW a \in S, NEW b \in S, NEW c \in S
    PROVE  ModelOf(s \o <<a, b, c>>) = Reduce(ModelOf(s \o <<a, b>>), c)
<1> DEFINE t == <<a, b>>
           u == <<a, b, c>>
<1>1. t \in Seq(S) /\ u = Append(t, c)
  OBVIOUS
<1> HIDE DEF t, u
<1>2. ModelOf(s \o Append(t, c)) = Reduce(ModelOf(s \o t), c)
  BY <1>1, ModelOfOneMore
<1> QED
  BY <1>1, <1>2 DEF t, u

LEMMA ModelOfMore4 ==
    ASSUME NEW S, NEW s \in Seq(S), NEW a \in S, NEW b \in S, NEW c \in S, NEW d \in S
    PROVE  ModelOf(s \o <<a, b, c, d>>) = Reduce(ModelOf(s \o <<a, b, c>>), d)
<1> DEFINE t == <<a, b, c>>
           u == <<a, b, c, d>>
<1>1. t \in Seq(S) /\ u = Append(t, d)
  OBVIOUS
<1> HIDE DEF t, u
<1>2. ModelOf(s \o Append(t, d)) = Reduce(ModelOf(s \o t), d)
  BY <1>1, ModelOfOneMore
<1> QED
  BY <1>1, <1>2 DEF t, u

LEMMA ModelOfMore5 ==
    ASSUME NEW S, NEW s \in Seq(S), NEW a \in S, NEW b \in S, NEW c \in S, NEW d \in S, NEW e \in S
    PROVE  ModelOf(s \o <<a, b, c, d, e>>) = Reduce(ModelOf(s \o <<a, b, c, d>>), e)
<1> DEFINE t == <<a, b, c, d>>
           u == <<a, b, c, d, e>>
<1>1. t \in Seq(S) /\ u = Append(t, e)
  OBVIOUS
<1> HIDE DEF t, u
<1>2. ModelOf(s \o Append(t, e)) = Reduce(ModelOf(s \o t), e)
  BY <1>1, ModelOfOneMore
<1> QED
  BY <1>1, <1>2 DEF t, u

\* The model after up to five events more.
LEMMA EventFields ==
    ASSUME NEW type, NEW t, NEW arg
    PROVE  Event(type, t, arg).type = type /\ Event(type, t, arg).of = t /\ Event(type, t, arg).arg = arg
BY DEF Event

LEMMA EventsAreSound ==
    ASSUME NEW W, NEW t \in Turns
    PROVE  /\ Event("assistant_delta", t, "") \in Sound(W)
           /\ Event("assistant_message", t, "") \in Sound(W)
           /\ Event("tool_stream", t, "") \in Sound(W)
           /\ Event("permission_request", t, "") \in Sound(W)
           /\ Event("error", t, "") \in Sound(W)
           /\ Event("tool_use", t, "Write") \in Sound(W)
           /\ Event("tool_result", t, "failed") \in Sound(W)
           /\ t \in W => Event("tool_result", t, "ok") \in Sound(W)
           /\ \A status \in {"ok", "error", "interrupted"} : Event("turn_complete", t, status) \in Sound(W)
BY DEF Event, Sound, Events, OfTurns

LEMMA SessionEventsAreSound ==
    ASSUME NEW W
    PROVE  System \in Sound(W) /\ \A state \in States : Status(state) \in Sound(W)
BY DEF Event, System, Status, Sound, Events, OfTurns

\* A model in which no bubble but the live one streams, none at all if `closed`, with bundles B.
At(m, W, B, closed, edits, changed, pending) ==
    /\ Model(m, W) /\ OnlyLiveStreams(m) /\ Bundles(m.items) = B
    /\ closed => m.live = 0
    /\ m.edits = edits /\ m.changed = changed /\ m.pending = pending

LEMMA AtStep ==
    ASSUME NEW W, W \subseteq Turns, NEW m, NEW B, NEW closed, NEW d, NEW c, NEW p,
           At(m, W, B, closed, d, c, p),
           NEW e \in Sound(W)
    PROVE  At(Reduce(m, e), W, B \cup NewBundles(c, e),
              \/ e.type \in {"assistant_message", "tool_use", "turn_complete"}
              \/ closed /\ e.type # "assistant_delta",
              EditsAfter(d, e), ChangedAfter(d, c, e), PendingAfter(p, e))
<1> DEFINE n == Reduce(m, e)
<1>1. /\ Model(n, W) /\ (OnlyLiveStreams(m) => OnlyLiveStreams(n))
      /\ n.live = LiveAfter(m.items, m.live, e)
      /\ n.edits = EditsAfter(m.edits, e)
      /\ n.changed = ChangedAfter(m.edits, m.changed, e)
      /\ n.pending = PendingAfter(m.pending, e)
      /\ Bundles(n.items) = Bundles(m.items) \cup NewBundles(m.changed, e)
  BY ReduceFacts DEF At
<1> HIDE DEF n
<1>2. (\/ e.type \in {"assistant_message", "tool_use", "turn_complete"}
       \/ closed /\ e.type # "assistant_delta") => n.live = 0
  BY <1>1 DEF At, LiveAfter
<1>3. At(n, W, B \cup NewBundles(c, e),
         \/ e.type \in {"assistant_message", "tool_use", "turn_complete"}
         \/ closed /\ e.type # "assistant_delta",
         EditsAfter(d, e), ChangedAfter(d, c, e), PendingAfter(p, e))
  BY <1>1, <1>2, Zenon DEF At
<1> QED
  BY <1>3, Zenon DEF n

LEMMA AtLine ==
    ASSUME NEW W, W \subseteq Turns, NEW m, NEW B, NEW closed, NEW d, NEW c, NEW p,
           At(m, W, B, closed, d, c, p),
           NEW e \in Sound(W), e.type \in {"system_message", "error", "tool_stream"}
    PROVE  At(Reduce(m, e), W, B, closed, d, c, p)
<1>1. At(Reduce(m, e), W, B \cup NewBundles(c, e),
         \/ e.type \in {"assistant_message", "tool_use", "turn_complete"}
         \/ closed /\ e.type # "assistant_delta",
         EditsAfter(d, e), ChangedAfter(d, c, e), PendingAfter(p, e))
  BY AtStep, Zenon
<1>2. /\ NewBundles(c, e) = {} /\ EditsAfter(d, e) = d /\ ChangedAfter(d, c, e) = c /\ PendingAfter(p, e) = p
      /\ e.type # "assistant_delta"
  BY DEF NewBundles, EditsAfter, ChangedAfter, PendingAfter
<1> QED
  BY <1>1, <1>2, Zenon DEF At

LEMMA AtStatus ==
    ASSUME NEW W, W \subseteq Turns, NEW m, NEW B, NEW closed, NEW d, NEW c, NEW p,
           At(m, W, B, closed, d, c, p),
           NEW state \in States
    PROVE  At(Reduce(m, Status(state)), W, B, closed, d, c, IF state = "awaiting-approval" THEN p ELSE None)
<1> DEFINE e == Status(state)
<1>0. e \in Sound(W) /\ e.type = "session_status" /\ e.arg = state
  BY SessionEventsAreSound, EventFields DEF Status
<1> HIDE DEF e
<1>1. At(Reduce(m, e), W, B \cup NewBundles(c, e),
         \/ e.type \in {"assistant_message", "tool_use", "turn_complete"}
         \/ closed /\ e.type # "assistant_delta",
         EditsAfter(d, e), ChangedAfter(d, c, e), PendingAfter(p, e))
  BY <1>0, AtStep, Zenon
<1>2. /\ NewBundles(c, e) = {} /\ EditsAfter(d, e) = d /\ ChangedAfter(d, c, e) = c
      /\ PendingAfter(p, e) = IF state = "awaiting-approval" THEN p ELSE None
      /\ e.type # "assistant_delta"
  BY <1>0 DEF NewBundles, EditsAfter, ChangedAfter, PendingAfter
<1> HIDE DEF None
<1>3. At(Reduce(m, e), W, B, closed, d, c, IF state = "awaiting-approval" THEN p ELSE None)
  BY <1>1, <1>2 DEF At
<1> QED
  BY <1>3 DEF e

LEMMA AtDelta ==
    ASSUME NEW W, W \subseteq Turns, NEW m, NEW B, NEW closed, NEW d, NEW c, NEW p,
           At(m, W, B, closed, d, c, p),
           NEW t \in Turns
    PROVE  At(Reduce(m, Event("assistant_delta", t, "")), W, B, FALSE, d, c, p)
<1> DEFINE e == Event("assistant_delta", t, "")
<1>0. e \in Sound(W) /\ e.type = "assistant_delta" /\ e.of = t /\ e.arg = ""
  <2>1. e \in Sound(W)
    BY EventsAreSound, Zenon DEF Complete
  <2>2. e.type = "assistant_delta" /\ e.of = t /\ e.arg = ""
    BY DEF Event, Complete
  <2> QED
    BY <2>1, <2>2
<1> HIDE DEF e
<1>1. At(Reduce(m, e), W, B \cup NewBundles(c, e),
         \/ e.type \in {"assistant_message", "tool_use", "turn_complete"}
         \/ closed /\ e.type # "assistant_delta",
         EditsAfter(d, e), ChangedAfter(d, c, e), PendingAfter(p, e))
  BY <1>0, AtStep, Zenon
<1>2. /\ B \cup NewBundles(c, e) = B
      /\ EditsAfter(d, e) = d /\ ChangedAfter(d, c, e) = c
      /\ PendingAfter(p, e) = p
  BY <1>0 DEF NewBundles, EditsAfter, ChangedAfter, PendingAfter
<1>3. At(Reduce(m, e), W, B, FALSE, d, c, p)
  BY <1>0, <1>1, <1>2 DEF At
<1> QED
  BY <1>3 DEF e

LEMMA AtMessage ==
    ASSUME NEW W, W \subseteq Turns, NEW m, NEW B, NEW closed, NEW d, NEW c, NEW p,
           At(m, W, B, closed, d, c, p),
           NEW t \in Turns
    PROVE  At(Reduce(m, Message(t)), W, B, TRUE, d, c, p)
<1> DEFINE e == Message(t)
<1>0. e \in Sound(W) /\ e.type = "assistant_message" /\ e.of = t /\ e.arg = ""
  <2>1. e \in Sound(W)
    BY EventsAreSound, Zenon DEF Message
  <2>2. e.type = "assistant_message" /\ e.of = t /\ e.arg = ""
    BY DEF Event, Message
  <2> QED
    BY <2>1, <2>2
<1> HIDE DEF e
<1>1. At(Reduce(m, e), W, B \cup NewBundles(c, e),
         \/ e.type \in {"assistant_message", "tool_use", "turn_complete"}
         \/ closed /\ e.type # "assistant_delta",
         EditsAfter(d, e), ChangedAfter(d, c, e), PendingAfter(p, e))
  BY <1>0, AtStep, Zenon
<1>2. /\ B \cup NewBundles(c, e) = B
      /\ EditsAfter(d, e) = d /\ ChangedAfter(d, c, e) = c
      /\ PendingAfter(p, e) = p
  BY <1>0 DEF NewBundles, EditsAfter, ChangedAfter, PendingAfter
<1>3. At(Reduce(m, e), W, B, TRUE, d, c, p)
  BY <1>0, <1>1, <1>2 DEF At
<1> QED
  BY <1>3 DEF e

LEMMA AtToolUse ==
    ASSUME NEW W, W \subseteq Turns, NEW m, NEW B, NEW closed, NEW d, NEW c, NEW p,
           At(m, W, B, closed, d, c, p),
           NEW t \in Turns
    PROVE  At(Reduce(m, Event("tool_use", t, "Write")), W, B, TRUE, (d \cup {t}), c, p)
<1> DEFINE e == Event("tool_use", t, "Write")
<1>0. e \in Sound(W) /\ e.type = "tool_use" /\ e.of = t /\ e.arg = "Write"
  <2>1. e \in Sound(W)
    BY EventsAreSound, Zenon DEF Complete
  <2>2. e.type = "tool_use" /\ e.of = t /\ e.arg = "Write"
    BY DEF Event, Complete
  <2> QED
    BY <2>1, <2>2
<1> HIDE DEF e
<1>1. At(Reduce(m, e), W, B \cup NewBundles(c, e),
         \/ e.type \in {"assistant_message", "tool_use", "turn_complete"}
         \/ closed /\ e.type # "assistant_delta",
         EditsAfter(d, e), ChangedAfter(d, c, e), PendingAfter(p, e))
  BY <1>0, AtStep, Zenon
<1>2. /\ B \cup NewBundles(c, e) = B
      /\ EditsAfter(d, e) = (d \cup {t}) /\ ChangedAfter(d, c, e) = c
      /\ PendingAfter(p, e) = p
  BY <1>0 DEF NewBundles, EditsAfter, ChangedAfter, PendingAfter
<1>3. At(Reduce(m, e), W, B, TRUE, (d \cup {t}), c, p)
  BY <1>0, <1>1, <1>2 DEF At
<1> QED
  BY <1>3 DEF e

LEMMA AtRequest ==
    ASSUME NEW W, W \subseteq Turns, NEW m, NEW B, NEW closed, NEW d, NEW c, NEW p,
           At(m, W, B, closed, d, c, p),
           NEW t \in Turns
    PROVE  At(Reduce(m, Event("permission_request", t, "")), W, B, closed, d, c, t)
<1> DEFINE e == Event("permission_request", t, "")
<1>0. e \in Sound(W) /\ e.type = "permission_request" /\ e.of = t /\ e.arg = ""
  <2>1. e \in Sound(W)
    BY EventsAreSound, Zenon DEF Complete
  <2>2. e.type = "permission_request" /\ e.of = t /\ e.arg = ""
    BY DEF Event, Complete
  <2> QED
    BY <2>1, <2>2
<1> HIDE DEF e
<1>1. At(Reduce(m, e), W, B \cup NewBundles(c, e),
         \/ e.type \in {"assistant_message", "tool_use", "turn_complete"}
         \/ closed /\ e.type # "assistant_delta",
         EditsAfter(d, e), ChangedAfter(d, c, e), PendingAfter(p, e))
  BY <1>0, AtStep, Zenon
<1>2. /\ B \cup NewBundles(c, e) = B
      /\ EditsAfter(d, e) = d /\ ChangedAfter(d, c, e) = c
      /\ PendingAfter(p, e) = t
  BY <1>0 DEF NewBundles, EditsAfter, ChangedAfter, PendingAfter
<1>3. At(Reduce(m, e), W, B, closed, d, c, t)
  BY <1>0, <1>1, <1>2 DEF At
<1> QED
  BY <1>3 DEF e

LEMMA AtFailed ==
    ASSUME NEW W, W \subseteq Turns, NEW m, NEW B, NEW closed, NEW d, NEW c, NEW p,
           At(m, W, B, closed, d, c, p),
           NEW t \in Turns
    PROVE  At(Reduce(m, Event("tool_result", t, "failed")), W, B, closed, (d \ {t}), c, p)
<1> DEFINE e == Event("tool_result", t, "failed")
<1>0. e \in Sound(W) /\ e.type = "tool_result" /\ e.of = t /\ e.arg = "failed"
  <2>1. e \in Sound(W)
    BY EventsAreSound, Zenon DEF Complete
  <2>2. e.type = "tool_result" /\ e.of = t /\ e.arg = "failed"
    BY DEF Event, Complete
  <2> QED
    BY <2>1, <2>2
<1> HIDE DEF e
<1>1. At(Reduce(m, e), W, B \cup NewBundles(c, e),
         \/ e.type \in {"assistant_message", "tool_use", "turn_complete"}
         \/ closed /\ e.type # "assistant_delta",
         EditsAfter(d, e), ChangedAfter(d, c, e), PendingAfter(p, e))
  BY <1>0, AtStep, Zenon
<1>2. /\ B \cup NewBundles(c, e) = B
      /\ EditsAfter(d, e) = (d \ {t}) /\ ChangedAfter(d, c, e) = c
      /\ PendingAfter(p, e) = p
  BY <1>0 DEF NewBundles, EditsAfter, ChangedAfter, PendingAfter
<1>3. At(Reduce(m, e), W, B, closed, (d \ {t}), c, p)
  BY <1>0, <1>1, <1>2 DEF At
<1> QED
  BY <1>3 DEF e

LEMMA AtWritten ==
    ASSUME NEW W, W \subseteq Turns, NEW m, NEW B, NEW closed, NEW d, NEW c, NEW p,
           At(m, W, B, closed, d, c, p),
           NEW t \in Turns, t \in W, t \in d
    PROVE  At(Reduce(m, Event("tool_result", t, "ok")), W, B, closed, (d \ {t}), (c \cup {t}), p)
<1> DEFINE e == Event("tool_result", t, "ok")
<1>0. e \in Sound(W) /\ e.type = "tool_result" /\ e.of = t /\ e.arg = "ok"
  <2>1. e \in Sound(W)
    BY EventsAreSound, Zenon DEF Complete
  <2>2. e.type = "tool_result" /\ e.of = t /\ e.arg = "ok"
    BY DEF Event, Complete
  <2> QED
    BY <2>1, <2>2
<1> HIDE DEF e
<1>1. At(Reduce(m, e), W, B \cup NewBundles(c, e),
         \/ e.type \in {"assistant_message", "tool_use", "turn_complete"}
         \/ closed /\ e.type # "assistant_delta",
         EditsAfter(d, e), ChangedAfter(d, c, e), PendingAfter(p, e))
  BY <1>0, AtStep, Zenon
<1>2. /\ B \cup NewBundles(c, e) = B
      /\ EditsAfter(d, e) = (d \ {t}) /\ ChangedAfter(d, c, e) = (c \cup {t})
      /\ PendingAfter(p, e) = p
  BY <1>0 DEF NewBundles, EditsAfter, ChangedAfter, PendingAfter
<1>3. At(Reduce(m, e), W, B, closed, (d \ {t}), (c \cup {t}), p)
  BY <1>0, <1>1, <1>2 DEF At
<1> QED
  BY <1>3 DEF e

LEMMA AtComplete ==
    ASSUME NEW W, W \subseteq Turns, NEW m, NEW B, NEW closed, NEW d, NEW c, NEW p,
           At(m, W, B, closed, d, c, p),
           NEW t \in Turns, NEW status \in {"ok", "error", "interrupted"}
    PROVE  At(Reduce(m, Complete(t, status)), W, (B \cup (IF status = "ok" /\ c # {} THEN {c} ELSE {})), TRUE, {}, {}, None)
<1> DEFINE e == Complete(t, status)
<1>0. e \in Sound(W) /\ e.type = "turn_complete" /\ e.of = t /\ e.arg = status
  <2>1. e \in Sound(W)
    BY EventsAreSound, Zenon DEF Complete
  <2>2. e.type = "turn_complete" /\ e.of = t /\ e.arg = status
    BY DEF Event, Complete
  <2> QED
    BY <2>1, <2>2
<1> HIDE DEF e
<1>1. At(Reduce(m, e), W, B \cup NewBundles(c, e),
         \/ e.type \in {"assistant_message", "tool_use", "turn_complete"}
         \/ closed /\ e.type # "assistant_delta",
         EditsAfter(d, e), ChangedAfter(d, c, e), PendingAfter(p, e))
  BY <1>0, AtStep, Zenon
<1>2. /\ B \cup NewBundles(c, e) = (B \cup (IF status = "ok" /\ c # {} THEN {c} ELSE {}))
      /\ EditsAfter(d, e) = {} /\ ChangedAfter(d, c, e) = {}
      /\ PendingAfter(p, e) = None
  BY <1>0 DEF NewBundles, EditsAfter, ChangedAfter, PendingAfter
<1>3. At(Reduce(m, e), W, (B \cup (IF status = "ok" /\ c # {} THEN {c} ELSE {})), TRUE, {}, {}, None)
  BY <1>0, <1>1, <1>2 DEF At
<1> QED
  BY <1>3 DEF e

-----------------------------------------------------------------------------
(* The phases of a turn.                                                   *)

LEMMA PhaseForms ==
    ASSUME NEW W, NEW m, NEW t \in Turns
    PROVE  /\ Phase(m, "idle", None, W) <=> At(m, W, Singles(W), TRUE, {}, {}, None)
           /\ Phase(m, "ticking", t, W) <=> At(m, W, Singles(W), FALSE, {}, {}, None)
           /\ Phase(m, "asking", t, W) <=> At(m, W, Singles(W), FALSE, {}, {}, t)
           /\ Phase(m, "writing", t, W) <=> At(m, W, Singles(W), FALSE, {t}, {}, None)
<1>1. t # None
  BY MaxTurnsAssumption DEF Turns, None
<1> QED
  BY <1>1, Zenon DEF Phase, At

LEMMA AtWeaker ==
    ASSUME NEW W, NEW m, NEW B, NEW closed, NEW d, NEW c, NEW p, At(m, W, B, closed, d, c, p)
    PROVE  At(m, W, B, FALSE, d, c, p)
BY DEF At

LEMMA AtGrows ==
    ASSUME NEW W, NEW V, W \subseteq V, NEW m, NEW B, NEW closed, NEW d, NEW c, NEW p,
           At(m, W, B, closed, d, c, p)
    PROVE  At(m, V, B, closed, d, c, p)
BY ModelGrows DEF At

LEMMA SinglesGrow ==
    ASSUME NEW W, NEW t
    PROVE  Singles(W \cup {t}) = Singles(W) \cup {{t}}
BY DEF Singles

LEMMA SystemPhase ==
    ASSUME NEW W, W \subseteq Turns, NEW m, NEW s, NEW t, Phase(m, s, t, W)
    PROVE  Phase(Reduce(m, System), s, t, W)
<1> DEFINE d == IF s = "writing" THEN {t} ELSE {}
           p == IF s = "asking" THEN t ELSE None
<1>1. At(m, W, Singles(W), s = "idle", d, {}, p) /\ (t = None <=> s = "idle")
  BY Zenon DEF Phase, At
<1> HIDE DEF d, p
<1>2. System \in Sound(W) /\ System.type = "system_message"
  BY SessionEventsAreSound DEF System, Event
<1>3. At(Reduce(m, System), W, Singles(W), s = "idle", d, {}, p)
  BY <1>1, <1>2, AtLine
<1> QED
  BY <1>1, <1>3, Zenon DEF Phase, At, d, p

LEMMA BeginPhase ==
    ASSUME NEW W, W \subseteq Turns, NEW m, Phase(m, "idle", None, W), NEW t \in Turns
    PROVE  Phase(Reduce(Reduce(m, Status("thinking")), Event("assistant_delta", t, "")), "ticking", t, W)
<1> DEFINE B == Singles(W)
           m1 == Reduce(m, Status("thinking"))
           m2 == Reduce(m1, Event("assistant_delta", t, ""))
<1>1. At(m, W, B, TRUE, {}, {}, None)
  BY PhaseForms
<1> HIDE DEF B
<1>2. At(m1, W, B, TRUE, {}, {}, None)
  BY <1>1, AtStatus DEF States
<1> HIDE DEF m1
<1>3. At(m2, W, B, FALSE, {}, {}, None)
  BY <1>2, AtDelta
<1> HIDE DEF m2
<1>4. Phase(m2, "ticking", t, W)
  BY <1>3, PhaseForms DEF B
<1> QED
  BY <1>4 DEF m1, m2

\* A turn that is interrupted, before it asks or while it does.
LEMMA InterruptPhase ==
    ASSUME NEW W, W \subseteq Turns, NEW m, NEW t \in Turns, Phase(m, "ticking", t, W) \/ Phase(m, "asking", t, W)
    PROVE  Phase(Reduce(Reduce(m, Complete(t, "interrupted")), Status("idle")), "idle", None, W)
<1> DEFINE B == Singles(W)
           m1 == Reduce(m, Complete(t, "interrupted"))
           m2 == Reduce(m1, Status("idle"))
<1>1. PICK p : At(m, W, B, FALSE, {}, {}, p)
  BY PhaseForms
<1> HIDE DEF B
<1>2. At(m1, W, B, TRUE, {}, {}, None)
  <2>1. At(m1, W, B \cup (IF "interrupted" = "ok" /\ {} # {} THEN {{}} ELSE {}), TRUE, {}, {}, None)
    BY <1>1, AtComplete
  <2>2. B \cup (IF "interrupted" = "ok" /\ {} # {} THEN {{}} ELSE {}) = B
    OBVIOUS
  <2> HIDE DEF m1
  <2> QED
    BY <2>1, <2>2
<1> HIDE DEF m1
<1>3. At(m2, W, B, TRUE, {}, {}, None)
  BY <1>2, AtStatus DEF States
<1> HIDE DEF m2
<1>4. Phase(m2, "idle", None, W)
  BY <1>3, PhaseForms DEF B
<1> QED
  BY <1>4 DEF m1, m2

\* A turn that echoes the message.
LEMMA AnswerPhase ==
    ASSUME NEW W, W \subseteq Turns, NEW m, NEW t \in Turns, Phase(m, "ticking", t, W)
    PROVE  Phase(Reduce(Reduce(Reduce(m, Message(t)), Complete(t, "ok")), Status("idle")), "idle", None, W)
<1> DEFINE B == Singles(W)
           m1 == Reduce(m, Message(t))
           m2 == Reduce(m1, Complete(t, "ok"))
           m3 == Reduce(m2, Status("idle"))
<1>1. At(m, W, B, FALSE, {}, {}, None)
  BY PhaseForms
<1> HIDE DEF B
<1>2. At(m1, W, B, TRUE, {}, {}, None)
  BY <1>1, AtMessage
<1> HIDE DEF m1
<1>3. At(m2, W, B, TRUE, {}, {}, None)
  <2>1. At(m2, W, B \cup (IF "ok" = "ok" /\ {} # {} THEN {{}} ELSE {}), TRUE, {}, {}, None)
    BY <1>2, AtComplete
  <2>2. B \cup (IF "ok" = "ok" /\ {} # {} THEN {{}} ELSE {}) = B
    OBVIOUS
  <2> HIDE DEF m2
  <2> QED
    BY <2>1, <2>2
<1> HIDE DEF m2
<1>4. At(m3, W, B, TRUE, {}, {}, None)
  BY <1>3, AtStatus DEF States
<1> HIDE DEF m3
<1>5. Phase(m3, "idle", None, W)
  BY <1>4, PhaseForms DEF B
<1> QED
  BY <1>5 DEF m1, m2, m3

\* A turn that asks for permission.
LEMMA AskPhase ==
    ASSUME NEW W, W \subseteq Turns, NEW m, NEW t \in Turns, Phase(m, "ticking", t, W)
    PROVE  Phase(Reduce(Reduce(m, Status("awaiting-approval")), Event("permission_request", t, "")),
                 "asking", t, W)
<1> DEFINE B == Singles(W)
           m1 == Reduce(m, Status("awaiting-approval"))
           m2 == Reduce(m1, Event("permission_request", t, ""))
<1>1. At(m, W, B, FALSE, {}, {}, None)
  BY PhaseForms
<1> HIDE DEF B
<1>2. At(m1, W, B, FALSE, {}, {}, None)
  BY <1>1, AtStatus DEF States
<1> HIDE DEF m1
<1>3. At(m2, W, B, FALSE, {}, {}, t)
  BY <1>2, AtRequest
<1> HIDE DEF m2
<1>4. Phase(m2, "asking", t, W)
  BY <1>3, PhaseForms DEF B
<1> QED
  BY <1>4 DEF m1, m2

\* A turn that is allowed to write, at once or by an answer.
LEMMA RunPhase ==
    ASSUME NEW W, W \subseteq Turns, NEW m, NEW t \in Turns, Phase(m, "ticking", t, W) \/ Phase(m, "asking", t, W)
    PROVE  Phase(Reduce(Reduce(m, Status("tool-running")), Event("tool_use", t, "Write")), "writing", t, W)
<1> DEFINE B == Singles(W)
           m1 == Reduce(m, Status("tool-running"))
           m2 == Reduce(m1, Event("tool_use", t, "Write"))
<1>1. PICK p : At(m, W, B, FALSE, {}, {}, p)
  BY PhaseForms
<1> HIDE DEF B
<1>2. At(m1, W, B, FALSE, {}, {}, None)
  BY <1>1, AtStatus DEF States
<1> HIDE DEF m1
<1>3. At(m2, W, B, FALSE, {t}, {}, None)
  <2>1. At(m2, W, B, TRUE, {} \cup {t}, {}, None)
    BY <1>2, AtToolUse
  <2>2. {} \cup {t} = {t}
    OBVIOUS
  <2> HIDE DEF m2
  <2> QED
    BY <2>1, <2>2, AtWeaker
<1> HIDE DEF m2
<1>4. Phase(m2, "writing", t, W)
  BY <1>3, PhaseForms DEF B
<1> QED
  BY <1>4 DEF m1, m2

\* A turn that is not allowed to write.
LEMMA DenyPhase ==
    ASSUME NEW W, W \subseteq Turns, NEW m, NEW t \in Turns, Phase(m, "asking", t, W)
    PROVE  Phase(Reduce(Reduce(Reduce(Reduce(m, Event("tool_result", t, "failed")), Message(t)),
                               Complete(t, "ok")), Status("idle")), "idle", None, W)
<1> DEFINE B == Singles(W)
           m1 == Reduce(m, Event("tool_result", t, "failed"))
           m2 == Reduce(m1, Message(t))
           m3 == Reduce(m2, Complete(t, "ok"))
           m4 == Reduce(m3, Status("idle"))
<1>1. At(m, W, B, FALSE, {}, {}, t)
  BY PhaseForms
<1> HIDE DEF B
<1>2. At(m1, W, B, FALSE, {}, {}, t)
  <2>1. At(m1, W, B, FALSE, {} \ {t}, {}, t)
    BY <1>1, AtFailed
  <2>2. {} \ {t} = {}
    OBVIOUS
  <2> HIDE DEF m1
  <2> QED
    BY <2>1, <2>2
<1> HIDE DEF m1
<1>3. At(m2, W, B, TRUE, {}, {}, t)
  BY <1>2, AtMessage
<1> HIDE DEF m2
<1>4. At(m3, W, B, TRUE, {}, {}, None)
  <2>1. At(m3, W, B \cup (IF "ok" = "ok" /\ {} # {} THEN {{}} ELSE {}), TRUE, {}, {}, None)
    BY <1>3, AtComplete
  <2>2. B \cup (IF "ok" = "ok" /\ {} # {} THEN {{}} ELSE {}) = B
    OBVIOUS
  <2> HIDE DEF m3
  <2> QED
    BY <2>1, <2>2
<1> HIDE DEF m3
<1>5. At(m4, W, B, TRUE, {}, {}, None)
  BY <1>4, AtStatus DEF States
<1> HIDE DEF m4
<1>6. Phase(m4, "idle", None, W)
  BY <1>5, PhaseForms DEF B
<1> QED
  BY <1>6 DEF m1, m2, m3, m4

\* A turn whose file is written: the bundle is that file.
LEMMA WrittenPhase ==
    ASSUME NEW W, W \subseteq Turns, NEW m, NEW t \in Turns, Phase(m, "writing", t, W)
    PROVE  Phase(Reduce(Reduce(Reduce(Reduce(Reduce(m, Event("tool_stream", t, "")),
                                             Event("tool_result", t, "ok")), Message(t)),
                               Complete(t, "ok")), Status("idle")), "idle", None, W \cup {t})
<1> DEFINE B == Singles(W)
           V == W \cup {t}
           m1 == Reduce(m, Event("tool_stream", t, ""))
           m2 == Reduce(m1, Event("tool_result", t, "ok"))
           m3 == Reduce(m2, Message(t))
           m4 == Reduce(m3, Complete(t, "ok"))
           m5 == Reduce(m4, Status("idle"))
<1>0. W \subseteq V /\ V \subseteq Turns /\ t \in V /\ Singles(V) = B \cup {{t}}
  BY SinglesGrow
<1>1. At(m, W, B, FALSE, {t}, {}, None)
  BY PhaseForms
<1> HIDE DEF B, V
<1>2. At(m, V, B, FALSE, {t}, {}, None)
  BY <1>0, <1>1, AtGrows
<1>3. At(m1, V, B, FALSE, {t}, {}, None)
  <2>1. Event("tool_stream", t, "") \in Sound(V)
    BY EventsAreSound
  <2>2. Event("tool_stream", t, "").type = "tool_stream"
    BY DEF Event
  <2> QED
    BY <1>0, <1>2, <2>1, <2>2, AtLine
<1> HIDE DEF m1
<1>4. At(m2, V, B, FALSE, {}, {t}, None)
  <2>1. At(m2, V, B, FALSE, {t} \ {t}, {} \cup {t}, None)
    <3>1. t \in {t}
      OBVIOUS
    <3> QED
      BY <1>0, <1>3, <3>1, AtWritten
  <2>2. {t} \ {t} = {} /\ {} \cup {t} = {t}
    OBVIOUS
  <2> HIDE DEF m2
  <2> QED
    BY <2>1, <2>2
<1> HIDE DEF m2
<1>5. At(m3, V, B, TRUE, {}, {t}, None)
  BY <1>0, <1>4, AtMessage
<1> HIDE DEF m3
<1>6. At(m4, V, B \cup {{t}}, TRUE, {}, {}, None)
  <2>1. At(m4, V, B \cup (IF "ok" = "ok" /\ {t} # {} THEN {{t}} ELSE {}), TRUE, {}, {}, None)
    BY <1>0, <1>5, AtComplete
  <2>2. B \cup (IF "ok" = "ok" /\ {t} # {} THEN {{t}} ELSE {}) = B \cup {{t}}
    OBVIOUS
  <2> HIDE DEF m4
  <2> QED
    BY <2>1, <2>2
<1> HIDE DEF m4
<1>7. At(m5, V, B \cup {{t}}, TRUE, {}, {}, None)
  BY <1>0, <1>6, AtStatus DEF States
<1> HIDE DEF m5
<1>8. Phase(m5, "idle", None, V)
  BY <1>0, <1>7, PhaseForms
<1> QED
  BY <1>8 DEF m1, m2, m3, m4, m5, V

\* A turn whose file cannot be written.
LEMMA FailedPhase ==
    ASSUME NEW W, W \subseteq Turns, NEW m, NEW t \in Turns, Phase(m, "writing", t, W)
    PROVE  Phase(Reduce(Reduce(Reduce(Reduce(m, Event("tool_result", t, "failed")), Event("error", t, "")),
                               Complete(t, "error")), Status("idle")), "idle", None, W)
<1> DEFINE B == Singles(W)
           m1 == Reduce(m, Event("tool_result", t, "failed"))
           m2 == Reduce(m1, Event("error", t, ""))
           m3 == Reduce(m2, Complete(t, "error"))
           m4 == Reduce(m3, Status("idle"))
<1>1. At(m, W, B, FALSE, {t}, {}, None)
  BY PhaseForms
<1> HIDE DEF B
<1>2. At(m1, W, B, FALSE, {}, {}, None)
  <2>1. At(m1, W, B, FALSE, {t} \ {t}, {}, None)
    BY <1>1, AtFailed
  <2>2. {t} \ {t} = {}
    OBVIOUS
  <2> HIDE DEF m1
  <2> QED
    BY <2>1, <2>2
<1> HIDE DEF m1
<1>3. At(m2, W, B, FALSE, {}, {}, None)
  <2>1. Event("error", t, "") \in Sound(W)
    BY EventsAreSound
  <2>2. Event("error", t, "").type = "error"
    BY DEF Event
  <2> QED
    BY <1>2, <2>1, <2>2, AtLine
<1> HIDE DEF m2
<1>4. At(m3, W, B, TRUE, {}, {}, None)
  <2>1. At(m3, W, B \cup (IF "error" = "ok" /\ {} # {} THEN {{}} ELSE {}), TRUE, {}, {}, None)
    BY <1>3, AtComplete
  <2>2. B \cup (IF "error" = "ok" /\ {} # {} THEN {{}} ELSE {}) = B
    OBVIOUS
  <2> HIDE DEF m3
  <2> QED
    BY <2>1, <2>2
<1> HIDE DEF m3
<1>5. At(m4, W, B, TRUE, {}, {}, None)
  BY <1>4, AtStatus DEF States
<1> HIDE DEF m4
<1>6. Phase(m4, "idle", None, W)
  BY <1>5, PhaseForms DEF B
<1> QED
  BY <1>6 DEF m1, m2, m3, m4

-----------------------------------------------------------------------------
(* Short sequences.                                                        *)

LEMMA ConcatIs ==
    ASSUME NEW S, NEW s \in Seq(S), NEW t \in Seq(S), NEW r \in Seq(S), Len(r) = Len(s) + Len(t),
           \A i \in 1..Len(s) : r[i] = s[i], \A i \in 1..Len(t) : r[Len(s) + i] = t[i]
    PROVE  s \o t = r
<1>1. /\ s \o t \in Seq(S) /\ Len(s \o t) = Len(s) + Len(t)
      /\ \A i \in 1..Len(s) + Len(t) : (s \o t)[i] = IF i <= Len(s) THEN s[i] ELSE t[i - Len(s)]
  BY ConcatProperties
<1>2. ASSUME NEW i \in 1..Len(r) PROVE (s \o t)[i] = r[i]
  <2>1. CASE i <= Len(s)
    BY <1>1, <2>1
  <2>2. CASE i > Len(s)
    <3>1. i - Len(s) \in 1..Len(t) /\ Len(s) + (i - Len(s)) = i
      BY <2>2
    <3> QED
      BY <1>1, <2>2, <3>1
  <2> QED
    BY <2>1, <2>2
<1> QED
  BY <1>1, <1>2, SeqEqual

LEMMA Concat11 ==
    ASSUME NEW S, NEW a \in S, NEW b \in S
    PROVE  <<a>> \o <<b>> = <<a, b>>
<1> DEFINE s == <<a>>
           t == <<b>>
           r == <<a, b>>
<1>1. /\ s \in Seq(S) /\ t \in Seq(S) /\ r \in Seq(S)
      /\ Len(s) = 1 /\ Len(t) = 1 /\ Len(r) = 2
      /\ \A i \in 1..1 : r[i] = s[i]
      /\ \A i \in 1..1 : r[1 + i] = t[i]
  OBVIOUS
<1> HIDE DEF s, t, r
<1>2. Len(r) = Len(s) + Len(t) /\ (\A i \in 1..Len(s) : r[i] = s[i]) /\ \A i \in 1..Len(t) : r[Len(s) + i] = t[i]
  BY <1>1
<1>3. s \o t = r
  BY <1>1, <1>2, ConcatIs
<1> QED
  BY <1>3 DEF s, t, r

LEMMA Concat12 ==
    ASSUME NEW S, NEW a \in S, NEW b \in S, NEW c \in S
    PROVE  <<a>> \o <<b, c>> = <<a, b, c>>
<1> DEFINE s == <<a>>
           t == <<b, c>>
           r == <<a, b, c>>
<1>1. /\ s \in Seq(S) /\ t \in Seq(S) /\ r \in Seq(S)
      /\ Len(s) = 1 /\ Len(t) = 2 /\ Len(r) = 3
      /\ \A i \in 1..1 : r[i] = s[i]
      /\ \A i \in 1..2 : r[1 + i] = t[i]
  OBVIOUS
<1> HIDE DEF s, t, r
<1>2. Len(r) = Len(s) + Len(t) /\ (\A i \in 1..Len(s) : r[i] = s[i]) /\ \A i \in 1..Len(t) : r[Len(s) + i] = t[i]
  BY <1>1
<1>3. s \o t = r
  BY <1>1, <1>2, ConcatIs
<1> QED
  BY <1>3 DEF s, t, r

LEMMA Concat21 ==
    ASSUME NEW S, NEW a \in S, NEW b \in S, NEW c \in S
    PROVE  <<a, b>> \o <<c>> = <<a, b, c>>
<1> DEFINE s == <<a, b>>
           t == <<c>>
           r == <<a, b, c>>
<1>1. /\ s \in Seq(S) /\ t \in Seq(S) /\ r \in Seq(S)
      /\ Len(s) = 2 /\ Len(t) = 1 /\ Len(r) = 3
      /\ \A i \in 1..2 : r[i] = s[i]
      /\ \A i \in 1..1 : r[2 + i] = t[i]
  OBVIOUS
<1> HIDE DEF s, t, r
<1>2. Len(r) = Len(s) + Len(t) /\ (\A i \in 1..Len(s) : r[i] = s[i]) /\ \A i \in 1..Len(t) : r[Len(s) + i] = t[i]
  BY <1>1
<1>3. s \o t = r
  BY <1>1, <1>2, ConcatIs
<1> QED
  BY <1>3 DEF s, t, r

LEMMA Concat22 ==
    ASSUME NEW S, NEW a \in S, NEW b \in S, NEW c \in S, NEW d \in S
    PROVE  <<a, b>> \o <<c, d>> = <<a, b, c, d>>
<1> DEFINE s == <<a, b>>
           t == <<c, d>>
           r == <<a, b, c, d>>
<1>1. /\ s \in Seq(S) /\ t \in Seq(S) /\ r \in Seq(S)
      /\ Len(s) = 2 /\ Len(t) = 2 /\ Len(r) = 4
      /\ \A i \in 1..2 : r[i] = s[i]
      /\ \A i \in 1..2 : r[2 + i] = t[i]
  OBVIOUS
<1> HIDE DEF s, t, r
<1>2. Len(r) = Len(s) + Len(t) /\ (\A i \in 1..Len(s) : r[i] = s[i]) /\ \A i \in 1..Len(t) : r[Len(s) + i] = t[i]
  BY <1>1
<1>3. s \o t = r
  BY <1>1, <1>2, ConcatIs
<1> QED
  BY <1>3 DEF s, t, r

LEMMA Concat32 ==
    ASSUME NEW S, NEW a \in S, NEW b \in S, NEW c \in S, NEW d \in S, NEW e \in S
    PROVE  <<a, b, c>> \o <<d, e>> = <<a, b, c, d, e>>
<1> DEFINE s == <<a, b, c>>
           t == <<d, e>>
           r == <<a, b, c, d, e>>
<1>1. /\ s \in Seq(S) /\ t \in Seq(S) /\ r \in Seq(S)
      /\ Len(s) = 3 /\ Len(t) = 2 /\ Len(r) = 5
      /\ \A i \in 1..3 : r[i] = s[i]
      /\ \A i \in 1..2 : r[3 + i] = t[i]
  OBVIOUS
<1> HIDE DEF s, t, r
<1>2. Len(r) = Len(s) + Len(t) /\ (\A i \in 1..Len(s) : r[i] = s[i]) /\ \A i \in 1..Len(t) : r[Len(s) + i] = t[i]
  BY <1>1
<1>3. s \o t = r
  BY <1>1, <1>2, ConcatIs
<1> QED
  BY <1>3 DEF s, t, r

LEMMA Concat14 ==
    ASSUME NEW S, NEW a \in S, NEW b \in S, NEW c \in S, NEW d \in S, NEW e \in S
    PROVE  <<a>> \o <<b, c, d, e>> = <<a, b, c, d, e>>
<1> DEFINE s == <<a>>
           t == <<b, c, d, e>>
           r == <<a, b, c, d, e>>
<1>1. /\ s \in Seq(S) /\ t \in Seq(S) /\ r \in Seq(S)
      /\ Len(s) = 1 /\ Len(t) = 4 /\ Len(r) = 5
      /\ \A i \in 1..1 : r[i] = s[i]
      /\ \A i \in 1..4 : r[1 + i] = t[i]
  OBVIOUS
<1> HIDE DEF s, t, r
<1>2. Len(r) = Len(s) + Len(t) /\ (\A i \in 1..Len(s) : r[i] = s[i]) /\ \A i \in 1..Len(t) : r[Len(s) + i] = t[i]
  BY <1>1
<1>3. s \o t = r
  BY <1>1, <1>2, ConcatIs
<1> QED
  BY <1>3 DEF s, t, r
-----------------------------------------------------------------------------
(* What the Session pushes for the events of the engine.                   *)

IsFlattening(f, ss) == f = [i \in 1..Len(ss) |-> IF i = 1 THEN ss[i] ELSE f[i - 1] \o ss[i]]

LEMMA FlatteningExists ==
    ASSUME NEW ss, Len(ss) \in 1..4
    PROVE  \E f : IsFlattening(f, ss)
<1> DEFINE two == ss[1] \o ss[2]
           three == two \o ss[3]
           four == three \o ss[4]
           g == [i \in 1..Len(ss) |->
                   IF i = 1 THEN ss[1] ELSE IF i = 2 THEN two ELSE IF i = 3 THEN three ELSE four]
<1>1. ASSUME NEW i \in 1..Len(ss) PROVE g[i] = IF i = 1 THEN ss[i] ELSE g[i - 1] \o ss[i]
  <2>1. CASE i = 1
    BY <2>1
  <2>2. CASE i = 2
    <3>1. g[i] = two /\ i - 1 \in 1..Len(ss) /\ g[i - 1] = ss[1] /\ ss[i] = ss[2] /\ i # 1
      <4> HIDE DEF two, three, four
      <4> QED
        BY <2>2
    <3> QED
      BY <3>1, Zenon
  <2>3. CASE i = 3
    <3>1. g[i] = three /\ i - 1 \in 1..Len(ss) /\ g[i - 1] = two /\ ss[i] = ss[3] /\ i # 1
      <4> HIDE DEF two, three, four
      <4> QED
        BY <2>3
    <3> QED
      BY <3>1, Zenon
  <2>4. CASE i = 4
    <3>1. g[i] = four /\ i - 1 \in 1..Len(ss) /\ g[i - 1] = three /\ ss[i] = ss[4] /\ i # 1
      <4> HIDE DEF two, three, four
      <4> QED
        BY <2>4
    <3> QED
      BY <3>1, Zenon
  <2>5. i \in {1, 2, 3, 4}
    <3> DEFINE n == Len(ss)
    <3>1. n \in 1..4 /\ i \in 1..n
      OBVIOUS
    <3> HIDE DEF n, g
    <3> QED
      BY <3>1
  <2> QED
    BY <2>1, <2>2, <2>3, <2>4, <2>5, Zenon
<1>2. g = [i \in 1..Len(ss) |-> g[i]]
  <2> HIDE DEF two, three, four
  <2> QED
    OBVIOUS
<1> HIDE DEF g
<1>3. IsFlattening(g, ss)
  BY <1>1, <1>2, Zenon DEF IsFlattening
<1> QED
  BY <1>3, Zenon

LEMMA FlattenIs ==
    ASSUME NEW ss, Len(ss) \in 1..4
    PROVE  \E f : IsFlattening(f, ss) /\ FlattenSeq(ss) = f[Len(ss)]
<1> DEFINE f == CHOOSE f : IsFlattening(f, ss)
<1>1. IsFlattening(f, ss)
  BY FlatteningExists, Zenon
<1>2. Len(ss) # 0
  OBVIOUS
<1>3. FlattenSeq(ss) = f[Len(ss)]
  BY <1>2, Zenon DEF FlattenSeq, IsFlattening
<1> QED
  BY <1>1, <1>3, Zenon

LEMMA Flatten ==
    ASSUME NEW ss
    PROVE  /\ Len(ss) = 0 => FlattenSeq(ss) = ss
           /\ Len(ss) = 1 => FlattenSeq(ss) = ss[1]
           /\ Len(ss) = 2 => FlattenSeq(ss) = ss[1] \o ss[2]
           /\ Len(ss) = 3 => FlattenSeq(ss) = (ss[1] \o ss[2]) \o ss[3]
           /\ Len(ss) = 4 => FlattenSeq(ss) = ((ss[1] \o ss[2]) \o ss[3]) \o ss[4]
<1>0. Len(ss) = 0 => FlattenSeq(ss) = ss
  BY Zenon DEF FlattenSeq
<1>1. SUFFICES ASSUME Len(ss) \in 1..4
               PROVE  /\ Len(ss) = 1 => FlattenSeq(ss) = ss[1]
                      /\ Len(ss) = 2 => FlattenSeq(ss) = ss[1] \o ss[2]
                      /\ Len(ss) = 3 => FlattenSeq(ss) = (ss[1] \o ss[2]) \o ss[3]
                      /\ Len(ss) = 4 => FlattenSeq(ss) = ((ss[1] \o ss[2]) \o ss[3]) \o ss[4]
  <2>1. \A n \in 1..4 : n = Len(ss) => Len(ss) \in 1..4
    OBVIOUS
  <2>2. 1 \in 1..4 /\ 2 \in 1..4 /\ 3 \in 1..4 /\ 4 \in 1..4
    OBVIOUS
  <2> QED
    BY <1>0, <2>1, <2>2, Zenon
<1>2. PICK f : IsFlattening(f, ss) /\ FlattenSeq(ss) = f[Len(ss)]
  BY <1>1, FlattenIs
<1>9. \A i \in 1..Len(ss) : f[i] = IF i = 1 THEN ss[i] ELSE f[i - 1] \o ss[i]
  BY <1>2, Zenon DEF IsFlattening
<1>3. f[1] = ss[1]
  <2>1. 1 \in 1..Len(ss)
    BY <1>1
  <2> QED
    BY <1>9, <2>1, Zenon
<1>5. Len(ss) >= 2 => f[2] = f[1] \o ss[2]
  <2>1. Len(ss) >= 2 => 2 \in 1..Len(ss) /\ 2 - 1 = 1 /\ 2 # 1
    BY <1>1
  <2> QED
    BY <1>9, <2>1, Zenon
<1>6. Len(ss) >= 3 => f[3] = f[2] \o ss[3]
  <2>1. Len(ss) >= 3 => 3 \in 1..Len(ss) /\ 3 - 1 = 2 /\ 3 # 1
    BY <1>1
  <2> QED
    BY <1>9, <2>1, Zenon
<1>7. Len(ss) = 4 => f[4] = f[3] \o ss[4]
  <2>1. Len(ss) = 4 => 4 \in 1..Len(ss) /\ 4 - 1 = 3 /\ 4 # 1
    BY <1>1
  <2> QED
    BY <1>9, <2>1, Zenon
<1>8. /\ Len(ss) = 2 => Len(ss) >= 2
      /\ Len(ss) = 3 => Len(ss) >= 2 /\ Len(ss) >= 3
      /\ Len(ss) = 4 => Len(ss) >= 2 /\ Len(ss) >= 3
  BY <1>1
<1> QED
  BY <1>2, <1>3, <1>5, <1>6, <1>7, <1>8, Zenon

LEMMA ForwardAll0 == ForwardAll(<<>>) = <<>>
<1> DEFINE ss == [i \in DOMAIN <<>> |-> Forward(<<>>[i])]
<1>1. Len(ss) = 0 /\ ss = <<>>
  OBVIOUS
<1> HIDE DEF ss
<1>2. FlattenSeq(ss) = ss
  BY <1>1, Flatten, Zenon
<1> QED
  BY <1>1, <1>2, Zenon DEF ForwardAll, ss

LEMMA ForwardAll1 ==
    ASSUME NEW a
    PROVE  ForwardAll(<<a>>) = Forward(a)
<1> DEFINE events == <<a>>
           ss == [i \in DOMAIN events |-> Forward(events[i])]
<1> HIDE DEF Forward
<1>1. Len(ss) = 1 /\ ss[1] = Forward(a)
  OBVIOUS
<1>2. ForwardAll(events) = FlattenSeq(ss)
  BY Zenon DEF ForwardAll
<1> HIDE DEF ss, events
<1>3. FlattenSeq(ss) = Forward(a)
  BY <1>1, Flatten, Zenon
<1>4. ForwardAll(events) = Forward(a)
  BY <1>2, <1>3, Zenon
<1> QED
  BY <1>4 DEF events

LEMMA ForwardAll2 ==
    ASSUME NEW a, NEW b
    PROVE  ForwardAll(<<a, b>>) = Forward(a) \o Forward(b)
<1> DEFINE events == <<a, b>>
           ss == [i \in DOMAIN events |-> Forward(events[i])]
<1> HIDE DEF Forward
<1>1. Len(ss) = 2 /\ ss[1] = Forward(a) /\ ss[2] = Forward(b)
  OBVIOUS
<1>2. ForwardAll(events) = FlattenSeq(ss)
  BY Zenon DEF ForwardAll
<1> HIDE DEF ss, events
<1>3. FlattenSeq(ss) = Forward(a) \o Forward(b)
  BY <1>1, Flatten, Zenon
<1>4. ForwardAll(events) = Forward(a) \o Forward(b)
  BY <1>2, <1>3, Zenon
<1> QED
  BY <1>4 DEF events

\* Events that the Session passes on, the last of which ends the turn.
LEMMA ForwardEnd2 ==
    ASSUME NEW S, NEW a \in S, NEW c \in S, NEW d \in S, Forward(a) = <<a>>, Forward(c) = <<c, d>>
    PROVE  ForwardAll(<<a, c>>) = <<a, c, d>>
<1>1. ForwardAll(<<a, c>>) = Forward(a) \o Forward(c)
  BY ForwardAll2
<1>2. <<a>> \o <<c, d>> = <<a, c, d>>
  BY Concat12
<1> QED
  BY <1>1, <1>2, Zenon

LEMMA ForwardEnd3 ==
    ASSUME NEW S, NEW a \in S, NEW b \in S, NEW c \in S, NEW d \in S,
           Forward(a) = <<a>>, Forward(b) = <<b>>, Forward(c) = <<c, d>>
    PROVE  ForwardAll(<<a, b, c>>) = <<a, b, c, d>>
<1> DEFINE x == <<a, b>>
<1>1. x = Forward(a) \o Forward(b)
  BY Concat11
<1>2. x \o <<c, d>> = <<a, b, c, d>>
  BY Concat22
<1> HIDE DEF x
<1> DEFINE events == <<a, b, c>>
           ss == [i \in DOMAIN events |-> Forward(events[i])]
<1>3. Len(ss) = 3 /\ ss[1] = Forward(a) /\ ss[2] = Forward(b) /\ ss[3] = Forward(c)
  OBVIOUS
<1>4. ForwardAll(events) = FlattenSeq(ss)
  BY Zenon DEF ForwardAll
<1> HIDE DEF ss, events
<1>5. FlattenSeq(ss) = (ss[1] \o ss[2]) \o ss[3]
  BY <1>3, Flatten, Zenon
<1>6. ForwardAll(events) = <<a, b, c, d>>
  BY <1>1, <1>2, <1>3, <1>4, <1>5, Zenon
<1> QED
  BY <1>6 DEF events

LEMMA ForwardEnd4 ==
    ASSUME NEW S, NEW a \in S, NEW b \in S, NEW c \in S, NEW d \in S, NEW e \in S,
           Forward(a) = <<a>>, Forward(b) = <<b>>, Forward(c) = <<c>>, Forward(d) = <<d, e>>
    PROVE  ForwardAll(<<a, b, c, d>>) = <<a, b, c, d, e>>
<1> DEFINE x == <<a, b>>
           y == <<a, b, c>>
<1>1. x = Forward(a) \o Forward(b)
  BY Concat11
<1>2. y = x \o Forward(c)
  BY Concat21
<1>3. y \o <<d, e>> = <<a, b, c, d, e>>
  BY Concat32
<1> HIDE DEF x, y
<1> DEFINE events == <<a, b, c, d>>
           ss == [i \in DOMAIN events |-> Forward(events[i])]
<1>4. Len(ss) = 4 /\ ss[1] = Forward(a) /\ ss[2] = Forward(b) /\ ss[3] = Forward(c) /\ ss[4] = Forward(d)
  OBVIOUS
<1>5. ForwardAll(events) = FlattenSeq(ss)
  BY Zenon DEF ForwardAll
<1> HIDE DEF ss, events
<1>6. FlattenSeq(ss) = ((ss[1] \o ss[2]) \o ss[3]) \o ss[4]
  BY <1>4, Flatten, Zenon
<1>7. ForwardAll(events) = <<a, b, c, d, e>>
  BY <1>1, <1>2, <1>3, <1>4, <1>5, <1>6, Zenon
<1> QED
  BY <1>7 DEF events

LEMMA ForwardOf ==
    ASSUME NEW t, NEW status
    PROVE  /\ Forward(Event("assistant_delta", t, "")) = <<Event("assistant_delta", t, "")>>
           /\ Forward(Message(t)) = <<Message(t)>>
           /\ Forward(Event("tool_stream", t, "")) = <<Event("tool_stream", t, "")>>
           /\ Forward(Event("error", t, "")) = <<Event("error", t, "")>>
           /\ Forward(Event("tool_result", t, status)) = <<Event("tool_result", t, status)>>
           /\ Forward(Event("tool_use", t, "Write")) = <<Status("tool-running"), Event("tool_use", t, "Write")>>
           /\ Forward(Complete(t, status)) = <<Complete(t, status), Status("idle")>>
<1>1. \A e : e.type \notin {"tool_use", "turn_complete"} => Forward(e) = <<e>>
  BY DEF Forward
<1>2. \A e : /\ e.type = "tool_use" => Forward(e) = <<Status("tool-running"), e>>
             /\ e.type = "turn_complete" => Forward(e) = <<e, Status("idle")>>
  BY DEF Forward
<1>3. /\ Event("assistant_delta", t, "").type \notin {"tool_use", "turn_complete"}
      /\ Message(t).type \notin {"tool_use", "turn_complete"}
      /\ Event("tool_stream", t, "").type \notin {"tool_use", "turn_complete"}
      /\ Event("error", t, "").type \notin {"tool_use", "turn_complete"}
      /\ Event("tool_result", t, status).type \notin {"tool_use", "turn_complete"}
      /\ Event("tool_use", t, "Write").type = "tool_use"
      /\ Complete(t, status).type = "turn_complete"
  BY DEF Event, Message, Complete
<1> QED
  BY <1>1, <1>2, <1>3, Zenon

\* What each step of the engine makes the Session push.
LEMMA PushedDeny ==
    ASSUME NEW t \in Turns
    PROVE  ForwardAll(SettleEmits(t, "deny")) =
             <<Event("tool_result", t, "failed"), Message(t), Complete(t, "ok"), Status("idle")>>
<1> DEFINE a == Event("tool_result", t, "failed")
           b == Message(t)
           c == Complete(t, "ok")
           d == Status("idle")
<1>1. a \in Sound(Turns) /\ b \in Sound(Turns) /\ c \in Sound(Turns) /\ d \in Sound(Turns)
  BY EventsAreSound, SessionEventsAreSound, Zenon DEF Message, Complete, States
<1>2. Forward(a) = <<a>> /\ Forward(b) = <<b>> /\ Forward(c) = <<c, d>>
  BY ForwardOf, Zenon
<1>3. SettleEmits(t, "deny") = <<a, b, c>>
  BY DEF SettleEmits
<1> HIDE DEF a, b, c, d
<1>4. ForwardAll(<<a, b, c>>) = <<a, b, c, d>>
  BY <1>1, <1>2, ForwardEnd3
<1> QED
  BY <1>3, <1>4, Zenon DEF a, b, c, d

LEMMA PushedWritten ==
    ASSUME NEW t \in Turns
    PROVE  ForwardAll(FinishWriteEmits(t, TRUE)) =
             <<Event("tool_stream", t, ""), Event("tool_result", t, "ok"), Message(t), Complete(t, "ok"),
               Status("idle")>>
<1> DEFINE a == Event("tool_stream", t, "")
           b == Event("tool_result", t, "ok")
           c == Message(t)
           d == Complete(t, "ok")
           e == Status("idle")
<1>1. a \in Sound(Turns) /\ b \in Sound(Turns) /\ c \in Sound(Turns) /\ d \in Sound(Turns) /\ e \in Sound(Turns)
  BY EventsAreSound, SessionEventsAreSound, Zenon DEF Message, Complete, States
<1>2. Forward(a) = <<a>> /\ Forward(b) = <<b>> /\ Forward(c) = <<c>> /\ Forward(d) = <<d, e>>
  BY ForwardOf, Zenon
<1>3. FinishWriteEmits(t, TRUE) = <<a, b, c, d>>
  BY DEF FinishWriteEmits
<1> HIDE DEF a, b, c, d, e
<1>4. ForwardAll(<<a, b, c, d>>) = <<a, b, c, d, e>>
  BY <1>1, <1>2, ForwardEnd4
<1> QED
  BY <1>3, <1>4, Zenon DEF a, b, c, d, e

LEMMA PushedFailed ==
    ASSUME NEW t \in Turns
    PROVE  ForwardAll(FinishWriteEmits(t, FALSE)) =
             <<Event("tool_result", t, "failed"), Event("error", t, ""), Complete(t, "error"), Status("idle")>>
<1> DEFINE a == Event("tool_result", t, "failed")
           b == Event("error", t, "")
           c == Complete(t, "error")
           d == Status("idle")
<1>1. a \in Sound(Turns) /\ b \in Sound(Turns) /\ c \in Sound(Turns) /\ d \in Sound(Turns)
  BY EventsAreSound, SessionEventsAreSound, Zenon DEF Message, Complete, States
<1>2. Forward(a) = <<a>> /\ Forward(b) = <<b>> /\ Forward(c) = <<c, d>>
  BY ForwardOf, Zenon
<1>3. FinishWriteEmits(t, FALSE) = <<a, b, c>>
  BY DEF FinishWriteEmits
<1> HIDE DEF a, b, c, d
<1>4. ForwardAll(<<a, b, c>>) = <<a, b, c, d>>
  BY <1>1, <1>2, ForwardEnd3
<1> QED
  BY <1>3, <1>4, Zenon DEF a, b, c, d

LEMMA PushedAnswer ==
    ASSUME NEW t \in Turns, ~interrupted
    PROVE  ForwardAll(AnswerEmits(t)) = <<Message(t), Complete(t, "ok"), Status("idle")>>
<1> DEFINE a == Message(t)
           b == Complete(t, "ok")
           c == Status("idle")
<1>1. a \in Sound(Turns) /\ b \in Sound(Turns) /\ c \in Sound(Turns)
  BY EventsAreSound, SessionEventsAreSound, Zenon DEF Message, Complete, States
<1>2. Forward(a) = <<a>> /\ Forward(b) = <<b, c>>
  BY ForwardOf, Zenon
<1>3. AnswerEmits(t) = <<a, b>>
  BY DEF AnswerEmits
<1> HIDE DEF a, b, c
<1>4. ForwardAll(<<a, b>>) = <<a, b, c>>
  BY <1>1, <1>2, ForwardEnd2
<1> QED
  BY <1>3, <1>4, Zenon DEF a, b, c

LEMMA PushedInterrupt ==
    ASSUME NEW t \in Turns
    PROVE  ForwardAll(<<Complete(t, "interrupted")>>) = <<Complete(t, "interrupted"), Status("idle")>>
BY ForwardAll1, ForwardOf

LEMMA PushedRun ==
    ASSUME NEW t \in Turns
    PROVE  ForwardAll(SettleEmits(t, "approve")) = <<Status("tool-running"), Event("tool_use", t, "Write")>>
<1>1. SettleEmits(t, "approve") = <<Event("tool_use", t, "Write")>>
  BY DEF SettleEmits
<1> QED
  BY <1>1, ForwardAll1, ForwardOf

LEMMA PushedBegin ==
    ASSUME NEW t \in Turns
    PROVE  ForwardAll(SendEmits(t)) = <<Event("assistant_delta", t, "")>>
BY ForwardAll1, ForwardOf DEF SendEmits

\* Which of them end the turn.
Ends(events) == \E i \in DOMAIN events : events[i].type = "turn_complete"

LEMMA EndsOf ==
    ASSUME NEW t
    PROVE  /\ ~Ends(<<>>) /\ ~Ends(SettleEmits(t, "approve")) /\ Ends(SettleEmits(t, "deny"))
           /\ Ends(AnswerEmits(t)) /\ (Ends(InterruptEmits(t)) <=> step = "asking")
           /\ \A ok \in BOOLEAN : Ends(FinishWriteEmits(t, ok))
<1>1. ~Ends(<<>>)
  BY DEF Ends
<1>2. \A a : a.type # "turn_complete" => ~Ends(<<a>>)
  BY DEF Ends
<1>3. \A a : a.type = "turn_complete" => Ends(<<a>>)
  BY DEF Ends
<1>4. \A a, b : b.type = "turn_complete" => Ends(<<a, b>>)
  BY DEF Ends
<1>5. \A a, b, c : c.type = "turn_complete" => Ends(<<a, b, c>>)
  BY DEF Ends
<1>6. \A a, b, c, d : d.type = "turn_complete" => Ends(<<a, b, c, d>>)
  BY DEF Ends
<1>7. \A status : Complete(t, status).type = "turn_complete"
  BY DEF Complete, Event
<1>8. Event("tool_use", t, "Write").type # "turn_complete"
  BY DEF Event
<1>9. ~Ends(SettleEmits(t, "approve"))
  BY <1>2, <1>8, Zenon DEF SettleEmits
<1>10. Ends(SettleEmits(t, "deny"))
  <2>1. SettleEmits(t, "deny") = <<Event("tool_result", t, "failed"), Message(t), Complete(t, "ok")>>
    BY DEF SettleEmits
  <2> QED
    BY <1>5, <1>7, <2>1, Zenon
<1>11. Ends(AnswerEmits(t))
  <2>1. CASE interrupted
    BY <1>3, <1>7, <2>1, Zenon DEF AnswerEmits
  <2>2. CASE ~interrupted
    <3>1. AnswerEmits(t) = <<Message(t), Complete(t, "ok")>>
      BY <2>2 DEF AnswerEmits
    <3> QED
      BY <1>4, <1>7, <3>1, Zenon
  <2> QED
    BY <2>1, <2>2
<1>12. Ends(InterruptEmits(t)) <=> step = "asking"
  BY <1>1, <1>3, <1>7, Zenon DEF InterruptEmits
<1>13. \A ok \in BOOLEAN : Ends(FinishWriteEmits(t, ok))
  BY <1>5, <1>6, <1>7, Zenon DEF FinishWriteEmits
<1> QED
  BY <1>1, <1>9, <1>10, <1>11, <1>12, <1>13

-----------------------------------------------------------------------------
(* What is on its way.                                                     *)

LEMMA FrameSetGrows ==
    ASSUME NEW n \in Nat, NEW m \in Nat, n <= m, NEW W, NEW V, W \subseteq V
    PROVE  FrameSet(n, W) \subseteq FrameSet(m, V)
BY SoundGrows DEF FrameSet

LEMMA AskedGrows ==
    ASSUME NEW W, NEW V, W \subseteq V
    PROVE  Asked(W) \subseteq Asked(V)
BY DEF Asked

LEMMA SeqsGrow ==
    ASSUME NEW S, NEW T, S \subseteq T
    PROVE  Seq(S) \subseteq Seq(T)
BY SeqMonotonic

LEMMA FramesFacts ==
    ASSUME NEW W, NEW events \in Seq(Sound(W)), NEW n \in Nat
    PROVE  /\ Frames(events, n) \in Seq(FrameSet(n + Len(events), W))
           /\ Len(Frames(events, n)) = Len(events)
           /\ \A i \in 1..Len(events) : Frames(events, n)[i] = [seq |-> n + i, event |-> events[i]]
<1> DEFINE frames == [i \in 1..Len(events) |-> [seq |-> n + i, event |-> events[i]]]
<1>1. DOMAIN events = 1..Len(events) /\ Len(events) \in Nat
  OBVIOUS
<1>2. Frames(events, n) = frames
  BY <1>1, Zenon DEF Frames
<1>3. \A i \in 1..Len(events) : [seq |-> n + i, event |-> events[i]] \in FrameSet(n + Len(events), W)
  <2> SUFFICES ASSUME NEW i \in 1..Len(events)
               PROVE  [seq |-> n + i, event |-> events[i]] \in FrameSet(n + Len(events), W)
    OBVIOUS
  <2>1. n + i \in 1..(n + Len(events)) /\ events[i] \in Sound(W)
    OBVIOUS
  <2> QED
    BY <2>1 DEF FrameSet
<1>4. frames \in Seq(FrameSet(n + Len(events), W)) /\ Len(frames) = Len(events)
  BY <1>1, <1>3, IsASeq
<1>5. \A i \in 1..Len(events) : frames[i] = [seq |-> n + i, event |-> events[i]]
  OBVIOUS
<1> HIDE DEF frames
<1> QED
  BY <1>2, <1>4, <1>5, Zenon

LEMMA TailFacts ==
    ASSUME NEW S, NEW s \in Seq(S), s # <<>>
    PROVE  /\ Tail(s) \in Seq(S) /\ Len(Tail(s)) = Len(s) - 1 /\ Head(s) = s[1] /\ Head(s) \in S
           /\ Len(s) \in Nat \ {0} /\ DOMAIN s = 1..Len(s) /\ DOMAIN Tail(s) = 1..(Len(s) - 1)
           /\ \A i \in 1..(Len(s) - 1) : Tail(s)[i] = s[i + 1]
BY HeadTailProperties, ElementOfSeq, LenProperties

\* A command that is handled leaves the ones behind it.
LEMMA HandledFacts ==
    ASSUME NEW W, sent \in [Pages -> Seq(Asked(W))],
           NEW p \in Pages, NEW type, Handling(p, type), Handled(p)
    PROVE  /\ sent' \in [Pages -> Seq(Asked(W))]
           /\ Head(sent[p]) \in Asked(W) /\ Head(sent[p]).type = type
           /\ type # "resume" => \A q \in Pages : Resuming(sent[q]) => Resuming(sent'[q])
           /\ \A q \in Pages : q # p => sent'[q] = sent[q]
<1> DEFINE S == Asked(W)
<1>1. sent \in [Pages -> Seq(S)] /\ sent[p] \in Seq(S) /\ sent[p] # <<>> /\ Head(sent[p]).type = type
      /\ sent' = [sent EXCEPT ![p] = Tail(sent[p])]
  BY DEF Handling, Handled
<1> HIDE DEF S
<1>2. /\ Tail(sent[p]) \in Seq(S) /\ Len(Tail(sent[p])) = Len(sent[p]) - 1
      /\ Head(sent[p]) = sent[p][1] /\ Head(sent[p]) \in S
      /\ Len(sent[p]) \in Nat \ {0} /\ DOMAIN sent[p] = 1..Len(sent[p])
      /\ DOMAIN Tail(sent[p]) = 1..(Len(sent[p]) - 1)
      /\ \A i \in 1..(Len(sent[p]) - 1) : Tail(sent[p])[i] = sent[p][i + 1]
  BY <1>1, TailFacts
<1>3. sent' \in [Pages -> Seq(S)] /\ sent'[p] = Tail(sent[p]) /\ \A q \in Pages : q # p => sent'[q] = sent[q]
  BY <1>1, <1>2
<1>4. ASSUME type # "resume", Resuming(sent[p]) PROVE Resuming(sent'[p])
  <2>1. PICK i \in 1..Len(sent[p]) : sent[p][i].type = "resume"
    BY <1>2, <1>4 DEF Resuming
  <2>2. i # 1
    BY <1>1, <1>2, <1>4, <2>1
  <2>3. i - 1 \in 1..(Len(sent[p]) - 1) /\ (i - 1) + 1 = i
    BY <1>2, <2>2
  <2>4. Tail(sent[p])[i - 1].type = "resume"
    BY <1>2, <2>1, <2>3
  <2> QED
    BY <1>2, <1>3, <2>3, <2>4 DEF Resuming
<1>5. type # "resume" => \A q \in Pages : Resuming(sent[q]) => Resuming(sent'[q])
  BY <1>3, <1>4, Zenon
<1> QED
  BY <1>1, <1>2, <1>3, <1>5, Zenon DEF S

-----------------------------------------------------------------------------
(* A page agrees with the journal up to its cursor when neither changes.   *)

LEMMA StillAgrees ==
    ASSUME NEW p \in Pages, Agrees(p),
           page'[p] = page[p], highestSeq'[p] = highestSeq[p],
           p \in gapped => p \in gapped', p \in cut => p \in cut',
           answered'[p] = answered[p], rewound'[p] = rewound[p],
           SubSeq(log', 1, highestSeq[p]) = SubSeq(log, 1, highestSeq[p])
    PROVE  Agrees(p)'
BY Zenon DEF Agrees, Journal, SameTranscript

\* The journal up to a cursor stays what it was when the log grows.
LEMMA JournalKept ==
    ASSUME Typing, NEW V, written \subseteq V, NEW events \in Seq(Sound(V)), NEW n \in 0..Len(log)
    PROVE  SubSeq(log \o events, 1, n) = SubSeq(log, 1, n)
<1>1. log \in Seq(Sound(V))
  BY SoundGrows, SeqsGrow DEF Typing
<1> QED
  BY <1>1, PrefixOfConcat

LEMMA ConcatAt ==
    ASSUME NEW S, NEW s \in Seq(S), NEW t \in Seq(S), NEW r, r = s \o t, NEW i \in 1..Len(t)
    PROVE  Len(s) + i \in DOMAIN r /\ r[Len(s) + i] = t[i]
<1>1. /\ Len(r) = Len(s) + Len(t) /\ r \in Seq(S)
      /\ \A j \in 1..(Len(s) + Len(t)) : r[j] = IF j <= Len(s) THEN s[j] ELSE t[j - Len(s)]
  BY ConcatProperties
<1>2. Len(s) \in Nat /\ Len(t) \in Nat /\ DOMAIN r = 1..Len(r)
  BY <1>1
<1>3. Len(s) + i \in 1..(Len(s) + Len(t)) /\ ~(Len(s) + i <= Len(s)) /\ (Len(s) + i) - Len(s) = i
  BY <1>2
<1> QED
  BY <1>1, <1>2, <1>3

LEMMA PushedLog ==
    ASSUME Typing, NEW V, written \subseteq V, NEW events \in Seq(Sound(V))
    PROVE  LET longer == log \o events IN
           /\ longer \in Seq(Sound(V)) /\ longer # <<>> /\ longer[1].type = "session_status"
           /\ Len(longer) \in Nat /\ Len(log) \in Nat /\ Len(longer) = Len(log) + Len(events)
           /\ Len(log) >= 1
<1>1. log \in Seq(Sound(V)) /\ log # <<>> /\ log[1].type = "session_status"
  BY SoundGrows, SeqsGrow DEF Typing
<1>2. Len(log) \in Nat /\ Len(log) >= 1 /\ Len(events) \in Nat
  BY <1>1
<1> DEFINE longer == log \o events
<1>3. /\ longer \in Seq(Sound(V)) /\ Len(longer) = Len(log) + Len(events)
      /\ \A i \in 1..(Len(log) + Len(events)) : longer[i] = IF i <= Len(log) THEN log[i] ELSE events[i - Len(log)]
  BY <1>1, ConcatProperties
<1> HIDE DEF longer
<1>4. longer[1] = log[1]
  BY <1>2, <1>3
<1>5. longer # <<>>
  BY <1>2, <1>3
<1>6. Len(longer) \in Nat
  BY <1>2, <1>3
<1> QED
  BY <1>1, <1>2, <1>3, <1>4, <1>5, <1>6, Zenon DEF longer

Broadcast(events) ==
    [p \in Pages |-> IF link[p] = "off" THEN inbox[p] ELSE inbox[p] \o Frames(events, Len(log))]

\* The frames that a push adds are well formed, and the last of them has the number of the log's last event.
LEMMA PushedInbox ==
    ASSUME Typing, NEW V, written \subseteq V, NEW events \in Seq(Sound(V))
    PROVE  LET new == log \o events boxes == Broadcast(events) IN
           /\ boxes \in [Pages -> Seq(FrameSet(Len(new), V))]
           /\ \A p \in Pages : link[p] # "off" /\ Len(events) # 0 =>
                 \E i \in DOMAIN boxes[p] : boxes[p][i].seq = Len(new)
           /\ Len(events) = 0 => Len(new) = Len(log) /\ boxes = inbox
<1> DEFINE new == log \o events
           boxes == Broadcast(events)
<1>10. new = log \o events /\ boxes = Broadcast(events)
  OBVIOUS
<1> DEFINE F == FrameSet(Len(new), V)
           frames == Frames(events, Len(log))
<1>1. Len(log) \in Nat /\ Len(new) \in Nat /\ Len(new) = Len(log) + Len(events) /\ Len(events) \in Nat
  BY PushedLog
<1> HIDE DEF new, boxes
<1>2. /\ frames \in Seq(F) /\ Len(frames) = Len(events)
      /\ \A i \in 1..Len(events) : frames[i] = [seq |-> Len(log) + i, event |-> events[i]]
  BY <1>1, FramesFacts
<1>9. frames \in Seq(F) /\ (Len(events) # 0 =>
         Len(events) \in 1..Len(frames) /\ frames[Len(events)].seq = Len(log) + Len(events))
  <2>1. Len(events) # 0 => Len(events) \in 1..Len(events)
    BY <1>1
  <2>2. Len(events) # 0 => frames[Len(events)] = [seq |-> Len(log) + Len(events), event |-> events[Len(events)]]
    BY <1>2, <2>1, Zenon
  <2> HIDE DEF frames
  <2>3. Len(events) # 0 => frames[Len(events)].seq = Len(log) + Len(events)
    BY <2>2
  <2> QED
    BY <1>2, <2>1, <2>3, Zenon
<1>3. inbox \in [Pages -> Seq(F)]
  <2>1. FrameSet(Len(log), written) \subseteq F
    BY <1>1, FrameSetGrows
  <2>2. Seq(FrameSet(Len(log), written)) \subseteq Seq(F)
    BY <2>1, SeqsGrow
  <2> QED
    BY <2>2 DEF Typing
<1> HIDE DEF F, frames
<1>4. \A p \in Pages : boxes[p] = IF link[p] = "off" THEN inbox[p] ELSE inbox[p] \o frames
  BY <1>10, Zenon DEF frames, Broadcast
<1>5. ASSUME NEW p \in Pages PROVE boxes[p] \in Seq(F)
  <2>1. inbox[p] \in Seq(F)
    BY <1>3
  <2>2. inbox[p] \o frames \in Seq(F)
    BY <1>2, <2>1, ConcatProperties
  <2> QED
    BY <1>4, <2>1, <2>2
<1>6. boxes \in [Pages -> Seq(F)]
  BY <1>5, <1>10, Zenon DEF Broadcast
<1>7. ASSUME NEW p \in Pages, link[p] # "off", Len(events) # 0
      PROVE  \E i \in DOMAIN boxes[p] : boxes[p][i].seq = Len(new)
  <2>1. boxes[p] = inbox[p] \o frames /\ inbox[p] \in Seq(F)
    BY <1>3, <1>4, <1>7
  <2>2. Len(inbox[p]) + Len(events) \in DOMAIN boxes[p]
        /\ boxes[p][Len(inbox[p]) + Len(events)] = frames[Len(events)]
    BY <1>7, <1>9, <2>1, ConcatAt
  <2> QED
    BY <1>1, <1>7, <1>9, <2>2, Zenon
<1>8. ASSUME Len(events) = 0 PROVE Len(new) = Len(log) /\ boxes = inbox
  <2>1. Len(new) = Len(log)
    BY <1>1, <1>8
  <2>2. frames = <<>>
    BY <1>2, <1>8, EmptySeq
  <2>3. ASSUME NEW p \in Pages PROVE boxes[p] = inbox[p]
    <3>1. inbox[p] \in Seq(F)
      BY <1>3
    <3>2. inbox[p] \o frames = inbox[p]
      BY <2>2, <3>1, ConcatEmptySeq
    <3> QED
      BY <1>4, <3>2
  <2> QED
    BY <1>3, <1>6, <2>1, <2>3
<1> QED
  BY <1>6, <1>7, <1>8, Zenon DEF F, new, boxes

\* Whatever the Session pushes: what is to be shown of a step is what it makes of the journal.
LEMMA PushStep ==
    ASSUME TranscriptInv, NEW events \in Seq(Sound(written')),
           log' = log \o events,
           inbox' = Broadcast(events),
           EngineTyping', written \subseteq written',
           currentTurn' \in Turns \cup {None}, lastTurn' \in Turns \cup {None},
           armed' \subseteq Turns, allowed' \in BOOLEAN,
           sent' \in [Pages -> Seq(Asked(written))],
           \A p \in Pages : Resuming(sent[p]) => Resuming(sent'[p]),
           UNCHANGED link, pageUnchanged,
           Phase(ModelOf(log \o events), step', currentTurn', written')
    PROVE  TranscriptInv'
<1> DEFINE V == written'
<1>0. UNCHANGED <<highestSeq, page, gapped, cut, answered, rewound, got>>
  BY DEF pageUnchanged, history
<1>1. /\ log' \in Seq(Sound(V)) /\ log' # <<>> /\ log'[1].type = "session_status"
      /\ Len(log') \in Nat /\ Len(log) \in Nat /\ Len(log') = Len(log) + Len(events) /\ Len(events) \in Nat
  <2> HIDE DEF V
  <2>1. events \in Seq(Sound(V)) /\ written \subseteq V /\ Typing
    BY DEF V, TranscriptInv
  <2>2. LET longer == log \o events IN
           /\ longer \in Seq(Sound(V)) /\ longer # <<>> /\ longer[1].type = "session_status"
           /\ Len(longer) \in Nat /\ Len(log) \in Nat /\ Len(longer) = Len(log) + Len(events)
           /\ Len(log) >= 1
    BY <2>1, PushedLog
  <2>3. Len(events) \in Nat
    BY <2>1
  <2> QED
    BY <2>2, <2>3, Zenon
<1>2. /\ inbox' \in [Pages -> Seq(FrameSet(Len(log'), V))]
      /\ \A p \in Pages : link[p] # "off" /\ Len(events) # 0 =>
            \E i \in DOMAIN inbox'[p] : inbox'[p][i].seq = Len(log')
      /\ Len(events) = 0 => Len(log') = Len(log) /\ inbox' = inbox
  <2> HIDE DEF V
  <2>1. events \in Seq(Sound(V)) /\ written \subseteq V /\ Typing
    BY DEF V, TranscriptInv
  <2>2. LET new == log \o events boxes == Broadcast(events) IN
        /\ boxes \in [Pages -> Seq(FrameSet(Len(new), V))]
        /\ \A p \in Pages : link[p] # "off" /\ Len(events) # 0 =>
              \E i \in DOMAIN boxes[p] : boxes[p][i].seq = Len(new)
        /\ Len(events) = 0 => Len(new) = Len(log) /\ boxes = inbox
    BY <2>1, PushedInbox, Zenon
  <2> QED
    BY <2>2, Zenon
<1>3. Typing'
  <2>1. sent' \in [Pages -> Seq(Asked(V))]
    <3>1. Seq(Asked(written)) \subseteq Seq(Asked(V))
      BY AskedGrows, SeqsGrow
    <3> QED
      BY <3>1
  <2>2. page' \in [Pages -> Models(V)] /\ \A p \in Pages : Model(page'[p], V)
    <3>1. page \in [Pages -> Models(written)] /\ \A p \in Pages : Model(page[p], written)
      BY DEF TranscriptInv, Typing
    <3>2. \A p \in Pages : Model(page[p], V)
      BY <3>1, ModelGrows
    <3>3. \A p \in Pages : page[p] \in Models(V)
      BY <3>2 DEF Model
    <3> QED
      BY <1>0, <3>1, <3>2, <3>3
  <2>3. highestSeq' \in [Pages -> 0..Len(log')]
    <3>1. highestSeq \in [Pages -> 0..Len(log)]
      BY DEF TranscriptInv, Typing
    <3>2. 0..Len(log) \subseteq 0..Len(log')
      BY <1>1
    <3> QED
      BY <1>0, <3>1, <3>2
  <2>4. /\ got' \in [Pages -> SUBSET Honest]
        /\ gapped' \cup cut' \subseteq Pages
        /\ answered' \in [Pages -> Turns \cup {None}] /\ rewound' \in [Pages -> Turns \cup {None}]
        /\ link' \in [Pages -> {"off", "open", "on"}]
    BY <1>0 DEF TranscriptInv, Typing
  <2> QED
    BY <1>1, <1>2, <2>1, <2>2, <2>3, <2>4, Zenon DEF Typing
<1>4. PhaseInv'
  BY Zenon DEF PhaseInv
<1>5. ASSUME NEW p \in Pages PROVE Agrees(p)'
  <2>1. highestSeq[p] \in 0..Len(log)
    BY DEF TranscriptInv, Typing
  <2>2. SubSeq(log', 1, highestSeq[p]) = SubSeq(log, 1, highestSeq[p])
    BY <2>1, JournalKept, Zenon DEF TranscriptInv
  <2>3. Agrees(p)
    BY DEF TranscriptInv, AgreeInv
  <2> QED
    BY <1>0, <2>2, <2>3, StillAgrees, Zenon
<1>6. ASSUME NEW p \in Pages PROVE CatchingUp(p)'
  <2>1. CatchingUp(p)
    BY DEF TranscriptInv, CatchInv
  <2> QED
    BY <1>0, <1>2, <2>1, Zenon DEF CatchingUp, Resuming
<1> QED
  BY <1>3, <1>4, <1>5, <1>6, Zenon DEF TranscriptInv, AgreeInv, CatchInv

\* What a page makes of a journal with up to five events more.
LEMMA Then0 ==
    ASSUME NEW S, NEW s \in Seq(S)
    PROVE  ModelOf(s \o <<>>) = ModelOf(s)
<1>1. s \o <<>> = s
  BY ConcatEmptySeq
<1> QED
  BY <1>1, Zenon

LEMMA Then1 ==
    ASSUME NEW S, NEW s \in Seq(S), NEW a \in S
    PROVE  ModelOf(s \o <<a>>) = Reduce(ModelOf(s), a)
<1>1. ModelOf(s \o <<a>>) = Reduce(ModelOf(s \o <<>>), a)
  BY ModelOfMore1
<1>2. ModelOf(s \o <<>>) = ModelOf(s)
  BY Then0
<1> QED
  BY <1>1, <1>2, Zenon

LEMMA Then2 ==
    ASSUME NEW S, NEW s \in Seq(S), NEW a \in S, NEW b \in S
    PROVE  ModelOf(s \o <<a, b>>) = Reduce(Reduce(ModelOf(s), a), b)
<1>1. ModelOf(s \o <<a, b>>) = Reduce(ModelOf(s \o <<a>>), b)
  BY ModelOfMore2
<1>2. ModelOf(s \o <<a>>) = Reduce(ModelOf(s), a)
  BY Then1
<1> QED
  BY <1>1, <1>2, Zenon

LEMMA Then3 ==
    ASSUME NEW S, NEW s \in Seq(S), NEW a \in S, NEW b \in S, NEW c \in S
    PROVE  ModelOf(s \o <<a, b, c>>) = Reduce(Reduce(Reduce(ModelOf(s), a), b), c)
<1>1. ModelOf(s \o <<a, b, c>>) = Reduce(ModelOf(s \o <<a, b>>), c)
  BY ModelOfMore3
<1>2. ModelOf(s \o <<a, b>>) = Reduce(Reduce(ModelOf(s), a), b)
  BY Then2
<1> QED
  BY <1>1, <1>2, Zenon

LEMMA Then4 ==
    ASSUME NEW S, NEW s \in Seq(S), NEW a \in S, NEW b \in S, NEW c \in S, NEW d \in S
    PROVE  ModelOf(s \o <<a, b, c, d>>) = Reduce(Reduce(Reduce(Reduce(ModelOf(s), a), b), c), d)
<1>1. ModelOf(s \o <<a, b, c, d>>) = Reduce(ModelOf(s \o <<a, b, c>>), d)
  BY ModelOfMore4
<1>2. ModelOf(s \o <<a, b, c>>) = Reduce(Reduce(Reduce(ModelOf(s), a), b), c)
  BY Then3
<1> QED
  BY <1>1, <1>2, Zenon

LEMMA Then5 ==
    ASSUME NEW S, NEW s \in Seq(S), NEW a \in S, NEW b \in S, NEW c \in S, NEW d \in S, NEW e \in S
    PROVE  ModelOf(s \o <<a, b, c, d, e>>) = Reduce(Reduce(Reduce(Reduce(Reduce(ModelOf(s), a), b), c), d), e)
<1>1. ModelOf(s \o <<a, b, c, d, e>>) = Reduce(ModelOf(s \o <<a, b, c, d>>), e)
  BY ModelOfMore5
<1>2. ModelOf(s \o <<a, b, c, d>>) = Reduce(Reduce(Reduce(Reduce(ModelOf(s), a), b), c), d)
  BY Then4
<1> QED
  BY <1>1, <1>2, Zenon

-----------------------------------------------------------------------------
(* What each step of a turn makes of the journal.                          *)

LEMMA SystemPush ==
    ASSUME NEW W, W \subseteq Turns, NEW s \in Seq(Sound(W)), NEW st, NEW t, Phase(ModelOf(s), st, t, W)
    PROVE  /\ <<System>> \in Seq(Sound(W))
           /\ Phase(ModelOf(s \o <<System>>), st, t, W)
<1> DEFINE a == System
<1>1. a \in Sound(W)
  BY SessionEventsAreSound
<1>2. Phase(Reduce(ModelOf(s), a), st, t, W)
  BY SystemPhase
<1> HIDE DEF a
<1>3. ModelOf(s \o <<a>>) = Reduce(ModelOf(s), a)
  BY <1>1, Then1
<1>4. <<a>> \in Seq(Sound(W))
  BY <1>1
<1> QED
  BY <1>2, <1>3, <1>4, Zenon DEF a

LEMMA BeginPush ==
    ASSUME NEW W, W \subseteq Turns, NEW t \in Turns, NEW s \in Seq(Sound(W)),
           Phase(ModelOf(s), "idle", None, W)
    PROVE  /\ <<Status("thinking"), Event("assistant_delta", t, "")>> \in Seq(Sound(W))
           /\ Phase(ModelOf(s \o <<Status("thinking"), Event("assistant_delta", t, "")>>), "ticking", t, W)
<1> DEFINE a == Status("thinking")
           b == Event("assistant_delta", t, "")
<1>1. a \in Sound(W) /\ b \in Sound(W)
  BY EventsAreSound, SessionEventsAreSound, Zenon DEF Message, Complete, States
<1>3. Phase(Reduce(Reduce(ModelOf(s), a), b), "ticking", t, W)
  BY BeginPhase, Zenon
<1> HIDE DEF a, b
<1>5. ModelOf(s \o <<a, b>>) = Reduce(Reduce(ModelOf(s), a), b)
  BY <1>1, Then2
<1>6. <<a, b>> \in Seq(Sound(W))
  BY <1>1
<1> QED
  BY <1>3, <1>5, <1>6, Zenon DEF a, b

LEMMA InterruptPush ==
    ASSUME NEW W, W \subseteq Turns, NEW t \in Turns, NEW s \in Seq(Sound(W)),
           Phase(ModelOf(s), "ticking", t, W) \/ Phase(ModelOf(s), "asking", t, W)
    PROVE  /\ <<Complete(t, "interrupted"), Status("idle")>> \in Seq(Sound(W))
           /\ Phase(ModelOf(s \o <<Complete(t, "interrupted"), Status("idle")>>), "idle", None, W)
<1> DEFINE a == Complete(t, "interrupted")
           b == Status("idle")
<1>1. a \in Sound(W) /\ b \in Sound(W)
  BY EventsAreSound, SessionEventsAreSound, Zenon DEF Message, Complete, States
<1>3. Phase(Reduce(Reduce(ModelOf(s), a), b), "idle", None, W)
  BY InterruptPhase, Zenon
<1> HIDE DEF a, b
<1>5. ModelOf(s \o <<a, b>>) = Reduce(Reduce(ModelOf(s), a), b)
  BY <1>1, Then2
<1>6. <<a, b>> \in Seq(Sound(W))
  BY <1>1
<1> QED
  BY <1>3, <1>5, <1>6, Zenon DEF a, b

LEMMA AnswerPush ==
    ASSUME NEW W, W \subseteq Turns, NEW t \in Turns, NEW s \in Seq(Sound(W)),
           Phase(ModelOf(s), "ticking", t, W)
    PROVE  /\ <<Message(t), Complete(t, "ok"), Status("idle")>> \in Seq(Sound(W))
           /\ Phase(ModelOf(s \o <<Message(t), Complete(t, "ok"), Status("idle")>>), "idle", None, W)
<1> DEFINE a == Message(t)
           b == Complete(t, "ok")
           c == Status("idle")
<1>1. a \in Sound(W) /\ b \in Sound(W) /\ c \in Sound(W)
  BY EventsAreSound, SessionEventsAreSound, Zenon DEF Message, Complete, States
<1>3. Phase(Reduce(Reduce(Reduce(ModelOf(s), a), b), c), "idle", None, W)
  BY AnswerPhase, Zenon
<1> HIDE DEF a, b, c
<1>5. ModelOf(s \o <<a, b, c>>) = Reduce(Reduce(Reduce(ModelOf(s), a), b), c)
  BY <1>1, Then3
<1>6. <<a, b, c>> \in Seq(Sound(W))
  BY <1>1
<1> QED
  BY <1>3, <1>5, <1>6, Zenon DEF a, b, c

LEMMA AskPush ==
    ASSUME NEW W, W \subseteq Turns, NEW t \in Turns, NEW s \in Seq(Sound(W)),
           Phase(ModelOf(s), "ticking", t, W)
    PROVE  /\ <<Status("awaiting-approval"), Event("permission_request", t, "")>> \in Seq(Sound(W))
           /\ Phase(ModelOf(s \o <<Status("awaiting-approval"), Event("permission_request", t, "")>>), "asking", t, W)
<1> DEFINE a == Status("awaiting-approval")
           b == Event("permission_request", t, "")
<1>1. a \in Sound(W) /\ b \in Sound(W)
  BY EventsAreSound, SessionEventsAreSound, Zenon DEF Message, Complete, States
<1>3. Phase(Reduce(Reduce(ModelOf(s), a), b), "asking", t, W)
  BY AskPhase, Zenon
<1> HIDE DEF a, b
<1>5. ModelOf(s \o <<a, b>>) = Reduce(Reduce(ModelOf(s), a), b)
  BY <1>1, Then2
<1>6. <<a, b>> \in Seq(Sound(W))
  BY <1>1
<1> QED
  BY <1>3, <1>5, <1>6, Zenon DEF a, b

LEMMA RunPush ==
    ASSUME NEW W, W \subseteq Turns, NEW t \in Turns, NEW s \in Seq(Sound(W)),
           Phase(ModelOf(s), "asking", t, W)
    PROVE  /\ <<Status("tool-running"), Event("tool_use", t, "Write")>> \in Seq(Sound(W))
           /\ Phase(ModelOf(s \o <<Status("tool-running"), Event("tool_use", t, "Write")>>), "writing", t, W)
<1> DEFINE a == Status("tool-running")
           b == Event("tool_use", t, "Write")
<1>1. a \in Sound(W) /\ b \in Sound(W)
  BY EventsAreSound, SessionEventsAreSound, Zenon DEF Message, Complete, States
<1>3. Phase(Reduce(Reduce(ModelOf(s), a), b), "writing", t, W)
  BY RunPhase, Zenon
<1> HIDE DEF a, b
<1>5. ModelOf(s \o <<a, b>>) = Reduce(Reduce(ModelOf(s), a), b)
  BY <1>1, Then2
<1>6. <<a, b>> \in Seq(Sound(W))
  BY <1>1
<1> QED
  BY <1>3, <1>5, <1>6, Zenon DEF a, b

LEMMA AllowedRunPush ==
    ASSUME NEW W, W \subseteq Turns, NEW t \in Turns, NEW s \in Seq(Sound(W)),
           Phase(ModelOf(s), "ticking", t, W)
    PROVE  /\ <<System, Status("tool-running"), Event("tool_use", t, "Write")>> \in Seq(Sound(W))
           /\ Phase(ModelOf(s \o <<System, Status("tool-running"), Event("tool_use", t, "Write")>>), "writing", t, W)
<1> DEFINE a == System
           b == Status("tool-running")
           c == Event("tool_use", t, "Write")
<1>1. a \in Sound(W) /\ b \in Sound(W) /\ c \in Sound(W)
  BY EventsAreSound, SessionEventsAreSound, Zenon DEF Message, Complete, States
<1>2. Phase(Reduce(ModelOf(s), a), "ticking", t, W)
  BY SystemPhase, Zenon
<1>3. Phase(Reduce(Reduce(Reduce(ModelOf(s), a), b), c), "writing", t, W)
  BY <1>2, RunPhase, Zenon
<1> HIDE DEF a, b, c
<1>5. ModelOf(s \o <<a, b, c>>) = Reduce(Reduce(Reduce(ModelOf(s), a), b), c)
  BY <1>1, Then3
<1>6. <<a, b, c>> \in Seq(Sound(W))
  BY <1>1
<1> QED
  BY <1>3, <1>5, <1>6, Zenon DEF a, b, c

LEMMA DenyPush ==
    ASSUME NEW W, W \subseteq Turns, NEW t \in Turns, NEW s \in Seq(Sound(W)),
           Phase(ModelOf(s), "asking", t, W)
    PROVE  /\ <<Event("tool_result", t, "failed"), Message(t), Complete(t, "ok"), Status("idle")>> \in Seq(Sound(W))
           /\ Phase(ModelOf(s \o <<Event("tool_result", t, "failed"), Message(t), Complete(t, "ok"), Status("idle")>>), "idle", None, W)
<1> DEFINE a == Event("tool_result", t, "failed")
           b == Message(t)
           c == Complete(t, "ok")
           d == Status("idle")
<1>1. a \in Sound(W) /\ b \in Sound(W) /\ c \in Sound(W) /\ d \in Sound(W)
  BY EventsAreSound, SessionEventsAreSound, Zenon DEF Message, Complete, States
<1>3. Phase(Reduce(Reduce(Reduce(Reduce(ModelOf(s), a), b), c), d), "idle", None, W)
  BY DenyPhase, Zenon
<1> HIDE DEF a, b, c, d
<1>5. ModelOf(s \o <<a, b, c, d>>) = Reduce(Reduce(Reduce(Reduce(ModelOf(s), a), b), c), d)
  BY <1>1, Then4
<1>6. <<a, b, c, d>> \in Seq(Sound(W))
  BY <1>1
<1> QED
  BY <1>3, <1>5, <1>6, Zenon DEF a, b, c, d

LEMMA TimeoutPush ==
    ASSUME NEW W, W \subseteq Turns, NEW t \in Turns, NEW s \in Seq(Sound(W)),
           Phase(ModelOf(s), "asking", t, W)
    PROVE  /\ <<System, Event("tool_result", t, "failed"), Message(t), Complete(t, "ok"), Status("idle")>> \in Seq(Sound(W))
           /\ Phase(ModelOf(s \o <<System, Event("tool_result", t, "failed"), Message(t), Complete(t, "ok"), Status("idle")>>), "idle", None, W)
<1> DEFINE a == System
           b == Event("tool_result", t, "failed")
           c == Message(t)
           d == Complete(t, "ok")
           e == Status("idle")
<1>1. a \in Sound(W) /\ b \in Sound(W) /\ c \in Sound(W) /\ d \in Sound(W) /\ e \in Sound(W)
  BY EventsAreSound, SessionEventsAreSound, Zenon DEF Message, Complete, States
<1>2. Phase(Reduce(ModelOf(s), a), "asking", t, W)
  BY SystemPhase, Zenon
<1>3. Phase(Reduce(Reduce(Reduce(Reduce(Reduce(ModelOf(s), a), b), c), d), e), "idle", None, W)
  BY <1>2, DenyPhase, Zenon
<1> HIDE DEF a, b, c, d, e
<1>5. ModelOf(s \o <<a, b, c, d, e>>) = Reduce(Reduce(Reduce(Reduce(Reduce(ModelOf(s), a), b), c), d), e)
  BY <1>1, Then5
<1>6. <<a, b, c, d, e>> \in Seq(Sound(W))
  BY <1>1
<1> QED
  BY <1>3, <1>5, <1>6, Zenon DEF a, b, c, d, e

LEMMA WrittenPush ==
    ASSUME NEW W, W \subseteq Turns, NEW t \in Turns, NEW s \in Seq(Sound(W \cup {t})),
           Phase(ModelOf(s), "writing", t, W)
    PROVE  /\ <<Event("tool_stream", t, ""), Event("tool_result", t, "ok"), Message(t), Complete(t, "ok"), Status("idle")>> \in Seq(Sound(W \cup {t}))
           /\ Phase(ModelOf(s \o <<Event("tool_stream", t, ""), Event("tool_result", t, "ok"), Message(t), Complete(t, "ok"), Status("idle")>>), "idle", None, W \cup {t})
<1> DEFINE a == Event("tool_stream", t, "")
           b == Event("tool_result", t, "ok")
           c == Message(t)
           d == Complete(t, "ok")
           e == Status("idle")
           V == W \cup {t}
<1>1. a \in Sound(V) /\ b \in Sound(V) /\ c \in Sound(V) /\ d \in Sound(V) /\ e \in Sound(V)
  BY EventsAreSound, SessionEventsAreSound, Zenon DEF Message, Complete, States
<1>3. Phase(Reduce(Reduce(Reduce(Reduce(Reduce(ModelOf(s), a), b), c), d), e), "idle", None, V)
  BY WrittenPhase, Zenon
<1> HIDE DEF a, b, c, d, e, V
<1>4. s \in Seq(Sound(V))
  BY DEF V
<1>5. ModelOf(s \o <<a, b, c, d, e>>) = Reduce(Reduce(Reduce(Reduce(Reduce(ModelOf(s), a), b), c), d), e)
  BY <1>1, <1>4, Then5
<1>6. <<a, b, c, d, e>> \in Seq(Sound(V))
  BY <1>1
<1> QED
  BY <1>3, <1>5, <1>6, Zenon DEF a, b, c, d, e, V

LEMMA FailedPush ==
    ASSUME NEW W, W \subseteq Turns, NEW t \in Turns, NEW s \in Seq(Sound(W)),
           Phase(ModelOf(s), "writing", t, W)
    PROVE  /\ <<Event("tool_result", t, "failed"), Event("error", t, ""), Complete(t, "error"), Status("idle")>> \in Seq(Sound(W))
           /\ Phase(ModelOf(s \o <<Event("tool_result", t, "failed"), Event("error", t, ""), Complete(t, "error"), Status("idle")>>), "idle", None, W)
<1> DEFINE a == Event("tool_result", t, "failed")
           b == Event("error", t, "")
           c == Complete(t, "error")
           d == Status("idle")
<1>1. a \in Sound(W) /\ b \in Sound(W) /\ c \in Sound(W) /\ d \in Sound(W)
  BY EventsAreSound, SessionEventsAreSound, Zenon DEF Message, Complete, States
<1>3. Phase(Reduce(Reduce(Reduce(Reduce(ModelOf(s), a), b), c), d), "idle", None, W)
  BY FailedPhase, Zenon
<1> HIDE DEF a, b, c, d
<1>5. ModelOf(s \o <<a, b, c, d>>) = Reduce(Reduce(Reduce(Reduce(ModelOf(s), a), b), c), d)
  BY <1>1, Then4
<1>6. <<a, b, c, d>> \in Seq(Sound(W))
  BY <1>1
<1> QED
  BY <1>3, <1>5, <1>6, Zenon DEF a, b, c, d

-----------------------------------------------------------------------------
(* The steps of the Session.                                               *)

LEMMA DaemonFacts ==
    ASSUME TranscriptInv
    PROVE  /\ written \subseteq Turns /\ EngineTyping /\ armed \subseteq Turns /\ allowed \in BOOLEAN
           /\ log \in Seq(Sound(written)) /\ sent \in [Pages -> Seq(Asked(written))]
           /\ currentTurn \in Turns \cup {None} /\ lastTurn \in Turns \cup {None}
           /\ Phase(ModelOf(log), step, currentTurn, written)
           /\ step = "idle" <=> currentTurn = None
           /\ step # "idle" => currentTurn \in Turns
<1>1. /\ written \subseteq Turns /\ EngineTyping /\ armed \subseteq Turns /\ allowed \in BOOLEAN
      /\ log \in Seq(Sound(written)) /\ sent \in [Pages -> Seq(Asked(written))]
      /\ currentTurn \in Turns \cup {None} /\ lastTurn \in Turns \cup {None}
  BY DEF TranscriptInv, Typing, EngineTyping
<1>2. Phase(ModelOf(log), step, currentTurn, written)
  BY DEF TranscriptInv, PhaseInv
<1>3. step = "idle" <=> currentTurn = None
  BY <1>2, Zenon DEF Phase
<1>4. step # "idle" => currentTurn \in Turns
  BY <1>1, <1>3
<1> QED
  BY <1>1, <1>2, <1>3, <1>4, Zenon

\* A step that writes no file and whose commands, if it handles one, are no resumes.
LEMMA PushSame ==
    ASSUME TranscriptInv, NEW events \in Seq(Sound(written)), Push(inbox, events),
           UNCHANGED <<written, link>>, pageUnchanged,
           step' \in {"idle", "ticking", "asking", "writing"}, writes' \in BOOLEAN, interrupted' \in BOOLEAN,
           currentTurn' \in Turns \cup {None}, lastTurn' \in Turns \cup {None},
           armed' \subseteq Turns, allowed' \in BOOLEAN,
           sent' \in [Pages -> Seq(Asked(written))],
           \A p \in Pages : Resuming(sent[p]) => Resuming(sent'[p]),
           Phase(ModelOf(log \o events), step', currentTurn', written)
    PROVE  TranscriptInv'
<1>1. written' = written /\ UNCHANGED link /\ written \subseteq written'
  OBVIOUS
<1>2. EngineTyping'
  BY <1>1, DaemonFacts DEF EngineTyping
<1>3. events \in Seq(Sound(written')) /\ Phase(ModelOf(log \o events), step', currentTurn', written')
  BY <1>1, Zenon
<1>4. log' = log \o events /\ inbox' = Broadcast(events)
  BY Zenon DEF Push, Broadcast
<1> QED
  BY <1>1, <1>2, <1>3, <1>4, PushStep, Zenon

LEMMA SameCommands ==
    ASSUME TranscriptInv, UNCHANGED sent
    PROVE  /\ sent' \in [Pages -> Seq(Asked(written))]
           /\ \A p \in Pages : Resuming(sent[p]) => Resuming(sent'[p])
BY DaemonFacts

LEMMA OneCommandLess ==
    ASSUME TranscriptInv, NEW p \in Pages, NEW type, type # "resume", Handling(p, type), Handled(p)
    PROVE  /\ sent' \in [Pages -> Seq(Asked(written))]
           /\ \A q \in Pages : Resuming(sent[q]) => Resuming(sent'[q])
           /\ Head(sent[p]) \in Asked(written) /\ Head(sent[p]).type = type
BY DaemonFacts, HandledFacts

LEMMA CommandFields ==
    ASSUME NEW W, NEW cmd \in Asked(W)
    PROVE  /\ cmd.type = "user_message" => cmd.withFile \in BOOLEAN
           /\ cmd.type = "permission_response" =>
                cmd.of \in Turns /\ cmd.decision \in {"approve", "deny"} /\ cmd.scope \in {"once", "session"}
           /\ cmd.type = "download" =>
                cmd.of \in Turns /\ cmd.via \in {"file", "zip"} /\ (cmd.via = "zip" => cmd.of \in W)
           /\ cmd.type = "resume" => cmd.since \in Nat
BY DEF Asked, Commands, DownloadCommands

LEMMA CloseForm ==
    ASSUME NEW events, Close(events)
    PROVE  currentTurn' = IF Ends(events) THEN None ELSE currentTurn
BY Zenon DEF Close, Ends

LEMMA OnUserMessageStep ==
    ASSUME TranscriptInv, NEW p \in Pages, OnUserMessage(p)
    PROVE  TranscriptInv'
<1>1. /\ Handling(p, "user_message") /\ Handled(p)
      /\ UNCHANGED <<armed, allowed, link>> /\ pageUnchanged
  BY DEF OnUserMessage
<1>2. /\ sent' \in [Pages -> Seq(Asked(written))]
      /\ \A q \in Pages : Resuming(sent[q]) => Resuming(sent'[q])
      /\ Head(sent[p]) \in Asked(written) /\ Head(sent[p]).type = "user_message"
  BY <1>1, OneCommandLess
<1>3. /\ written \subseteq Turns /\ EngineTyping /\ armed' \subseteq Turns /\ allowed' \in BOOLEAN
      /\ log \in Seq(Sound(written))
      /\ currentTurn \in Turns \cup {None} /\ lastTurn \in Turns \cup {None}
      /\ Phase(ModelOf(log), step, currentTurn, written)
      /\ step = "idle" <=> currentTurn = None
  BY <1>1, DaemonFacts
<1>4. ASSUME Push(inbox, <<System>>), UNCHANGED <<engineVars, currentTurn, lastTurn>>
      PROVE  TranscriptInv'
  <2> DEFINE events == <<System>>
  <2>1. events \in Seq(Sound(written)) /\ Phase(ModelOf(log \o events), step, currentTurn, written)
    BY <1>3, SystemPush
  <2>2. /\ Push(inbox, events)
        /\ step' = step /\ writes' = writes /\ interrupted' = interrupted /\ written' = written /\ link' = link
        /\ currentTurn' = currentTurn /\ lastTurn' = lastTurn
    BY <1>1, <1>4 DEF engineVars
  <2> HIDE DEF events
  <2>3. /\ step' \in {"idle", "ticking", "asking", "writing"} /\ writes' \in BOOLEAN /\ interrupted' \in BOOLEAN
        /\ currentTurn' \in Turns \cup {None} /\ lastTurn' \in Turns \cup {None}
        /\ Phase(ModelOf(log \o events), step', currentTurn', written)
    BY <1>3, <2>1, <2>2 DEF EngineTyping
  <2> QED
    BY <1>1, <1>2, <1>3, <2>1, <2>2, <2>3, PushSame
<1>5. ASSUME currentTurn = None, lastTurn < MaxTurns, lastTurn' = lastTurn + 1, currentTurn' = lastTurn',
             Send(Head(sent[p]).withFile),
             Push(inbox, <<Status("thinking")>> \o ForwardAll(SendEmits(lastTurn')))
      PROVE  TranscriptInv'
  <2> DEFINE t == lastTurn'
             events == <<Status("thinking"), Event("assistant_delta", t, "")>>
  <2>1. t \in Turns
    BY <1>3, <1>5, MaxTurnsAssumption DEF Turns, None
  <2> HIDE DEF t
  <2>2. events \in Seq(Sound(written)) /\ Phase(ModelOf(log \o events), "ticking", t, written)
    BY <1>3, <1>5, <2>1, BeginPush
  <2>3. <<Status("thinking")>> \o ForwardAll(SendEmits(t)) = events
    <3> DEFINE a == Status("thinking")
               b == Event("assistant_delta", t, "")
    <3>1. a \in Sound(Turns) /\ b \in Sound(Turns)
      BY <2>1, EventsAreSound, SessionEventsAreSound, Zenon DEF States
    <3>2. ForwardAll(SendEmits(t)) = <<b>>
      BY <2>1, PushedBegin
    <3> HIDE DEF a, b
    <3>3. <<a>> \o <<b>> = <<a, b>>
      BY <3>1, Concat11
    <3> QED
      BY <3>2, <3>3, Zenon DEF a, b
  <2> HIDE DEF events
  <2>4. Push(inbox, events)
    BY <1>5, <2>3, Zenon DEF t
  <2>5. step' = "ticking" /\ writes' \in BOOLEAN /\ interrupted' \in BOOLEAN /\ written' = written /\ link' = link
    BY <1>1, <1>2, <1>5, CommandFields DEF Send
  <2>6. currentTurn' = t /\ lastTurn' = t
    BY <1>5 DEF t
  <2>7. /\ step' \in {"idle", "ticking", "asking", "writing"}
        /\ currentTurn' \in Turns \cup {None} /\ lastTurn' \in Turns \cup {None}
        /\ Phase(ModelOf(log \o events), step', currentTurn', written)
    BY <2>1, <2>2, <2>5, <2>6
  <2> QED
    BY <1>1, <1>2, <1>3, <2>2, <2>4, <2>5, <2>7, PushSame
<1> QED
  BY <1>4, <1>5 DEF OnUserMessage

LEMMA AnsweringStep ==
    ASSUME TranscriptInv, Answering
    PROVE  TranscriptInv'
<1>1. /\ Answer /\ Push(inbox, ForwardAll(AnswerEmits(currentTurn))) /\ Close(AnswerEmits(currentTurn))
      /\ UNCHANGED <<lastTurn, armed, allowed, link, sent>> /\ pageUnchanged
  BY DEF Answering, Emit
<1>2. /\ sent' \in [Pages -> Seq(Asked(written))]
      /\ \A q \in Pages : Resuming(sent[q]) => Resuming(sent'[q])
  BY <1>1, SameCommands
<1>3. /\ written \subseteq Turns /\ EngineTyping /\ armed' \subseteq Turns /\ allowed' \in BOOLEAN
      /\ log \in Seq(Sound(written)) /\ lastTurn' \in Turns \cup {None}
      /\ Phase(ModelOf(log), step, currentTurn, written) /\ (step # "idle" => currentTurn \in Turns)
  BY <1>1, DaemonFacts
<1>4. /\ step = "ticking" /\ step' = "idle" /\ writes' = writes /\ interrupted' = interrupted
      /\ written' = written /\ link' = link
  BY <1>1 DEF Answer
<1>5. currentTurn \in Turns /\ Phase(ModelOf(log), "ticking", currentTurn, written)
  BY <1>3, <1>4
<1>6. currentTurn' = None
  BY <1>1, CloseForm, EndsOf
<1>7. PICK events \in Seq(Sound(written)) :
        /\ Push(inbox, events)
        /\ Phase(ModelOf(log \o events), "idle", None, written)
  <2>1. CASE interrupted
    <3>1. /\ <<Complete(currentTurn, "interrupted"), Status("idle")>> \in Seq(Sound(written))
          /\ Phase(ModelOf(log \o <<Complete(currentTurn, "interrupted"), Status("idle")>>), "idle", None, written)
      BY <1>3, <1>5, InterruptPush
    <3>2. AnswerEmits(currentTurn) = <<Complete(currentTurn, "interrupted")>>
      BY <2>1 DEF AnswerEmits
    <3>3. Push(inbox, <<Complete(currentTurn, "interrupted"), Status("idle")>>)
      BY <1>1, <1>5, <3>2, PushedInterrupt
    <3> QED
      BY <3>1, <3>3, Zenon
  <2>2. CASE ~interrupted
    <3>1. /\ <<Message(currentTurn), Complete(currentTurn, "ok"), Status("idle")>> \in Seq(Sound(written))
          /\ Phase(ModelOf(log \o <<Message(currentTurn), Complete(currentTurn, "ok"), Status("idle")>>), "idle", None, written)
      BY <1>3, <1>5, AnswerPush
    <3>3. Push(inbox, <<Message(currentTurn), Complete(currentTurn, "ok"), Status("idle")>>)
      BY <1>1, <1>5, <2>2, PushedAnswer
    <3> QED
      BY <3>1, <3>3, Zenon
  <2> QED
    BY <2>1, <2>2
<1>8. /\ step' \in {"idle", "ticking", "asking", "writing"} /\ writes' \in BOOLEAN /\ interrupted' \in BOOLEAN
      /\ currentTurn' \in Turns \cup {None}
      /\ Phase(ModelOf(log \o events), step', currentTurn', written)
  BY <1>3, <1>4, <1>6, <1>7 DEF EngineTyping
<1> QED
  BY <1>1, <1>2, <1>3, <1>4, <1>7, <1>8, PushSame

LEMMA OnEnginePermissionStep ==
    ASSUME TranscriptInv, OnEnginePermission
    PROVE  TranscriptInv'
<1>1. /\ RequestPermission(allowed)
      /\ UNCHANGED <<currentTurn, lastTurn, allowed, link, sent>> /\ pageUnchanged
  BY DEF OnEnginePermission
<1>2. /\ sent' \in [Pages -> Seq(Asked(written))]
      /\ \A q \in Pages : Resuming(sent[q]) => Resuming(sent'[q])
  BY <1>1, SameCommands
<1>3. /\ written \subseteq Turns /\ EngineTyping /\ armed \subseteq Turns /\ allowed' \in BOOLEAN
      /\ log \in Seq(Sound(written)) /\ lastTurn' \in Turns \cup {None} /\ currentTurn' \in Turns \cup {None}
      /\ Phase(ModelOf(log), step, currentTurn, written) /\ (step # "idle" => currentTurn \in Turns)
  BY <1>1, DaemonFacts
<1>4. /\ step = "ticking" /\ step' = (IF allowed THEN "writing" ELSE "asking")
      /\ writes' = writes /\ interrupted' = interrupted
      /\ written' = written /\ link' = link /\ currentTurn' = currentTurn
  BY <1>1, Zenon DEF RequestPermission
<1>5. currentTurn \in Turns /\ Phase(ModelOf(log), "ticking", currentTurn, written)
  BY <1>3, <1>4
<1>6. armed' \subseteq Turns
  BY <1>1, <1>3, <1>5 DEF OnEnginePermission
<1> DEFINE t == currentTurn
<1>7. PICK events \in Seq(Sound(written)) :
        /\ Push(inbox, events)
        /\ Phase(ModelOf(log \o events), IF allowed THEN "writing" ELSE "asking", t, written)
  <2>1. CASE allowed
    <3> DEFINE a == System
               b == Status("tool-running")
               c == Event("tool_use", t, "Write")
    <3>1. <<a, b, c>> \in Seq(Sound(written)) /\ Phase(ModelOf(log \o <<a, b, c>>), "writing", t, written)
      BY <1>3, <1>5, AllowedRunPush
    <3>2. a \in Sound(Turns) /\ b \in Sound(Turns) /\ c \in Sound(Turns)
      BY <1>5, EventsAreSound, SessionEventsAreSound, Zenon DEF States
    <3>3. ForwardAll(SettleEmits(t, "approve")) = <<b, c>>
      BY <1>5, PushedRun
    <3>4. Push(inbox, <<a>> \o ForwardAll(SettleEmits(t, "approve")))
      BY <2>1, Zenon DEF OnEnginePermission
    <3> HIDE DEF a, b, c
    <3>5. <<a>> \o <<b, c>> = <<a, b, c>>
      BY <3>2, Concat12
    <3>6. Push(inbox, <<a, b, c>>)
      BY <3>3, <3>4, <3>5, Zenon
    <3> QED
      BY <2>1, <3>1, <3>6, Zenon
  <2>2. CASE ~allowed
    <3> DEFINE events == <<Status("awaiting-approval"), Event("permission_request", t, "")>>
    <3>1. events \in Seq(Sound(written)) /\ Phase(ModelOf(log \o events), "asking", t, written)
      BY <1>3, <1>5, AskPush
    <3>2. Push(inbox, events)
      BY <2>2, Zenon DEF OnEnginePermission
    <3> HIDE DEF events
    <3> QED
      BY <2>2, <3>1, <3>2, Zenon
  <2> QED
    BY <2>1, <2>2
<1>8. /\ step' \in {"idle", "ticking", "asking", "writing"} /\ writes' \in BOOLEAN /\ interrupted' \in BOOLEAN
      /\ Phase(ModelOf(log \o events), step', currentTurn', written)
  BY <1>3, <1>4, <1>7 DEF EngineTyping
<1> QED
  BY <1>1, <1>2, <1>3, <1>4, <1>6, <1>7, <1>8, PushSame

\* A request is settled: by an answer, or, behind a line about it, by its timer.
LEMMA SettleStep ==
    ASSUME TranscriptInv, NEW r, NEW decision \in {"approve", "deny"}, NEW before,
           before = <<>> \/ (before = <<System>> /\ decision = "deny"),
           SettleRequest(r, decision, before),
           armed' \subseteq Turns, allowed' \in BOOLEAN, UNCHANGED <<lastTurn, link>>, pageUnchanged,
           sent' \in [Pages -> Seq(Asked(written))],
           \A p \in Pages : Resuming(sent[p]) => Resuming(sent'[p])
    PROVE  TranscriptInv'
<1> DEFINE t == currentTurn
           settles == step = "asking" /\ currentTurn = r
           emitted == IF settles THEN SettleEmits(r, decision) ELSE <<>>
<1>1. /\ IF settles THEN Settle(decision) ELSE UNCHANGED engineVars
      /\ Push(inbox, before \o ForwardAll(emitted))
      /\ Close(emitted)
  BY Zenon DEF SettleRequest
<1>2. currentTurn' = IF Ends(emitted) THEN None ELSE currentTurn
  BY <1>1, CloseForm
<1>3. /\ written \subseteq Turns /\ EngineTyping
      /\ log \in Seq(Sound(written)) /\ lastTurn' \in Turns \cup {None} /\ currentTurn \in Turns \cup {None}
      /\ Phase(ModelOf(log), step, currentTurn, written) /\ (step # "idle" => currentTurn \in Turns)
  BY DaemonFacts
<1>4. SUFFICES /\ written' = written /\ writes' = writes /\ interrupted' = interrupted
               /\ step' \in {"idle", "ticking", "asking", "writing"} /\ currentTurn' \in Turns \cup {None}
               /\ \E events \in Seq(Sound(written)) :
                     /\ Push(inbox, events)
                     /\ Phase(ModelOf(log \o events), step', currentTurn', written)
  <2>1. written' = written /\ link' = link /\ writes' \in BOOLEAN /\ interrupted' \in BOOLEAN
    BY <1>3, <1>4 DEF EngineTyping
  <2> QED
    BY <1>3, <1>4, <2>1, PushSame
<1>5. CASE ~settles
  <2>1. emitted = <<>> /\ UNCHANGED engineVars
    BY <1>1, <1>5, Zenon
  <2>2. /\ written' = written /\ writes' = writes /\ interrupted' = interrupted /\ step' = step
        /\ currentTurn' = currentTurn
    BY <1>2, <2>1, EndsOf DEF engineVars
  <2>3. step' \in {"idle", "ticking", "asking", "writing"} /\ currentTurn' \in Turns \cup {None}
    BY <1>3, <2>2 DEF EngineTyping
  <2>4. Push(inbox, before \o <<>>)
    BY <1>1, <2>1, ForwardAll0
  <2>5. CASE before = <<>>
    <3>1. before \o <<>> = <<>> /\ log \o <<>> = log /\ <<>> \in Seq(Sound(written))
      BY <1>3, <2>5, ConcatEmptySeq, EmptySeq
    <3>2. Push(inbox, <<>>) /\ Phase(ModelOf(log \o <<>>), step', currentTurn', written)
      BY <1>3, <2>2, <2>4, <3>1, Zenon
    <3> QED
      BY <2>2, <2>3, <3>1, <3>2, Zenon
  <2>6. CASE before = <<System>>
    <3>1. <<System>> \in Seq(Sound(written)) /\ Phase(ModelOf(log \o <<System>>), step, currentTurn, written)
      BY <1>3, SystemPush
    <3>2. before \o <<>> = <<System>>
      BY <2>6, <3>1, ConcatEmptySeq
    <3>3. Push(inbox, <<System>>) /\ Phase(ModelOf(log \o <<System>>), step', currentTurn', written)
      BY <2>2, <2>4, <3>1, <3>2, Zenon
    <3> QED
      BY <2>2, <2>3, <3>1, <3>3, Zenon
  <2> QED
    BY <2>5, <2>6
<1>6. CASE settles
  <2>1. emitted = SettleEmits(t, decision) /\ Settle(decision)
    BY <1>1, <1>6, Zenon
  <2>2. /\ step = "asking" /\ step' = (IF decision = "approve" THEN "writing" ELSE "idle")
        /\ written' = written /\ writes' = writes /\ interrupted' = interrupted
    BY <2>1, Zenon DEF Settle
  <2>3. t \in Turns /\ Phase(ModelOf(log), "asking", t, written)
    BY <1>3, <2>2
  <2>4. Push(inbox, before \o ForwardAll(SettleEmits(t, decision)))
    BY <1>1, <2>1, Zenon
  <2> HIDE DEF t
  <2>5. CASE decision = "approve"
    <3> DEFINE events == <<Status("tool-running"), Event("tool_use", t, "Write")>>
    <3>1. events \in Seq(Sound(written)) /\ Phase(ModelOf(log \o events), "writing", t, written)
      BY <1>3, <2>3, RunPush
    <3>2. step' = "writing" /\ currentTurn' = t
      BY <1>2, <2>1, <2>2, <2>5, EndsOf DEF t
    <3>3. before = <<>>
      BY <2>5
    <3>4. ForwardAll(SettleEmits(t, decision)) = events
      BY <2>3, <2>5, PushedRun
    <3> HIDE DEF events
    <3>5. before \o ForwardAll(SettleEmits(t, decision)) = events
      BY <3>1, <3>3, <3>4, ConcatEmptySeq
    <3>6. Push(inbox, events)
      BY <2>4, <3>5, Zenon
    <3>7. step' \in {"idle", "ticking", "asking", "writing"} /\ currentTurn' \in Turns \cup {None}
      BY <2>3, <3>2
    <3> QED
      BY <2>2, <3>1, <3>2, <3>6, <3>7, Zenon
  <2>6. CASE decision = "deny"
    <3> DEFINE a == Event("tool_result", t, "failed")
               b == Message(t)
               c == Complete(t, "ok")
               d == Status("idle")
    <3>1. /\ <<a, b, c, d>> \in Seq(Sound(written))
          /\ Phase(ModelOf(log \o <<a, b, c, d>>), "idle", None, written)
      BY <1>3, <2>3, DenyPush
    <3>2. step' = "idle" /\ currentTurn' = None
      BY <1>2, <2>1, <2>2, <2>6, EndsOf
    <3>3. ForwardAll(SettleEmits(t, decision)) = <<a, b, c, d>>
      BY <2>3, <2>6, PushedDeny
    <3>4. /\ <<System, a, b, c, d>> \in Seq(Sound(written))
          /\ Phase(ModelOf(log \o <<System, a, b, c, d>>), "idle", None, written)
      BY <1>3, <2>3, TimeoutPush
    <3>5. /\ System \in Sound(Turns)
          /\ a \in Sound(Turns) /\ b \in Sound(Turns) /\ c \in Sound(Turns) /\ d \in Sound(Turns)
      BY <2>3, EventsAreSound, SessionEventsAreSound, Zenon DEF Message, Complete, States
    <3> HIDE DEF a, b, c, d
    <3>6. CASE before = <<>>
      <4>1. before \o <<a, b, c, d>> = <<a, b, c, d>>
        <5> DEFINE u == <<a, b, c, d>>
        <5>1. u \in Seq(Sound(written))
          BY <3>1
        <5> HIDE DEF u
        <5>2. <<>> \o u = u
          BY <5>1, ConcatEmptySeq
        <5> QED
          BY <3>6, <5>2, Zenon DEF u
      <4>2. Push(inbox, <<a, b, c, d>>)
        BY <2>4, <3>3, <4>1, Zenon
      <4> QED
        BY <2>2, <3>1, <3>2, <4>2
    <3>7. CASE before = <<System>>
      <4>1. <<System>> \o <<a, b, c, d>> = <<System, a, b, c, d>>
        BY <3>5, Concat14
      <4>2. Push(inbox, <<System, a, b, c, d>>)
        BY <2>4, <3>3, <3>7, <4>1, Zenon
      <4> QED
        BY <2>2, <3>2, <3>4, <4>2
    <3> QED
      BY <3>6, <3>7
  <2> QED
    BY <2>5, <2>6
<1> QED
  BY <1>5, <1>6

LEMMA OnPermissionResponseStep ==
    ASSUME TranscriptInv, NEW p \in Pages, OnPermissionResponse(p)
    PROVE  TranscriptInv'
<1> DEFINE cmd == Head(sent[p])
<1>1. /\ Handling(p, "permission_response") /\ Handled(p)
      /\ UNCHANGED <<lastTurn, link>> /\ pageUnchanged
  BY DEF OnPermissionResponse
<1>2. /\ sent' \in [Pages -> Seq(Asked(written))]
      /\ \A q \in Pages : Resuming(sent[q]) => Resuming(sent'[q])
      /\ cmd \in Asked(written) /\ cmd.type = "permission_response"
  BY <1>1, OneCommandLess
<1> HIDE DEF cmd
<1>3. cmd.of \in Turns /\ cmd.decision \in {"approve", "deny"}
  BY <1>2, CommandFields
<1>4. /\ written \subseteq Turns /\ EngineTyping /\ armed \subseteq Turns /\ allowed \in BOOLEAN
      /\ log \in Seq(Sound(written))
      /\ currentTurn \in Turns \cup {None} /\ lastTurn \in Turns \cup {None}
      /\ Phase(ModelOf(log), step, currentTurn, written)
  BY DaemonFacts
<1>5. \/ Push(inbox, <<System>>) /\ UNCHANGED <<engineVars, currentTurn, armed, allowed>>
      \/ /\ armed' = armed \ {cmd.of}
         /\ allowed' = (allowed \/ (cmd.decision = "approve" /\ cmd.scope = "session"))
         /\ SettleRequest(cmd.of, cmd.decision, <<>>)
  BY Zenon DEF OnPermissionResponse, cmd
<1>6. ASSUME Push(inbox, <<System>>), UNCHANGED <<engineVars, currentTurn, armed, allowed>>
      PROVE  TranscriptInv'
  <2> DEFINE events == <<System>>
  <2>1. events \in Seq(Sound(written)) /\ Phase(ModelOf(log \o events), step, currentTurn, written)
    BY <1>4, SystemPush
  <2>2. /\ Push(inbox, events)
        /\ step' = step /\ writes' = writes /\ interrupted' = interrupted /\ written' = written /\ link' = link
        /\ currentTurn' = currentTurn /\ lastTurn' = lastTurn /\ armed' = armed /\ allowed' = allowed
    BY <1>1, <1>6 DEF engineVars
  <2> HIDE DEF events
  <2>3. /\ step' \in {"idle", "ticking", "asking", "writing"} /\ writes' \in BOOLEAN /\ interrupted' \in BOOLEAN
        /\ currentTurn' \in Turns \cup {None} /\ lastTurn' \in Turns \cup {None}
        /\ armed' \subseteq Turns /\ allowed' \in BOOLEAN
        /\ Phase(ModelOf(log \o events), step', currentTurn', written)
    BY <1>4, <2>1, <2>2 DEF EngineTyping
  <2> QED
    BY <1>1, <1>2, <2>1, <2>2, <2>3, PushSame
<1>7. ASSUME armed' = armed \ {cmd.of},
             allowed' = (allowed \/ (cmd.decision = "approve" /\ cmd.scope = "session")),
             SettleRequest(cmd.of, cmd.decision, <<>>)
      PROVE  TranscriptInv'
  <2>1. armed' \subseteq Turns
    BY <1>4, <1>7
  <2>2. allowed' \in BOOLEAN
    BY <1>7
  <2> QED
    BY <1>1, <1>2, <1>3, <1>7, <2>1, <2>2, SettleStep
<1> QED
  BY <1>5, <1>6, <1>7

LEMMA TimeoutPermissionStep ==
    ASSUME TranscriptInv, NEW r \in Turns, TimeoutPermission(r)
    PROVE  TranscriptInv'
<1>1. /\ armed' = armed \ {r} /\ SettleRequest(r, "deny", <<System>>)
      /\ UNCHANGED <<lastTurn, allowed, link, sent>> /\ pageUnchanged
  BY DEF TimeoutPermission
<1>2. /\ sent' \in [Pages -> Seq(Asked(written))]
      /\ \A q \in Pages : Resuming(sent[q]) => Resuming(sent'[q])
  BY <1>1, SameCommands
<1>3. armed' \subseteq Turns /\ allowed' \in BOOLEAN
  BY <1>1, DaemonFacts
<1> DEFINE before == <<System>>
<1>4. before = <<>> \/ (before = <<System>> /\ "deny" = "deny")
  OBVIOUS
<1> HIDE DEF before
<1>5. SettleRequest(r, "deny", before) /\ "deny" \in {"approve", "deny"}
  BY <1>1 DEF before
<1> QED
  BY <1>1, <1>2, <1>3, <1>4, <1>5, SettleStep

LEMMA OnInterruptStep ==
    ASSUME TranscriptInv, NEW p \in Pages, OnInterrupt(p)
    PROVE  TranscriptInv'
<1>1. /\ Handling(p, "interrupt") /\ Handled(p) /\ Interrupt
      /\ Push(inbox, ForwardAll(InterruptEmits(currentTurn))) /\ Close(InterruptEmits(currentTurn))
      /\ UNCHANGED <<lastTurn, armed, allowed, link>> /\ pageUnchanged
  BY DEF OnInterrupt, Emit
<1>2. /\ sent' \in [Pages -> Seq(Asked(written))]
      /\ \A q \in Pages : Resuming(sent[q]) => Resuming(sent'[q])
  BY <1>1, OneCommandLess
<1>3. /\ written \subseteq Turns /\ EngineTyping /\ armed' \subseteq Turns /\ allowed' \in BOOLEAN
      /\ log \in Seq(Sound(written)) /\ lastTurn' \in Turns \cup {None} /\ currentTurn \in Turns \cup {None}
      /\ Phase(ModelOf(log), step, currentTurn, written) /\ (step # "idle" => currentTurn \in Turns)
  BY <1>1, DaemonFacts
<1>4. /\ step' = (IF step = "asking" THEN "idle" ELSE step) /\ writes' = writes /\ interrupted' = TRUE
      /\ written' = written /\ link' = link
  BY <1>1, Zenon DEF Interrupt
<1>5. currentTurn' = IF step = "asking" THEN None ELSE currentTurn
  BY <1>1, CloseForm, EndsOf
<1>6. PICK events \in Seq(Sound(written)) :
        /\ Push(inbox, events)
        /\ Phase(ModelOf(log \o events), step', currentTurn', written)
  <2>1. CASE step = "asking"
    <3> DEFINE events == <<Complete(currentTurn, "interrupted"), Status("idle")>>
    <3>1. currentTurn \in Turns /\ Phase(ModelOf(log), "asking", currentTurn, written)
      BY <1>3, <2>1
    <3>2. events \in Seq(Sound(written)) /\ Phase(ModelOf(log \o events), "idle", None, written)
      BY <1>3, <3>1, InterruptPush
    <3>3. InterruptEmits(currentTurn) = <<Complete(currentTurn, "interrupted")>>
      BY <2>1 DEF InterruptEmits
    <3>4. Push(inbox, events)
      BY <1>1, <3>1, <3>3, PushedInterrupt
    <3> HIDE DEF events
    <3>5. step' = "idle" /\ currentTurn' = None
      BY <1>4, <1>5, <2>1
    <3> QED
      BY <3>2, <3>4, <3>5, Zenon
  <2>2. CASE step # "asking"
    <3>1. InterruptEmits(currentTurn) = <<>> /\ step' = step /\ currentTurn' = currentTurn
      BY <1>4, <1>5, <2>2, Zenon DEF InterruptEmits
    <3>2. Push(inbox, <<>>)
      BY <1>1, <3>1, ForwardAll0, Zenon
    <3>3. <<>> \in Seq(Sound(written)) /\ log \o <<>> = log
      BY <1>3, EmptySeq, ConcatEmptySeq
    <3>4. Phase(ModelOf(log \o <<>>), step', currentTurn', written)
      BY <1>3, <3>1, <3>3, Zenon
    <3> QED
      BY <3>2, <3>3, <3>4, Zenon
  <2> QED
    BY <2>1, <2>2
<1>7. /\ step' \in {"idle", "ticking", "asking", "writing"} /\ writes' \in BOOLEAN /\ interrupted' \in BOOLEAN
      /\ currentTurn' \in Turns \cup {None}
  BY <1>3, <1>4, <1>5 DEF EngineTyping
<1> QED
  BY <1>1, <1>2, <1>3, <1>4, <1>6, <1>7, PushSame

LEMMA WriteEndsStep ==
    ASSUME TranscriptInv, NEW ok \in BOOLEAN, WriteEnds(ok)
    PROVE  TranscriptInv'
<1> DEFINE t == currentTurn
<1>1. /\ FinishWrite(t, ok) /\ Push(inbox, ForwardAll(FinishWriteEmits(t, ok))) /\ Close(FinishWriteEmits(t, ok))
      /\ UNCHANGED <<lastTurn, armed, allowed, link, sent>> /\ pageUnchanged
  BY DEF WriteEnds, Emit
<1>2. /\ sent' \in [Pages -> Seq(Asked(written))]
      /\ \A q \in Pages : Resuming(sent[q]) => Resuming(sent'[q])
  BY <1>1, SameCommands
<1>3. /\ written \subseteq Turns /\ EngineTyping /\ armed' \subseteq Turns /\ allowed' \in BOOLEAN
      /\ log \in Seq(Sound(written)) /\ lastTurn' \in Turns \cup {None}
      /\ Phase(ModelOf(log), step, t, written) /\ (step # "idle" => t \in Turns)
  BY <1>1, DaemonFacts
<1>4. /\ step = "writing" /\ step' = "idle" /\ writes' = writes /\ interrupted' = interrupted
      /\ written' = (IF ok THEN written \cup {t} ELSE written) /\ link' = link
  BY <1>1 DEF FinishWrite
<1>5. t \in Turns /\ Phase(ModelOf(log), "writing", t, written)
  BY <1>3, <1>4
<1>6. currentTurn' = None
  BY <1>1, CloseForm, EndsOf
<1>7. written \subseteq written' /\ written' \subseteq Turns /\ EngineTyping'
  BY <1>3, <1>4, <1>5 DEF EngineTyping
<1> HIDE DEF t
<1>8. PICK events \in Seq(Sound(written')) :
        /\ Push(inbox, events)
        /\ Phase(ModelOf(log \o events), "idle", None, written')
  <2>1. CASE ok = TRUE
    <3> DEFINE events == <<Event("tool_stream", t, ""), Event("tool_result", t, "ok"), Message(t), Complete(t, "ok"),
                           Status("idle")>>
               V == written \cup {t}
    <3>1. written' = V
      BY <1>4, <2>1
    <3>2. log \in Seq(Sound(V))
      BY <1>3, SoundGrows, SeqsGrow
    <3>3. events \in Seq(Sound(V)) /\ Phase(ModelOf(log \o events), "idle", None, V)
      BY <1>3, <1>5, <3>2, WrittenPush
    <3>4. ForwardAll(FinishWriteEmits(t, ok)) = events
      BY <1>5, <2>1, PushedWritten
    <3> HIDE DEF events, V
    <3>5. Push(inbox, events)
      BY <1>1, <3>4, Zenon
    <3> QED
      BY <3>1, <3>3, <3>5, Zenon
  <2>2. CASE ok = FALSE
    <3> DEFINE events == <<Event("tool_result", t, "failed"), Event("error", t, ""), Complete(t, "error"),
                           Status("idle")>>
    <3>1. written' = written
      BY <1>4, <2>2
    <3>3. events \in Seq(Sound(written)) /\ Phase(ModelOf(log \o events), "idle", None, written)
      BY <1>3, <1>5, FailedPush
    <3>4. ForwardAll(FinishWriteEmits(t, ok)) = events
      BY <1>5, <2>2, PushedFailed
    <3> HIDE DEF events
    <3>5. Push(inbox, events)
      BY <1>1, <3>4, Zenon
    <3> QED
      BY <3>1, <3>3, <3>5, Zenon
  <2> QED
    BY <2>1, <2>2
<1>9. log' = log \o events /\ inbox' = Broadcast(events)
  BY <1>8, Zenon DEF Push, Broadcast
<1>10. currentTurn' \in Turns \cup {None} /\ Phase(ModelOf(log \o events), step', currentTurn', written')
  BY <1>4, <1>6, <1>8
<1> QED
  BY <1>1, <1>2, <1>3, <1>4, <1>7, <1>8, <1>9, <1>10, PushStep

-----------------------------------------------------------------------------
(* The Session's answers to one page.                                      *)

\* The last status of a log that has one.
LEMMA LastStatusFacts ==
    ASSUME TranscriptInv
    PROVE  LastStatus(log) \in Sound(written) /\ LastStatus(log).type = "session_status"
<1> DEFINE n == Len(log)
           S == {i \in 1..n : log[i].type = "session_status"}
           F == {k \in Nat : \E i \in S : k = n - i}
<1>1. log \in Seq(Sound(written)) /\ log # <<>> /\ log[1].type = "session_status"
  BY DEF TranscriptInv, Typing
<1>2. n \in Nat /\ n >= 1 /\ DOMAIN log = 1..n
  BY <1>1
<1>3. {i \in DOMAIN log : log[i].type = "session_status"} = S
  BY <1>2
<1> HIDE DEF n
<1>4. 1 \in S /\ S \subseteq 1..n
  BY <1>1, <1>2
<1> HIDE DEF S
<1>5. F \in SUBSET Nat /\ F # {}
  <2>1. n - 1 \in F
    BY <1>2, <1>4
  <2> QED
    BY <2>1
<1>6. PICK least \in F : \A k \in F : ~(<<k, least>> \in Below)
  BY <1>5, BelowIsWellFounded, WFMin
<1>7. PICK last \in S : least = n - last
  BY <1>6
<1>8. ASSUME NEW i \in S PROVE last >= i
  <2>1. n - i \in F /\ n - i \in Nat /\ least \in Nat
    BY <1>2, <1>4, <1>6
  <2>2. ~(n - i < least)
    BY <1>6, <2>1 DEF Below
  <2> QED
    BY <1>2, <1>4, <1>7, <2>1, <2>2
<1>9. Max(S) \in S
  BY <1>8, Zenon DEF Max
<1>10. LastStatus(log) = log[Max(S)]
  BY <1>3, Zenon DEF LastStatus
<1>11. \A i \in S : log[i] \in Sound(written) /\ log[i].type = "session_status"
  BY <1>1, <1>2, <1>4, ElementOfSeq DEF S, n
<1> QED
  BY <1>9, <1>10, <1>11, Zenon

\* Steps that push nothing leave the journal as it is.
LEMMA QuietStep ==
    ASSUME TranscriptInv, UNCHANGED <<engineVars, sessionVars, log>>,
           link' \in [Pages -> {"off", "open", "on"}],
           sent' \in [Pages -> Seq(Asked(written))],
           inbox' \in [Pages -> Seq(FrameSet(Len(log), written))],
           got' \in [Pages -> SUBSET Honest],
           highestSeq' \in [Pages -> 0..Len(log)],
           page' \in [Pages -> Models(written)], \A p \in Pages : Model(page'[p], written),
           gapped' \cup cut' \subseteq Pages,
           answered' \in [Pages -> Turns \cup {None}], rewound' \in [Pages -> Turns \cup {None}],
           \A p \in Pages : Agrees(p)',
           \A p \in Pages : CatchingUp(p)'
    PROVE  TranscriptInv'
<1>1. /\ step' = step /\ writes' = writes /\ interrupted' = interrupted /\ written' = written
      /\ currentTurn' = currentTurn /\ lastTurn' = lastTurn /\ armed' = armed /\ allowed' = allowed
      /\ log' = log
  BY DEF engineVars, sessionVars
<1>2. /\ EngineTyping'
      /\ currentTurn' \in Turns \cup {None} /\ lastTurn' \in Turns \cup {None}
      /\ armed' \subseteq Turns /\ allowed' \in BOOLEAN
      /\ log' \in Seq(Sound(written)) /\ log' # <<>> /\ log'[1].type = "session_status"
  BY <1>1 DEF TranscriptInv, Typing, EngineTyping
<1>3. Typing'
  BY <1>1, <1>2, Zenon DEF Typing
<1>4. PhaseInv'
  BY <1>1, Zenon DEF TranscriptInv, PhaseInv
<1> QED
  BY <1>3, <1>4, Zenon DEF TranscriptInv, AgreeInv, CatchInv

LEMMA SameLogAgrees ==
    ASSUME TranscriptInv, log' = log, NEW p \in Pages,
           page'[p] = page[p], highestSeq'[p] = highestSeq[p],
           p \in gapped => p \in gapped', p \in cut => p \in cut',
           answered'[p] = answered[p], rewound'[p] = rewound[p]
    PROVE  Agrees(p)'
<1>1. Agrees(p) /\ SubSeq(log', 1, highestSeq[p]) = SubSeq(log, 1, highestSeq[p])
  BY DEF TranscriptInv, AgreeInv
<1> QED
  BY <1>1, StillAgrees, Zenon

LEMMA Concatenated ==
    ASSUME NEW S, NEW s \in Seq(S), NEW t \in Seq(S)
    PROVE  /\ s \o t \in Seq(S) /\ Len(s \o t) = Len(s) + Len(t)
           /\ \A i \in DOMAIN s : i \in DOMAIN (s \o t) /\ (s \o t)[i] = s[i]
<1>1. /\ s \o t \in Seq(S) /\ Len(s \o t) = Len(s) + Len(t)
      /\ \A i \in 1..(Len(s) + Len(t)) : (s \o t)[i] = IF i <= Len(s) THEN s[i] ELSE t[i - Len(s)]
  BY ConcatProperties
<1>2. Len(s) \in Nat /\ Len(t) \in Nat /\ DOMAIN s = 1..Len(s) /\ DOMAIN (s \o t) = 1..Len(s \o t)
  BY <1>1
<1>3. ASSUME NEW i \in DOMAIN s PROVE i \in DOMAIN (s \o t) /\ (s \o t)[i] = s[i]
  <2> DEFINE r == s \o t
  <2>1. i \in 1..Len(s) /\ i \in 1..(Len(s) + Len(t)) /\ i \in 1..Len(r) /\ i <= Len(s)
    BY <1>1, <1>2
  <2> QED
    BY <1>1, <1>2, <2>1, Zenon
<1> QED
  BY <1>1, <1>3

\* Steps in which the daemon answers one page.
LEMMA ReplyStep ==
    ASSUME TranscriptInv, UNCHANGED <<engineVars, sessionVars, log, link>>, pageUnchanged,
           NEW p \in Pages, NEW frames \in Seq(FrameSet(Len(log), written)),
           inbox' = IF link[p] = "off" THEN inbox ELSE [inbox EXCEPT ![p] = @ \o frames],
           sent' \in [Pages -> Seq(Asked(written))],
           \A q \in Pages : \/ Resuming(sent[q]) => Resuming(sent'[q])
                            \/ q = p /\ \E i \in DOMAIN frames : frames[i].seq = Len(log)
    PROVE  TranscriptInv'
<1> DEFINE F == FrameSet(Len(log), written)
<1>0. UNCHANGED <<highestSeq, page, gapped, cut, answered, rewound, got>>
  BY DEF pageUnchanged, history
<1>1. /\ link \in [Pages -> {"off", "open", "on"}] /\ inbox \in [Pages -> Seq(F)]
      /\ got \in [Pages -> SUBSET Honest] /\ highestSeq \in [Pages -> 0..Len(log)]
      /\ page \in [Pages -> Models(written)] /\ (\A q \in Pages : Model(page[q], written))
      /\ gapped \cup cut \subseteq Pages
      /\ answered \in [Pages -> Turns \cup {None}] /\ rewound \in [Pages -> Turns \cup {None}]
  BY DEF TranscriptInv, Typing
<1> HIDE DEF F
<1>2. frames \in Seq(F)
  BY DEF F
<1> DEFINE longer == inbox[p] \o frames
<1>3. /\ longer \in Seq(F)
      /\ \A i \in DOMAIN inbox[p] : i \in DOMAIN longer /\ longer[i] = inbox[p][i]
  BY <1>1, <1>2, Concatenated
<1>4. (\E i \in DOMAIN frames : frames[i].seq = Len(log)) => \E i \in DOMAIN longer : longer[i].seq = Len(log)
  <2> SUFFICES ASSUME NEW i \in DOMAIN frames, frames[i].seq = Len(log)
               PROVE  \E j \in DOMAIN longer : longer[j].seq = Len(log)
    OBVIOUS
  <2>1. i \in 1..Len(frames) /\ inbox[p] \in Seq(F)
    BY <1>1, <1>2
  <2>2. Len(inbox[p]) + i \in DOMAIN longer /\ longer[Len(inbox[p]) + i] = frames[i]
    BY <1>2, <2>1, ConcatAt
  <2> QED
    BY <2>2
<1> HIDE DEF longer
<1>5. /\ inbox' \in [Pages -> Seq(F)]
      /\ link[p] # "off" => inbox'[p] = longer
      /\ \A q \in Pages : q # p \/ link[p] = "off" => inbox'[q] = inbox[q]
  BY <1>1, <1>3 DEF longer
<1>6. ASSUME NEW q \in Pages PROVE Agrees(q)'
  BY <1>0, SameLogAgrees
<1>7. ASSUME NEW q \in Pages PROVE CatchingUp(q)'
  <2>1. CatchingUp(q) /\ log' = log /\ link' = link /\ highestSeq' = highestSeq
    BY <1>0 DEF TranscriptInv, CatchInv
  <2>2. SUFFICES ASSUME link[q] = "on"
                 PROVE  \/ Resuming(sent'[q])
                        \/ \E i \in DOMAIN inbox'[q] : inbox'[q][i].seq = Len(log)
                        \/ highestSeq[q] = Len(log)
    BY <2>1, Zenon DEF CatchingUp, Resuming
  <2>3. \/ Resuming(sent[q])
        \/ \E i \in DOMAIN inbox[q] : inbox[q][i].seq = Len(log)
        \/ highestSeq[q] = Len(log)
    BY <2>1, <2>2, Zenon DEF CatchingUp, Resuming
  <2>4. (\E i \in DOMAIN inbox[q] : inbox[q][i].seq = Len(log))
           => \E i \in DOMAIN inbox'[q] : inbox'[q][i].seq = Len(log)
    <3>1. CASE q = p
      <4>1. inbox'[q] = longer /\ inbox[q] = inbox[p]
        BY <1>5, <2>2, <3>1
      <4> QED
        BY <1>3, <4>1, Zenon
    <3>2. CASE q # p
      BY <1>5, <3>2, Zenon
    <3> QED
      BY <3>1, <3>2
  <2>5. CASE Resuming(sent[q]) => Resuming(sent'[q])
    BY <2>3, <2>4, <2>5, Zenon
  <2>6. CASE q = p /\ \E i \in DOMAIN frames : frames[i].seq = Len(log)
    <3>1. inbox'[q] = longer
      BY <1>5, <2>2, <2>6
    <3> QED
      BY <1>4, <2>6, <3>1, Zenon
  <2> QED
    BY <2>5, <2>6
<1>8. /\ link' \in [Pages -> {"off", "open", "on"}] /\ inbox' \in [Pages -> Seq(FrameSet(Len(log), written))]
      /\ got' \in [Pages -> SUBSET Honest] /\ highestSeq' \in [Pages -> 0..Len(log)]
      /\ page' \in [Pages -> Models(written)] /\ (\A q \in Pages : Model(page'[q], written))
      /\ gapped' \cup cut' \subseteq Pages
      /\ answered' \in [Pages -> Turns \cup {None}] /\ rewound' \in [Pages -> Turns \cup {None}]
  BY <1>0, <1>1, <1>5 DEF F
<1>9. UNCHANGED <<engineVars, sessionVars, log>>
  OBVIOUS
<1> QED
  BY <1>6, <1>7, <1>8, <1>9, QuietStep, Zenon

LEMMA OnResumeStep ==
    ASSUME TranscriptInv, NEW p \in Pages, OnResume(p)
    PROVE  TranscriptInv'
<1> DEFINE since == Head(sent[p]).since
           F == FrameSet(Len(log), written)
           missed == SubSeq(log, since + 1, Len(log))
           snapshot == [seq |-> Len(log), event |-> LastStatus(log)]
           frames == Frames(missed, since) \o <<snapshot>>
<1>1. /\ Handling(p, "resume") /\ Handled(p)
      /\ inbox' = IF link[p] = "off" THEN inbox ELSE [inbox EXCEPT ![p] = @ \o frames]
      /\ UNCHANGED <<engineVars, sessionVars, log, link>> /\ pageUnchanged
  BY Zenon DEF OnResume
<1>2. sent \in [Pages -> Seq(Asked(written))] /\ log \in Seq(Sound(written)) /\ log # <<>>
  BY DEF TranscriptInv, Typing
<1>3. /\ sent' \in [Pages -> Seq(Asked(written))]
      /\ Head(sent[p]) \in Asked(written) /\ Head(sent[p]).type = "resume"
      /\ \A q \in Pages : q # p => sent'[q] = sent[q]
  BY <1>1, <1>2, HandledFacts
<1>4. since \in Nat /\ Len(log) \in Nat /\ Len(log) >= 1
  BY <1>2, <1>3, CommandFields
<1>5. snapshot \in F
  <2>1. LastStatus(log) \in Sound(written) /\ Len(log) \in 1..Len(log)
    BY <1>4, LastStatusFacts
  <2> QED
    BY <2>1 DEF FrameSet
<1> HIDE DEF since
<1>6. Frames(missed, since) \in Seq(F)
  <2>1. missed \in Seq(Sound(written)) /\ Len(missed) = IF since < Len(log) THEN Len(log) - since ELSE 0
    BY <1>2, <1>4, SubSeqProperties
  <2> HIDE DEF missed
  <2>2. Frames(missed, since) \in Seq(FrameSet(since + Len(missed), written))
        /\ Len(Frames(missed, since)) = Len(missed)
    BY <1>4, <2>1, FramesFacts
  <2>3. CASE since < Len(log)
    <3>1. since + Len(missed) = Len(log)
      BY <1>4, <2>1, <2>3
    <3> QED
      BY <2>2, <3>1
  <2>4. CASE ~(since < Len(log))
    <3>1. Frames(missed, since) = <<>>
      BY <2>1, <2>2, <2>4, EmptySeq
    <3> QED
      BY <3>1, EmptySeq
  <2> QED
    BY <2>3, <2>4
<1>7. snapshot.seq = Len(log)
  OBVIOUS
<1> HIDE DEF missed, snapshot
<1>8. <<snapshot>> \in Seq(F) /\ <<snapshot>>[1] = snapshot /\ 1 \in 1..Len(<<snapshot>>)
  BY <1>5
<1>9. frames \in Seq(F) /\ \E i \in DOMAIN frames : frames[i].seq = Len(log)
  <2>1. frames \in Seq(F)
    BY <1>6, <1>8, ConcatProperties
  <2>2. Len(Frames(missed, since)) + 1 \in DOMAIN frames /\ frames[Len(Frames(missed, since)) + 1] = <<snapshot>>[1]
    BY <1>6, <1>8, ConcatAt
  <2> QED
    BY <1>7, <1>8, <2>1, <2>2, Zenon
<1> HIDE DEF frames
<1>10. \A q \in Pages : \/ Resuming(sent[q]) => Resuming(sent'[q])
                        \/ q = p /\ \E i \in DOMAIN frames : frames[i].seq = Len(log)
  BY <1>3, <1>9, Zenon
<1> QED
  BY <1>1, <1>3, <1>9, <1>10, ReplyStep

\* What readFile() may find for a card: of a turn whose write succeeded, its content or a later turn's.
LEMMA ReadableFacts ==
    ASSUME TranscriptInv, FilesInv, NEW t \in Turns, NEW version \in Readable(PathOf[t])
    PROVE  /\ version \in Versions
           /\ t \in written => /\ version.by >= t /\ PathOf[version.by] = PathOf[t]
                               /\ version.by = t => version.part = "whole"
<1>1. PathOf[t] \in Paths
  BY PathOfAssumption
<1>2. CASE version = file[PathOf[t]]
  <2>1. version \in Versions
    BY <1>1, <1>2 DEF FilesInv
  <2>2. ASSUME t \in written PROVE version.by >= t /\ (version.by = t => version.part = "whole")
    BY <1>2, <2>2 DEF FilesInv
  <2>3. ASSUME t \in written PROVE version.by # None
    BY <2>2, <2>3, MaxTurnsAssumption DEF Turns, None
  <2>4. version.by # None => PathOf[version.by] = PathOf[t]
    BY <1>1, <1>2 DEF FilesInv
  <2> QED
    BY <2>1, <2>2, <2>3, <2>4
<1>3. CASE version # file[PathOf[t]]
  <2>1. /\ step = "writing" /\ PathOf[currentTurn] = PathOf[t]
        /\ version \in {Version(currentTurn, "half"), Version(currentTurn, "whole")}
    BY <1>3 DEF Readable
  <2>2. currentTurn \in Turns
    BY <2>1, DaemonFacts
  <2>3. version \in Versions /\ version.by = currentTurn
    <3>1. ASSUME NEW part \in {"whole", "half"}
          PROVE  Version(currentTurn, part) \in Versions /\ Version(currentTurn, part).by = currentTurn
      BY <2>2 DEF Versions, Version
    <3> QED
      BY <2>1, <3>1
  <2>4. ASSUME t \in written PROVE currentTurn > t
    <3>1. currentTurn # None
      BY <2>2, MaxTurnsAssumption DEF Turns, None
    <3>2. t <= lastTurn /\ currentTurn = lastTurn /\ t # currentTurn
      BY <2>4, <3>1 DEF FilesInv
    <3> QED
      BY <2>2, <3>2, MaxTurnsAssumption DEF Turns
  <2> QED
    BY <2>1, <2>2, <2>3, <2>4, MaxTurnsAssumption DEF Turns
<1> QED
  BY <1>2, <1>3

\* What a card is served of what was found.
LEMMA ServedFacts ==
    ASSUME NEW version \in Versions, NEW via \in {"file", "zip"}, NEW what \in Served(version, via)
    PROVE  /\ what \in {"whole", "half", "cut", "error"} /\ version.by \in Turns \cup {None}
           /\ via = "zip" /\ version.by \in Turns =>
                 \/ what = IF version.by \in Large THEN "error" ELSE "whole"
                 \/ what = "half" /\ version.part = "half"
<1>1. version.by \in Turns \cup {None} /\ (version # Missing => version.part \in {"whole", "half"})
  BY DEF Versions, Version, Missing, None
<1>2. version.by \in Turns => version # Missing
  BY MaxTurnsAssumption DEF Missing, Version, Turns
<1>3. what \in {"whole", "half", "cut", "error"}
  BY <1>1 DEF Served
<1>4. ASSUME via = "zip", version.by \in Turns
      PROVE  \/ what = IF version.by \in Large THEN "error" ELSE "whole"
             \/ what = "half" /\ version.part = "half"
  BY <1>1, <1>2, <1>4 DEF Served
<1> QED
  BY <1>1, <1>3, <1>4

LEMMA OnDownloadStep ==
    ASSUME TranscriptInv, FilesInv, NEW p \in Pages, OnDownload(p)
    PROVE  TranscriptInv'
<1> DEFINE cmd == Head(sent[p])
<1>1. /\ Handling(p, "download") /\ Handled(p)
      /\ UNCHANGED <<engineVars, sessionVars, log, link>> /\ pageUnchanged
  BY Zenon DEF OnDownload
<1>2. PICK version \in Readable(PathOf[cmd.of]) : \E what \in Served(version, cmd.via) :
        inbox' = IF link[p] = "off" THEN inbox
                 ELSE [inbox EXCEPT ![p] = Append(@, [seq |-> 0, event |->
                                              FileData(cmd.of, cmd.via, version.by, what)])]
  BY Zenon DEF OnDownload
<1>3. PICK what \in Served(version, cmd.via) :
        inbox' = IF link[p] = "off" THEN inbox
                 ELSE [inbox EXCEPT ![p] = Append(@, [seq |-> 0, event |->
                                              FileData(cmd.of, cmd.via, version.by, what)])]
  BY <1>2, Zenon
<1>4. /\ sent' \in [Pages -> Seq(Asked(written))]
      /\ \A q \in Pages : Resuming(sent[q]) => Resuming(sent'[q])
      /\ cmd \in Asked(written) /\ cmd.type = "download"
  BY <1>1, OneCommandLess
<1> HIDE DEF cmd
<1>5. cmd.of \in Turns /\ cmd.via \in {"file", "zip"} /\ (cmd.via = "zip" => cmd.of \in written)
  BY <1>4, CommandFields
<1> DEFINE reply == FileData(cmd.of, cmd.via, version.by, what)
           frame == [seq |-> 0, event |-> reply]
           F == FrameSet(Len(log), written)
<1>6. /\ version \in Versions
      /\ cmd.of \in written => /\ version.by >= cmd.of /\ PathOf[version.by] = PathOf[cmd.of]
                               /\ version.by = cmd.of => version.part = "whole"
  <2>1. \A t \in Turns : \A v \in Readable(PathOf[t]) :
           /\ v \in Versions
           /\ t \in written => /\ v.by >= t /\ PathOf[v.by] = PathOf[t]
                               /\ v.by = t => v.part = "whole"
    BY ReadableFacts
  <2>2. cmd.of \in Turns /\ version \in Readable(PathOf[cmd.of])
    BY <1>5
  <2> QED
    BY <2>1, <2>2
<1>7. /\ what \in {"whole", "half", "cut", "error"} /\ version.by \in Turns \cup {None}
      /\ cmd.via = "zip" /\ version.by \in Turns =>
            \/ what = IF version.by \in Large THEN "error" ELSE "whole"
            \/ what = "half" /\ version.part = "half"
  BY <1>3, <1>5, <1>6, ServedFacts
<1>8. frame \in F
  <2>1. reply \in Downloads
    BY <1>5, <1>7 DEF FileData, Downloads
  <2>2. reply.via = cmd.via /\ reply.what = what /\ reply.of = cmd.of /\ reply.by = version.by
    BY DEF FileData
  <2> HIDE DEF reply
  <2>3. ASSUME cmd.via = "zip" PROVE Finished(reply) \/ Spoilt(reply)
    <3>1. version.by \in Turns /\ (version.by > cmd.of \/ version.by = cmd.of)
      BY <1>5, <1>6, <1>7, <2>3, MaxTurnsAssumption DEF Turns, None
    <3> QED
      BY <1>5, <1>6, <1>7, <2>2, <2>3, <3>1 DEF Finished, Spoilt
  <2>4. reply \in Honest
    BY <2>1, <2>2, <2>3 DEF Honest
  <2> QED
    BY <2>4 DEF FrameSet
<1>9. inbox \in [Pages -> Seq(F)]
  BY DEF TranscriptInv, Typing
<1>10. inbox' = IF link[p] = "off" THEN inbox ELSE [inbox EXCEPT ![p] = Append(@, frame)]
  BY <1>3, Zenon
<1> HIDE DEF frame
<1> DEFINE frames == <<frame>>
<1>11. frames \in Seq(F) /\ Append(inbox[p], frame) = inbox[p] \o frames
  <2> HIDE DEF F
  <2> QED
    BY <1>8, <1>9, AppendIsConcat
<1> HIDE DEF frames
<1>12. inbox' = IF link[p] = "off" THEN inbox ELSE [inbox EXCEPT ![p] = @ \o frames]
  BY <1>10, <1>11
<1> QED
  BY <1>1, <1>4, <1>11, <1>12, ReplyStep

-----------------------------------------------------------------------------
(* The steps of the pages.                                                 *)

LEMMA PageFacts ==
    ASSUME TranscriptInv
    PROVE  /\ written \subseteq Turns /\ log \in Seq(Sound(written)) /\ Len(log) \in Nat \ {0}
           /\ link \in [Pages -> {"off", "open", "on"}] /\ sent \in [Pages -> Seq(Asked(written))]
           /\ inbox \in [Pages -> Seq(FrameSet(Len(log), written))]
           /\ got \in [Pages -> SUBSET Honest] /\ highestSeq \in [Pages -> 0..Len(log)]
           /\ page \in [Pages -> Models(written)] /\ (\A p \in Pages : Model(page[p], written))
           /\ gapped \subseteq Pages /\ cut \subseteq Pages
           /\ answered \in [Pages -> Turns \cup {None}] /\ rewound \in [Pages -> Turns \cup {None}]
           /\ \A p \in Pages : Agrees(p) /\ CatchingUp(p)
<1>1. /\ written \subseteq Turns /\ log \in Seq(Sound(written)) /\ log # <<>>
      /\ link \in [Pages -> {"off", "open", "on"}] /\ sent \in [Pages -> Seq(Asked(written))]
      /\ inbox \in [Pages -> Seq(FrameSet(Len(log), written))]
      /\ got \in [Pages -> SUBSET Honest] /\ highestSeq \in [Pages -> 0..Len(log)]
      /\ page \in [Pages -> Models(written)] /\ (\A p \in Pages : Model(page[p], written))
      /\ gapped \subseteq Pages /\ cut \subseteq Pages
      /\ answered \in [Pages -> Turns \cup {None}] /\ rewound \in [Pages -> Turns \cup {None}]
  BY DEF TranscriptInv, Typing, EngineTyping
<1>2. Len(log) \in Nat \ {0}
  BY <1>1
<1> QED
  BY <1>1, <1>2, Zenon DEF TranscriptInv, AgreeInv, CatchInv

LEMMA SendCommandFacts ==
    ASSUME NEW W, sent \in [Pages -> Seq(Asked(W))], NEW p \in Pages, NEW cmd \in Asked(W), SendCommand(p, cmd)
    PROVE  /\ sent' \in [Pages -> Seq(Asked(W))]
           /\ \A q \in Pages : Resuming(sent[q]) => Resuming(sent'[q])
           /\ cmd.type = "resume" /\ link[p] # "off" => Resuming(sent'[p])
           /\ \A q \in Pages : q # p => sent'[q] = sent[q]
<1> DEFINE S == Asked(W)
           longer == Append(sent[p], cmd)
<1>1. sent \in [Pages -> Seq(S)] /\ sent[p] \in Seq(S) /\ cmd \in S
  OBVIOUS
<1>2. sent' = IF link[p] = "off" THEN sent ELSE [sent EXCEPT ![p] = longer]
  BY Zenon DEF SendCommand
<1> HIDE DEF S
<1>3. /\ longer \in Seq(S) /\ Len(sent[p]) \in Nat /\ DOMAIN longer = 1..(Len(sent[p]) + 1)
      /\ longer[Len(sent[p]) + 1] = cmd /\ DOMAIN sent[p] = 1..Len(sent[p])
      /\ \A i \in 1..Len(sent[p]) : longer[i] = sent[p][i]
  BY <1>1
<1> HIDE DEF longer
<1>4. (Resuming(sent[p]) => Resuming(longer)) /\ (cmd.type = "resume" => Resuming(longer))
  <2>1. \A i \in 1..Len(sent[p]) : i \in DOMAIN longer
    BY <1>3
  <2>2. Len(sent[p]) + 1 \in DOMAIN longer
    BY <1>3
  <2> QED
    BY <1>3, <2>1, <2>2, Zenon DEF Resuming
<1>5. CASE link[p] = "off"
  BY <1>1, <1>2, <1>5, Zenon DEF S
<1>6. CASE link[p] # "off"
  <2>1. /\ sent' \in [Pages -> Seq(S)] /\ sent'[p] = longer
        /\ \A q \in Pages : q # p => sent'[q] = sent[q]
    BY <1>1, <1>2, <1>3, <1>6
  <2> QED
    BY <1>4, <1>6, <2>1, Zenon DEF S
<1> QED
  BY <1>5, <1>6

LEMMA StillCatching ==
    ASSUME TranscriptInv, log' = log, NEW q \in Pages,
           link'[q] = link[q], Resuming(sent[q]) => Resuming(sent'[q]),
           inbox'[q] = inbox[q], highestSeq'[q] = highestSeq[q]
    PROVE  CatchingUp(q)'
<1>1. CatchingUp(q)
  BY PageFacts
<1> QED
  BY <1>1, Zenon DEF CatchingUp, Resuming

LEMMA OnlySent ==
    ASSUME TranscriptInv, daemonUnchanged, UNCHANGED <<link, inbox, highestSeq, page, history>>,
           sent' \in [Pages -> Seq(Asked(written))],
           \A q \in Pages : Resuming(sent[q]) => Resuming(sent'[q])
    PROVE  TranscriptInv'
<1>1. UNCHANGED <<engineVars, sessionVars, log>> /\ log' = log
      /\ UNCHANGED <<link, inbox, highestSeq, page, gapped, cut, answered, rewound, got>>
  BY DEF daemonUnchanged, history
<1>2. \A q \in Pages : Agrees(q)'
  BY <1>1, SameLogAgrees
<1>3. \A q \in Pages : CatchingUp(q)'
  BY <1>1, StillCatching
<1>4. /\ link' \in [Pages -> {"off", "open", "on"}] /\ inbox' \in [Pages -> Seq(FrameSet(Len(log), written))]
      /\ got' \in [Pages -> SUBSET Honest] /\ highestSeq' \in [Pages -> 0..Len(log)]
      /\ page' \in [Pages -> Models(written)] /\ (\A q \in Pages : Model(page'[q], written))
      /\ gapped' \cup cut' \subseteq Pages
      /\ answered' \in [Pages -> Turns \cup {None}] /\ rewound' \in [Pages -> Turns \cup {None}]
  BY <1>1, PageFacts
<1> QED
  BY <1>1, <1>2, <1>3, <1>4, QuietStep, Zenon

\* A step that changes what one page shows, where it stands in the journal or what is known of it.
LEMMA OnePage ==
    ASSUME TranscriptInv, daemonUnchanged, UNCHANGED <<link, got>>, NEW p \in Pages,
           sent' \in [Pages -> Seq(Asked(written))],
           \A q \in Pages : Resuming(sent[q]) => Resuming(sent'[q]),
           inbox' \in [Pages -> Seq(FrameSet(Len(log), written))],
           highestSeq' \in [Pages -> 0..Len(log)],
           NEW m, Model(m, written), page' = [page EXCEPT ![p] = m],
           gapped' \subseteq Pages, cut' \subseteq Pages,
           answered' \in [Pages -> Turns \cup {None}], rewound' \in [Pages -> Turns \cup {None}],
           gapped \subseteq gapped', cut \subseteq cut',
           \A q \in Pages : q # p => /\ inbox'[q] = inbox[q] /\ highestSeq'[q] = highestSeq[q]
                                     /\ answered'[q] = answered[q] /\ rewound'[q] = rewound[q],
           Agrees(p)', CatchingUp(p)'
    PROVE  TranscriptInv'
<1>1. UNCHANGED <<engineVars, sessionVars, log>> /\ log' = log /\ link' = link /\ got' = got
  BY DEF daemonUnchanged
<1>2. m \in Models(written)
  BY DEF Model
<1>3. /\ page' \in [Pages -> Models(written)] /\ page'[p] = m
      /\ \A q \in Pages : q # p => page'[q] = page[q]
  BY <1>2, PageFacts
<1>4. \A q \in Pages : Model(page'[q], written)
  BY <1>3, PageFacts, Zenon
<1>5. ASSUME NEW q \in Pages PROVE Agrees(q)'
  <2>1. CASE q = p
    BY <2>1, Zenon
  <2>2. CASE q # p
    BY <1>1, <1>3, <2>2, SameLogAgrees, Zenon
  <2> QED
    BY <2>1, <2>2
<1>6. ASSUME NEW q \in Pages PROVE CatchingUp(q)'
  <2>1. CASE q = p
    BY <2>1, Zenon
  <2>2. CASE q # p
    BY <1>1, <2>2, StillCatching, Zenon
  <2> QED
    BY <2>1, <2>2
<1>7. link' \in [Pages -> {"off", "open", "on"}] /\ got' \in [Pages -> SUBSET Honest]
      /\ gapped' \cup cut' \subseteq Pages
  BY <1>1, PageFacts
<1> QED
  BY <1>1, <1>3, <1>4, <1>5, <1>6, <1>7, QuietStep, Zenon

LEMMA AddLocalForm ==
    ASSUME NEW W, NEW m, Model(m, W)
    PROVE  /\ AddLocalUserMessage(m) = Record(m.items, 0, {}, {}, m.pending, m.state)
           /\ Model(AddLocalUserMessage(m), W)
           /\ AddLocalUserMessage(m).pending = m.pending
<1>1. m \in Models(W)
  BY DEF Model
<1> DEFINE a == [m EXCEPT !.edits = {}]
           b == [a EXCEPT !.changed = {}]
           c == [b EXCEPT !.live = 0]
           r == Record(m.items, 0, {}, {}, m.pending, m.state)
<1>2. a = Record(m.items, m.live, {}, m.changed, m.pending, m.state)
  <2> DEFINE n == Record(m.items, m.live, m.edits, m.changed, m.pending, m.state)
  <2>1. m = n
    BY <1>1, Fields
  <2>2. [n EXCEPT !.edits = {}] = Record(m.items, m.live, {}, m.changed, m.pending, m.state)
    BY DEF Record
  <2> HIDE DEF n
  <2> QED
    BY <2>1, <2>2, Zenon
<1>3. AddLocalUserMessage(m) = c
  BY Zenon DEF AddLocalUserMessage
<1> HIDE DEF a
<1>4. b = Record(m.items, m.live, {}, {}, m.pending, m.state)
  BY <1>2 DEF Record
<1> HIDE DEF b
<1>5. c = r
  BY <1>4 DEF Record
<1> HIDE DEF c
<1>6. r \in Models(W) /\ r.live = 0 /\ r.pending = m.pending
  BY <1>1 DEF Models, Record
<1> HIDE DEF r
<1>7. Model(r, W)
  BY <1>6 DEF Model
<1> QED
  BY <1>3, <1>5, <1>6, <1>7, Zenon DEF r

LEMMA SendMessageStep ==
    ASSUME TranscriptInv, NEW p \in Pages, SendMessage(p)
    PROVE  TranscriptInv'
<1> DEFINE m == AddLocalUserMessage(page[p])
<1>1. /\ page' = [page EXCEPT ![p] = m]
      /\ cut' = IF m # page[p] THEN cut \cup {p} ELSE cut
      /\ UNCHANGED <<link, inbox, highestSeq, gapped, answered, rewound, got>>
      /\ daemonUnchanged
  BY DEF SendMessage
<1>2. PICK withFile \in BOOLEAN : SendCommand(p, [type |-> "user_message", withFile |-> withFile])
  BY DEF SendMessage
<1>3. [type |-> "user_message", withFile |-> withFile] \in Asked(written)
  BY DEF Asked, Commands
<1>4. sent' \in [Pages -> Seq(Asked(written))] /\ \A q \in Pages : Resuming(sent[q]) => Resuming(sent'[q])
  BY <1>2, <1>3, SendCommandFacts, PageFacts
<1>5. Model(m, written) /\ m.pending = page[p].pending
  BY PageFacts, AddLocalForm
<1> HIDE DEF m
<1>6. page'[p] = m
  BY <1>1, PageFacts
<1>7. log' = log
  BY <1>1 DEF daemonUnchanged
<1>8. CASE m = page[p]
  <2>1. page' = page /\ cut' = cut
    BY <1>1, <1>8, PageFacts
  <2> QED
    BY <1>1, <1>4, <2>1, OnlySent DEF history
<1>9. CASE m # page[p]
  <2>1. cut' = cut \cup {p} /\ cut' \subseteq Pages /\ p \in cut'
    BY <1>1, <1>9, PageFacts
  <2>2. Agrees(p)'
    <3>1. Agrees(p)
      BY PageFacts
    <3> QED
      BY <1>1, <1>5, <1>6, <1>7, <2>1, <3>1, Zenon DEF Agrees, Journal
  <2>3. CatchingUp(p)'
    BY <1>1, <1>4, <1>7, StillCatching, Zenon
  <2> QED
    BY <1>1, <1>4, <1>5, <2>1, <2>2, <2>3, OnePage, PageFacts, Zenon
<1> QED
  BY <1>8, <1>9

LEMMA DecideStep ==
    ASSUME TranscriptInv, NEW p \in Pages, Decide(p)
    PROVE  TranscriptInv'
<1> DEFINE old == page[p]
           m == [old EXCEPT !.pending = None]
<1>1. /\ old.pending # None
      /\ page' = [page EXCEPT ![p] = m]
      /\ answered' = [answered EXCEPT ![p] = old.pending]
      /\ UNCHANGED <<link, inbox, highestSeq, gapped, cut, rewound, got>>
      /\ daemonUnchanged
  BY DEF Decide
<1>2. Model(old, written)
  BY PageFacts
<1>3. PICK choice \in {<<"approve", "once">>, <<"approve", "session">>, <<"deny", "once">>} :
        SendCommand(p, [type |-> "permission_response", of |-> old.pending,
                        decision |-> choice[1], scope |-> choice[2]])
  BY DEF Decide
<1>4. m = Record(old.items, old.live, old.edits, old.changed, None, old.state)
  BY <1>2 DEF Model, Models, Record
<1>5. /\ m.items = old.items /\ m.live = old.live /\ m.edits = old.edits /\ m.changed = old.changed
      /\ m.pending = None /\ m.state = old.state
  BY <1>4, Zenon DEF Record
<1>6. old.pending \in Turns
  BY <1>1, <1>2 DEF Model, Models
<1>7. Model(m, written)
  <2>1. m \in Models(written)
    BY <1>2, <1>4 DEF Model, Models, Record
  <2> HIDE DEF m
  <2> QED
    BY <1>2, <1>5, <2>1 DEF Model
<1> HIDE DEF m, old
<1>8. [type |-> "permission_response", of |-> old.pending, decision |-> choice[1], scope |-> choice[2]]
        \in Asked(written)
  BY <1>6 DEF Asked, Commands
<1>9. sent' \in [Pages -> Seq(Asked(written))] /\ \A q \in Pages : Resuming(sent[q]) => Resuming(sent'[q])
  BY <1>3, <1>8, SendCommandFacts, PageFacts
<1>10. page'[p] = m /\ answered' \in [Pages -> Turns \cup {None}] /\ answered'[p] = old.pending
       /\ \A q \in Pages : q # p => answered'[q] = answered[q]
  BY <1>1, <1>6, PageFacts
<1>11. log' = log
  BY <1>1 DEF daemonUnchanged
<1>12. Agrees(p)'
  <2>1. Agrees(p)
    BY PageFacts
  <2>2. p \notin gapped => old.pending = Journal(highestSeq[p]).pending
    BY <1>1, <2>1, Zenon DEF Agrees, old
  <2>3. p \notin gapped \cup cut => SameTranscript(m, Journal(highestSeq[p]))
    BY <1>5, <2>1, Zenon DEF Agrees, old, SameTranscript
  <2>4. Journal(highestSeq[p])' = Journal(highestSeq[p])
    BY <1>1, <1>11, Zenon DEF Journal
  <2> QED
    BY <1>1, <1>5, <1>10, <2>2, <2>3, <2>4, Zenon DEF Agrees, SameTranscript
<1>13. CatchingUp(p)'
  BY <1>1, <1>9, <1>11, StillCatching, Zenon
<1>14. /\ inbox' = inbox /\ highestSeq' = highestSeq /\ rewound' = rewound /\ gapped' = gapped /\ cut' = cut
       /\ inbox \in [Pages -> Seq(FrameSet(Len(log), written))] /\ highestSeq \in [Pages -> 0..Len(log)]
       /\ rewound \in [Pages -> Turns \cup {None}] /\ gapped \subseteq Pages /\ cut \subseteq Pages
       /\ UNCHANGED <<link, got>>
  BY <1>1, PageFacts
<1> QED
  BY <1>1, <1>7, <1>9, <1>10, <1>12, <1>13, <1>14, OnePage

LEMMA PressInterruptStep ==
    ASSUME TranscriptInv, NEW p \in Pages, PressInterrupt(p)
    PROVE  TranscriptInv'
<1>1. /\ SendCommand(p, [type |-> "interrupt"])
      /\ UNCHANGED <<link, inbox, highestSeq, page, history>> /\ daemonUnchanged
  BY DEF PressInterrupt
<1>2. [type |-> "interrupt"] \in Asked(written)
  BY DEF Asked, Commands
<1>3. sent' \in [Pages -> Seq(Asked(written))] /\ \A q \in Pages : Resuming(sent[q]) => Resuming(sent'[q])
  BY <1>1, <1>2, SendCommandFacts, PageFacts
<1> QED
  BY <1>1, <1>3, OnlySent

LEMMA RequestDownloadStep ==
    ASSUME TranscriptInv, NEW p \in Pages, RequestDownload(p)
    PROVE  TranscriptInv'
<1>1. /\ UNCHANGED <<link, inbox, highestSeq, page, history>> /\ daemonUnchanged
      /\ \E item \in ToSet(page[p].items) :
           \/ /\ item.kind = "tool"
              /\ SendCommand(p, [type |-> "download", of |-> item.of, via |-> "file"])
           \/ /\ item.kind = "bundle"
              /\ \E t \in item.paths : SendCommand(p, [type |-> "download", of |-> t, via |-> "zip"])
  BY DEF RequestDownload
<1>2. PICK item \in ToSet(page[p].items) :
           \/ /\ item.kind = "tool"
              /\ SendCommand(p, [type |-> "download", of |-> item.of, via |-> "file"])
           \/ /\ item.kind = "bundle"
              /\ \E t \in item.paths : SendCommand(p, [type |-> "download", of |-> t, via |-> "zip"])
  BY <1>1, Zenon
<1>3. item \in Items(written)
  <2>1. page[p].items \in Seq(Items(written))
    BY PageFacts DEF Models
  <2>2. PICK i \in DOMAIN page[p].items : item = page[p].items[i]
    BY <1>2 DEF ToSet
  <2> QED
    BY <2>1, <2>2
<1>4. written \subseteq Turns
  BY PageFacts
<1>5. PICK cmd \in Asked(written) : SendCommand(p, cmd)
  <2>1. CASE item.kind = "tool" /\ SendCommand(p, [type |-> "download", of |-> item.of, via |-> "file"])
    <3>1. item.of \in Turns
      BY <1>3, <2>1 DEF Items, BubbleItems, CardItems, LineItems, BundleItems
    <3>2. [type |-> "download", of |-> item.of, via |-> "file"] \in Asked(written)
      BY <3>1 DEF Asked, Commands, DownloadCommands
    <3> QED
      BY <2>1, <3>2, Zenon
  <2>2. CASE /\ item.kind = "bundle"
             /\ \E t \in item.paths : SendCommand(p, [type |-> "download", of |-> t, via |-> "zip"])
    <3>1. item.paths \subseteq written
      BY <1>3, <2>2 DEF Items, BubbleItems, CardItems, LineItems, BundleItems
    <3>2. PICK t \in item.paths : SendCommand(p, [type |-> "download", of |-> t, via |-> "zip"])
      BY <2>2, Zenon
    <3>3. [type |-> "download", of |-> t, via |-> "zip"] \in Asked(written)
      BY <1>4, <3>1, <3>2 DEF Asked, Commands, DownloadCommands
    <3> QED
      BY <3>2, <3>3, Zenon
  <2> QED
    BY <1>2, <2>1, <2>2, Zenon
<1>6. sent' \in [Pages -> Seq(Asked(written))] /\ \A q \in Pages : Resuming(sent[q]) => Resuming(sent'[q])
  BY <1>5, SendCommandFacts, PageFacts
<1> QED
  BY <1>1, <1>6, OnlySent

\* The page reads a frame: the others are still there, unless it was the one that ends the journal.
LEMMA FrameRead ==
    ASSUME TranscriptInv, NEW p \in Pages, inbox[p] # <<>>,
           inbox' = [inbox EXCEPT ![p] = Tail(@)], log' = log, link' = link, sent' = sent,
           \/ highestSeq'[p] = Len(log)
           \/ highestSeq'[p] = highestSeq[p] /\ Head(inbox[p]).seq # Len(log)
           \/ highestSeq[p] # Len(log) /\ Head(inbox[p]).seq # Len(log)
    PROVE  /\ inbox' \in [Pages -> Seq(FrameSet(Len(log), written))]
           /\ \A q \in Pages : q # p => inbox'[q] = inbox[q]
           /\ Head(inbox[p]) \in FrameSet(Len(log), written)
           /\ CatchingUp(p)'
<1> DEFINE F == FrameSet(Len(log), written)
           box == inbox[p]
<1>1. inbox \in [Pages -> Seq(F)] /\ box \in Seq(F) /\ box # <<>> /\ CatchingUp(p)
  BY PageFacts
<1> HIDE DEF F
<1>2. /\ Tail(box) \in Seq(F) /\ Len(box) \in Nat \ {0} /\ Head(box) = box[1] /\ Head(box) \in F
      /\ DOMAIN box = 1..Len(box) /\ DOMAIN Tail(box) = 1..(Len(box) - 1)
      /\ \A i \in 1..(Len(box) - 1) : Tail(box)[i] = box[i + 1]
  BY <1>1, TailFacts
<1>3. inbox' \in [Pages -> Seq(F)] /\ inbox'[p] = Tail(box) /\ \A q \in Pages : q # p => inbox'[q] = inbox[q]
  BY <1>1, <1>2
<1>4. CatchingUp(p)'
  <2>1. SUFFICES ASSUME link[p] = "on", ~Resuming(sent[p]), highestSeq'[p] # Len(log)
                 PROVE  \E i \in DOMAIN inbox'[p] : inbox'[p][i].seq = Len(log)
    BY Zenon DEF CatchingUp, Resuming
  <2>2. Head(box).seq # Len(log) /\ highestSeq[p] # Len(log)
    BY <2>1, Zenon
  <2>3. PICK i \in DOMAIN box : box[i].seq = Len(log)
    BY <1>1, <2>1, <2>2, Zenon DEF CatchingUp, Resuming
  <2>4. i # 1
    BY <1>2, <2>2, <2>3
  <2>5. i - 1 \in 1..(Len(box) - 1) /\ (i - 1) + 1 = i
    BY <1>2, <2>3, <2>4
  <2>6. i - 1 \in DOMAIN Tail(box) /\ Tail(box)[i - 1] = box[i]
    BY <1>2, <2>5
  <2> QED
    BY <1>3, <2>3, <2>6
<1> QED
  BY <1>2, <1>3, <1>4, Zenon DEF F

LEMMA FrameFields ==
    ASSUME NEW n \in Nat, NEW W, NEW frame \in FrameSet(n, W)
    PROVE  /\ frame.seq \in 0..n
           /\ frame.seq = 0 => frame.event \in Honest
           /\ frame.seq # 0 => frame.event \in Sound(W)
<1>1. CASE frame \in [seq : 1..n, event : Sound(W)]
  BY <1>1
<1>2. CASE frame \in [seq : {0}, event : Honest]
  BY <1>2
<1> QED
  BY <1>1, <1>2 DEF FrameSet

LEMMA ReadFileDataStep ==
    ASSUME TranscriptInv, NEW p \in Pages, ReadFileData(p)
    PROVE  TranscriptInv'
<1>1. /\ inbox[p] # <<>> /\ Head(inbox[p]).seq = 0
      /\ inbox' = [inbox EXCEPT ![p] = Tail(@)]
      /\ got' = [got EXCEPT ![p] = @ \cup {Head(inbox[p]).event}]
      /\ link' = link /\ sent' = sent /\ highestSeq' = highestSeq /\ page' = page
      /\ gapped' = gapped /\ cut' = cut /\ answered' = answered /\ rewound' = rewound
  BY DEF ReadFileData
<1>2. UNCHANGED <<engineVars, sessionVars, log>> /\ log' = log
  BY DEF ReadFileData, daemonUnchanged
<1>3. Len(log) \in Nat \ {0}
  BY PageFacts
<1>4. /\ inbox' \in [Pages -> Seq(FrameSet(Len(log), written))]
      /\ \A q \in Pages : q # p => inbox'[q] = inbox[q]
      /\ Head(inbox[p]) \in FrameSet(Len(log), written)
      /\ CatchingUp(p)'
  <2>1. highestSeq'[p] = highestSeq[p] /\ Head(inbox[p]).seq # Len(log)
    BY <1>1, <1>3
  <2> QED
    BY <1>1, <1>2, <2>1, FrameRead
<1>5. Head(inbox[p]).event \in Honest
  BY <1>1, <1>3, <1>4, FrameFields
<1>6. got' \in [Pages -> SUBSET Honest]
  <2>1. got \in [Pages -> SUBSET Honest]
    BY PageFacts
  <2> QED
    BY <1>1, <1>5, <2>1
<1>7. \A q \in Pages : Agrees(q)'
  BY <1>1, <1>2, SameLogAgrees
<1>8. ASSUME NEW q \in Pages PROVE CatchingUp(q)'
  <2>1. CASE q = p
    BY <1>4, <2>1, Zenon
  <2>2. CASE q # p
    BY <1>1, <1>2, <1>4, <2>2, StillCatching, Zenon
  <2> QED
    BY <2>1, <2>2
<1>9. /\ link' \in [Pages -> {"off", "open", "on"}] /\ sent' \in [Pages -> Seq(Asked(written))]
      /\ highestSeq' \in [Pages -> 0..Len(log)]
      /\ page' \in [Pages -> Models(written)] /\ (\A q \in Pages : Model(page'[q], written))
      /\ gapped' \cup cut' \subseteq Pages
      /\ answered' \in [Pages -> Turns \cup {None}] /\ rewound' \in [Pages -> Turns \cup {None}]
  BY <1>1, PageFacts
<1> QED
  BY <1>2, <1>4, <1>6, <1>7, <1>8, <1>9, QuietStep, Zenon

LEMMA ReopenStep ==
    ASSUME TranscriptInv, NEW p \in Pages, Reopen(p)
    PROVE  TranscriptInv'
<1>1. /\ link[p] = "off" /\ link' = [link EXCEPT ![p] = "open"]
      /\ UNCHANGED <<engineVars, sessionVars, log>> /\ log' = log /\ sent' = sent /\ inbox' = inbox
      /\ highestSeq' = highestSeq /\ page' = page
      /\ gapped' = gapped /\ cut' = cut /\ answered' = answered /\ rewound' = rewound /\ got' = got
  BY DEF Reopen, daemonUnchanged, pageUnchanged, history
<1>2. link' \in [Pages -> {"off", "open", "on"}] /\ link'[p] # "on"
      /\ \A q \in Pages : q # p => link'[q] = link[q]
  BY <1>1, PageFacts
<1>3. \A q \in Pages : Agrees(q)'
  BY <1>1, SameLogAgrees
<1>4. ASSUME NEW q \in Pages PROVE CatchingUp(q)'
  <2>1. CASE q = p
    BY <1>2, <2>1, Zenon DEF CatchingUp
  <2>2. CASE q # p
    BY <1>1, <1>2, <2>2, StillCatching, Zenon
  <2> QED
    BY <2>1, <2>2
<1>5. /\ sent' \in [Pages -> Seq(Asked(written))] /\ inbox' \in [Pages -> Seq(FrameSet(Len(log), written))]
      /\ got' \in [Pages -> SUBSET Honest] /\ highestSeq' \in [Pages -> 0..Len(log)]
      /\ page' \in [Pages -> Models(written)] /\ (\A q \in Pages : Model(page'[q], written))
      /\ gapped' \cup cut' \subseteq Pages
      /\ answered' \in [Pages -> Turns \cup {None}] /\ rewound' \in [Pages -> Turns \cup {None}]
  BY <1>1, PageFacts
<1> QED
  BY <1>1, <1>2, <1>3, <1>4, <1>5, QuietStep, Zenon

LEMMA OnAckStep ==
    ASSUME TranscriptInv, NEW p \in Pages, OnAck(p)
    PROVE  TranscriptInv'
<1> DEFINE cmd == [type |-> "resume", since |-> highestSeq[p]]
<1>1. /\ link[p] = "open" /\ link' = [link EXCEPT ![p] = "on"] /\ SendCommand(p, cmd)
      /\ UNCHANGED <<engineVars, sessionVars, log>> /\ log' = log /\ inbox' = inbox
      /\ highestSeq' = highestSeq /\ page' = page
      /\ gapped' = gapped /\ cut' = cut /\ answered' = answered /\ rewound' = rewound /\ got' = got
  BY DEF OnAck, daemonUnchanged, pageUnchanged, history
<1>2. link' \in [Pages -> {"off", "open", "on"}] /\ \A q \in Pages : q # p => link'[q] = link[q]
  BY <1>1, PageFacts
<1>3. cmd \in Asked(written) /\ cmd.type = "resume"
  <2>1. highestSeq[p] \in Nat
    BY PageFacts
  <2> QED
    BY <2>1 DEF Asked, Commands
<1> HIDE DEF cmd
<1>4. /\ sent' \in [Pages -> Seq(Asked(written))] /\ Resuming(sent'[p])
      /\ \A q \in Pages : Resuming(sent[q]) => Resuming(sent'[q])
  <2>1. sent \in [Pages -> Seq(Asked(written))]
    BY PageFacts
  <2> QED
    BY <1>1, <1>3, <2>1, SendCommandFacts
<1>5. \A q \in Pages : Agrees(q)'
  BY <1>1, SameLogAgrees
<1>6. ASSUME NEW q \in Pages PROVE CatchingUp(q)'
  <2>1. CASE q = p
    BY <1>4, <2>1, Zenon DEF CatchingUp, Resuming
  <2>2. CASE q # p
    BY <1>1, <1>2, <1>4, <2>2, StillCatching, Zenon
  <2> QED
    BY <2>1, <2>2
<1>7. /\ inbox' \in [Pages -> Seq(FrameSet(Len(log), written))]
      /\ got' \in [Pages -> SUBSET Honest] /\ highestSeq' \in [Pages -> 0..Len(log)]
      /\ page' \in [Pages -> Models(written)] /\ (\A q \in Pages : Model(page'[q], written))
      /\ gapped' \cup cut' \subseteq Pages
      /\ answered' \in [Pages -> Turns \cup {None}] /\ rewound' \in [Pages -> Turns \cup {None}]
  BY <1>1, PageFacts
<1> QED
  BY <1>1, <1>2, <1>4, <1>5, <1>6, <1>7, QuietStep, Zenon

LEMMA JournalStarts == Typing => Journal(0) = EmptyModel
<1> HAVE Typing
<1>1. log \in Seq(Sound(written))
  BY DEF Typing
<1>2. SubSeq(log, 1, 0) = <<>>
  BY <1>1, PrefixFacts
<1> QED
  BY <1>2, ModelOfEmpty DEF Journal

LEMMA DropStep ==
    ASSUME TranscriptInv, NEW p \in Pages, Drop(p)
    PROVE  TranscriptInv'
<1>1. /\ link' = [link EXCEPT ![p] = "off"] /\ inbox' = [inbox EXCEPT ![p] = <<>>]
      /\ UNCHANGED <<engineVars, sessionVars, log>> /\ log' = log
      /\ \E n \in 0..Len(sent[p]) : sent' = [sent EXCEPT ![p] = SubSeq(@, 1, n)]
      /\ \/ UNCHANGED <<highestSeq, page, gapped, cut, answered, rewound, got>>
         \/ /\ highestSeq' = [highestSeq EXCEPT ![p] = 0]
            /\ page' = [page EXCEPT ![p] = EmptyModel]
            /\ gapped' = gapped \ {p} /\ cut' = cut \ {p}
            /\ answered' = [answered EXCEPT ![p] = None]
            /\ rewound' = [rewound EXCEPT ![p] = None]
            /\ got' = [got EXCEPT ![p] = {}]
  BY Zenon DEF Drop, daemonUnchanged, history
<1> DEFINE S == Asked(written)
           F == FrameSet(Len(log), written)
<1>2. /\ link \in [Pages -> {"off", "open", "on"}] /\ sent \in [Pages -> Seq(S)] /\ inbox \in [Pages -> Seq(F)]
      /\ got \in [Pages -> SUBSET Honest] /\ highestSeq \in [Pages -> 0..Len(log)]
      /\ page \in [Pages -> Models(written)] /\ (\A q \in Pages : Model(page[q], written))
      /\ gapped \subseteq Pages /\ cut \subseteq Pages
      /\ answered \in [Pages -> Turns \cup {None}] /\ rewound \in [Pages -> Turns \cup {None}]
      /\ Len(log) \in Nat \ {0}
  BY PageFacts
<1> HIDE DEF S, F
<1>3. /\ link' \in [Pages -> {"off", "open", "on"}] /\ link'[p] = "off"
      /\ \A q \in Pages : q # p => link'[q] = link[q]
  BY <1>1, <1>2
<1>4. inbox' \in [Pages -> Seq(F)] /\ \A q \in Pages : q # p => inbox'[q] = inbox[q]
  <2>1. <<>> \in Seq(F)
    BY EmptySeq
  <2> QED
    BY <1>1, <1>2, <2>1
<1>5. sent' \in [Pages -> Seq(S)] /\ \A q \in Pages : q # p => sent'[q] = sent[q]
  <2>1. PICK n \in 0..Len(sent[p]) : sent' = [sent EXCEPT ![p] = SubSeq(@, 1, n)]
    BY <1>1
  <2>2. sent[p] \in Seq(S) /\ Len(sent[p]) \in Nat
    BY <1>2
  <2>3. SubSeq(sent[p], 1, n) \in Seq(S)
    BY <2>2
  <2> QED
    BY <1>2, <2>1, <2>3
<1>6. CASE UNCHANGED <<highestSeq, page, gapped, cut, answered, rewound, got>>
  <2>1. \A q \in Pages : Agrees(q)'
    BY <1>1, <1>6, SameLogAgrees
  <2>2. ASSUME NEW q \in Pages PROVE CatchingUp(q)'
    <3>1. CASE q = p
      BY <1>3, <3>1 DEF CatchingUp
    <3>2. CASE q # p
      BY <1>1, <1>3, <1>4, <1>5, <1>6, <3>2, StillCatching
    <3> QED
      BY <3>1, <3>2
  <2>3. /\ got' \in [Pages -> SUBSET Honest] /\ highestSeq' \in [Pages -> 0..Len(log)]
        /\ page' \in [Pages -> Models(written)] /\ (\A q \in Pages : Model(page'[q], written))
        /\ gapped' \cup cut' \subseteq Pages
        /\ answered' \in [Pages -> Turns \cup {None}] /\ rewound' \in [Pages -> Turns \cup {None}]
    BY <1>2, <1>6
  <2> QED
    BY <1>1, <1>3, <1>4, <1>5, <2>1, <2>2, <2>3, QuietStep, Zenon DEF S, F
<1>7. CASE /\ highestSeq' = [highestSeq EXCEPT ![p] = 0]
           /\ page' = [page EXCEPT ![p] = EmptyModel]
           /\ gapped' = gapped \ {p} /\ cut' = cut \ {p}
           /\ answered' = [answered EXCEPT ![p] = None]
           /\ rewound' = [rewound EXCEPT ![p] = None]
           /\ got' = [got EXCEPT ![p] = {}]
  <2>1. Model(EmptyModel, written) /\ EmptyModel \in Models(written) /\ EmptyModel.pending = None
    BY EmptyModelFacts DEF Model
  <2>2. /\ page' \in [Pages -> Models(written)] /\ page'[p] = EmptyModel
        /\ (\A q \in Pages : q # p => page'[q] = page[q])
    BY <1>2, <1>7, <2>1
  <2>3. \A q \in Pages : Model(page'[q], written)
    BY <1>2, <2>1, <2>2, Zenon
  <2>4. /\ highestSeq' \in [Pages -> 0..Len(log)] /\ highestSeq'[p] = 0
        /\ \A q \in Pages : q # p => highestSeq'[q] = highestSeq[q]
    BY <1>2, <1>7
  <2>5. /\ answered' \in [Pages -> Turns \cup {None}] /\ rewound' \in [Pages -> Turns \cup {None}]
        /\ \A q \in Pages : q # p => answered'[q] = answered[q] /\ rewound'[q] = rewound[q]
    BY <1>2, <1>7
  <2>6. got' \in [Pages -> SUBSET Honest] /\ gapped' \cup cut' \subseteq Pages
        /\ \A q \in Pages : q # p => (q \in gapped => q \in gapped') /\ (q \in cut => q \in cut')
    BY <1>2, <1>7
  <2>7. ASSUME NEW q \in Pages PROVE Agrees(q)'
    <3>1. CASE q = p
      <4>1. Journal(0)' = EmptyModel
        <5>1. Journal(0) = EmptyModel
          BY JournalStarts DEF TranscriptInv
        <5> QED
          BY <1>1, <5>1, Zenon DEF Journal
      <4> QED
        BY <2>2, <2>4, <3>1, <4>1, Zenon DEF Agrees, SameTranscript
    <3>2. CASE q # p
      BY <1>1, <2>2, <2>4, <2>5, <2>6, <3>2, SameLogAgrees, Zenon
    <3> QED
      BY <3>1, <3>2
  <2>8. ASSUME NEW q \in Pages PROVE CatchingUp(q)'
    <3>1. CASE q = p
      BY <1>3, <3>1 DEF CatchingUp
    <3>2. CASE q # p
      BY <1>1, <1>3, <1>4, <1>5, <2>4, <3>2, StillCatching, Zenon
    <3> QED
      BY <3>1, <3>2
  <2> QED
    BY <1>1, <1>3, <1>4, <1>5, <2>2, <2>3, <2>4, <2>5, <2>6, <2>7, <2>8, QuietStep, Zenon DEF S, F
<1> QED
  BY <1>1, <1>6, <1>7, Zenon

-----------------------------------------------------------------------------
(* A frame is read.                                                        *)

\* The model of the journal goes on by the event at the page's cursor.
LEMMA JournalNext ==
    ASSUME TranscriptInv, NEW h \in 0..(Len(log) - 1)
    PROVE  Journal(h + 1) = Reduce(Journal(h), log[h + 1]) /\ Model(Journal(h), written)
           /\ log[h + 1] \in Sound(written)
<1>1. log \in Seq(Sound(written)) /\ written \subseteq Turns /\ Len(log) \in Nat
  BY PageFacts
<1>2. /\ SubSeq(log, 1, h) \in Seq(Sound(written)) /\ log[h + 1] \in Sound(written)
      /\ SubSeq(log, 1, h + 1) = Append(SubSeq(log, 1, h), log[h + 1])
  BY <1>1, PrefixFacts
<1>3. h \in 0..Len(log)
  BY <1>1
<1>4. Model(Journal(h), written)
  BY <1>1, <1>3, HistoryIsModel DEF Journal
<1> DEFINE s == SubSeq(log, 1, h)
<1>5. ModelOf(Append(s, log[h + 1])) = Reduce(ModelOf(s), log[h + 1])
  BY <1>2, ModelOfAppend
<1> QED
  BY <1>2, <1>4, <1>5 DEF Journal

\* What the page showed of a request agrees with the journal after the same event, too.
LEMMA PromptStep ==
    ASSUME NEW x, NEW y, NEW a, NEW e,
           x = y \/ (x = None /\ y \in a)
    PROVE  \/ PendingAfter(x, e) = PendingAfter(y, e)
           \/ PendingAfter(x, e) = None /\ PendingAfter(y, e) \in a
BY DEF PendingAfter

LEMMA ReadStep ==
    ASSUME TranscriptInv, NEW p \in Pages, Read(p)
    PROVE  TranscriptInv'
<1> DEFINE frame == Head(inbox[p])
           h == highestSeq[p]
           old == page[p]
           again == frame.seq <= h
           skips == SkipsAnEvent(frame, h)
           next == IF frame.event.type = "session_status" \/ ~again THEN Reduce(old, frame.event) ELSE old
           j == Journal(h)
<1>1. /\ inbox[p] # <<>> /\ frame.seq # 0
      /\ inbox' = [inbox EXCEPT ![p] = Tail(@)]
      /\ highestSeq' = [highestSeq EXCEPT ![p] = IF again THEN h ELSE frame.seq]
      /\ page' = [page EXCEPT ![p] = next]
      /\ gapped' = IF skips THEN gapped \cup {p} ELSE gapped
      /\ rewound' = [rewound EXCEPT ![p] = IF again /\ next.pending # old.pending THEN old.pending ELSE @]
      /\ link' = link /\ sent' = sent /\ cut' = cut /\ answered' = answered /\ got' = got
  BY Zenon DEF Read
<1>2. daemonUnchanged /\ log' = log
  BY DEF Read, daemonUnchanged
<1>3. /\ h \in 0..Len(log) /\ Len(log) \in Nat \ {0} /\ written \subseteq Turns
      /\ Model(old, written) /\ Agrees(p)
  BY PageFacts
<1> HIDE DEF frame, h, old, next, j, skips
<1>4. frame \in FrameSet(Len(log), written)
  BY <1>1, PageFacts, TailFacts DEF frame
<1>5. frame.seq \in 1..Len(log) /\ frame.event \in Sound(written)
  BY <1>1, <1>3, <1>4, FrameFields
<1>6. highestSeq'[p] = (IF again THEN h ELSE frame.seq) /\ highestSeq' \in [Pages -> 0..Len(log)]
      /\ \A q \in Pages : q # p => highestSeq'[q] = highestSeq[q]
  BY <1>1, <1>3, <1>5, PageFacts
<1>7. /\ inbox' \in [Pages -> Seq(FrameSet(Len(log), written))]
      /\ \A q \in Pages : q # p => inbox'[q] = inbox[q]
      /\ CatchingUp(p)'
  <2>1. \/ highestSeq'[p] = Len(log)
        \/ highestSeq'[p] = highestSeq[p] /\ Head(inbox[p]).seq # Len(log)
        \/ highestSeq[p] # Len(log) /\ Head(inbox[p]).seq # Len(log)
    <3> USE DEF frame, h
    <3>1. CASE again
      <4>1. highestSeq'[p] = highestSeq[p] /\ Head(inbox[p]).seq <= highestSeq[p]
        BY <1>6, <3>1
      <4> QED
        BY <1>3, <1>5, <4>1
    <3>2. CASE ~again
      <4>1. highestSeq'[p] = Head(inbox[p]).seq /\ ~(Head(inbox[p]).seq <= highestSeq[p])
        BY <1>6, <3>2
      <4> QED
        BY <1>3, <1>5, <4>1
    <3> QED
      BY <3>1, <3>2
  <2> QED
    BY <1>1, <1>2, <2>1, FrameRead
<1> DEFINE n == Reduce(old, frame.event)
<1>8. /\ Model(n, written)
      /\ n.items = ItemsAfter(old.items, old.live, old.changed, frame.event)
      /\ n.live = LiveAfter(old.items, old.live, frame.event)
      /\ n.edits = EditsAfter(old.edits, frame.event)
      /\ n.changed = ChangedAfter(old.edits, old.changed, frame.event)
      /\ n.pending = PendingAfter(old.pending, frame.event)
  BY <1>3, <1>5, ReduceFacts
<1> HIDE DEF n
<1>9. Model(next, written)
  BY <1>3, <1>8, Zenon DEF next, n
<1>10. /\ page'[p] = next
       /\ rewound'[p] = IF again /\ next.pending # old.pending THEN old.pending ELSE rewound[p]
       /\ rewound' \in [Pages -> Turns \cup {None}]
       /\ \A q \in Pages : q # p => rewound'[q] = rewound[q]
  <2>1. old.pending \in Turns \cup {None}
    BY <1>3 DEF Model, Models
  <2> QED
    BY <1>1, <2>1, PageFacts
<1>11. gapped' \subseteq Pages /\ gapped \subseteq gapped' /\ (skips => p \in gapped')
       /\ (~skips => gapped' = gapped)
  BY <1>1, PageFacts
<1>12. /\ p \notin gapped => old.pending = j.pending \/ (old.pending = None /\ j.pending \in {answered[p], rewound[p]})
       /\ p \notin gapped \cup cut => SameTranscript(old, j)
  BY <1>3, Zenon DEF Agrees, old, j, h
<1>13. Agrees(p)'
  <2>1. CASE again
    <3>0. highestSeq'[p] = h
      BY <1>6, <2>1, Zenon
    <3>1. Journal(highestSeq[p])' = j
      BY <1>2, <3>0, Zenon DEF Journal, j
    <3>2. next.items = old.items /\ next.live = old.live /\ next.edits = old.edits /\ next.changed = old.changed
          /\ (next.pending = old.pending \/ next.pending = None)
      <4>1. CASE frame.event.type = "session_status"
        <5>1. next = n
          BY <4>1, Zenon DEF next, n
        <5>2. /\ ItemsAfter(old.items, old.live, old.changed, frame.event) = old.items
              /\ LiveAfter(old.items, old.live, frame.event) = old.live
              /\ EditsAfter(old.edits, frame.event) = old.edits
              /\ ChangedAfter(old.edits, old.changed, frame.event) = old.changed
              /\ (PendingAfter(old.pending, frame.event) = old.pending
                    \/ PendingAfter(old.pending, frame.event) = None)
          BY <4>1 DEF ItemsAfter, LiveAfter, EditsAfter, ChangedAfter, PendingAfter
        <5> QED
          BY <1>8, <5>1, <5>2
      <4>2. CASE frame.event.type # "session_status"
        BY <2>1, <4>2 DEF next
      <4> QED
        BY <4>1, <4>2
    <3>3. p \notin gapped' => \/ next.pending = j.pending
                              \/ next.pending = None /\ j.pending \in {answered[p], rewound'[p]}
      <4> SUFFICES ASSUME p \notin gapped'
                   PROVE  \/ next.pending = j.pending
                          \/ next.pending = None /\ j.pending \in {answered[p], rewound'[p]}
        OBVIOUS
      <4>1. old.pending = j.pending \/ (old.pending = None /\ j.pending \in {answered[p], rewound[p]})
        BY <1>11, <1>12
      <4>2. CASE next.pending = old.pending
        <5>1. rewound'[p] = rewound[p]
          BY <1>10, <4>2, Zenon
        <5> QED
          BY <4>1, <4>2, <5>1, Zenon
      <4>3. CASE next.pending # old.pending
        <5>1. next.pending = None /\ old.pending # None /\ rewound'[p] = old.pending
          BY <1>10, <2>1, <3>2, <4>3
        <5> QED
          BY <4>1, <5>1
      <4> QED
        BY <4>2, <4>3
    <3>4. p \notin gapped' \cup cut => SameTranscript(next, j)
      BY <1>11, <1>12, <3>2 DEF SameTranscript
    <3> QED
      BY <1>1, <1>10, <3>1, <3>3, <3>4, Zenon DEF Agrees
  <2>2. CASE ~again /\ skips
    BY <1>11, <2>2, Zenon DEF Agrees
  <2>3. CASE ~again /\ ~skips
    <3>1. frame.seq = h + 1 /\ frame.event = log[h + 1] /\ h \in 0..(Len(log) - 1)
      <4>1. frame.seq > h
        BY <1>3, <1>5, <2>3
      <4>2. ~(frame.seq > h + 1) /\ frame.event = log[frame.seq]
        BY <2>3, <4>1 DEF skips, SkipsAnEvent
      <4> QED
        BY <1>3, <1>5, <4>1, <4>2
    <3>2. highestSeq'[p] = h + 1 /\ next = n /\ rewound'[p] = rewound[p] /\ gapped' = gapped
      BY <1>6, <1>10, <1>11, <2>3, <3>1, Zenon DEF next, n
    <3> DEFINE k == Journal(h + 1)
    <3>3. k = Reduce(j, frame.event) /\ Model(j, written)
      BY <3>1, JournalNext DEF j
    <3>4. Journal(highestSeq[p])' = k
      BY <1>2, <3>2, Zenon DEF Journal
    <3>5. k.pending = PendingAfter(j.pending, frame.event)
      <4>1. Reduce(j, frame.event).pending = PendingAfter(j.pending, frame.event)
        BY <1>3, <1>5, <3>3, ReduceFacts
      <4> QED
        BY <3>3, <4>1, Zenon
    <3>6. p \notin gapped \cup cut => SameTranscript(n, k)
      <4> SUFFICES ASSUME p \notin gapped \cup cut PROVE SameTranscript(n, k)
        OBVIOUS
      <4>1. SameTranscript(old, j)
        BY <1>12
      <4>2. SameTranscript(Reduce(old, frame.event), Reduce(j, frame.event))
        BY <1>3, <1>5, <3>3, <4>1, SameStep
      <4> QED
        BY <3>3, <4>2, Zenon DEF n
    <3>7. p \notin gapped => n.pending = k.pending \/ (n.pending = None /\ k.pending \in {answered[p], rewound[p]})
      <4> DEFINE a == {answered[p], rewound[p]}
      <4> SUFFICES ASSUME p \notin gapped PROVE n.pending = k.pending \/ (n.pending = None /\ k.pending \in a)
        OBVIOUS
      <4>1. old.pending = j.pending \/ (old.pending = None /\ j.pending \in a)
        BY <1>12
      <4> HIDE DEF a, k
      <4> QED
        BY <1>8, <3>5, <4>1, PromptStep
    <3> HIDE DEF k
    <3> QED
      BY <1>1, <1>10, <3>2, <3>4, <3>6, <3>7, Zenon DEF Agrees
  <2> QED
    BY <2>1, <2>2, <2>3
<1>14. /\ sent' \in [Pages -> Seq(Asked(written))] /\ (\A q \in Pages : Resuming(sent[q]) => Resuming(sent'[q]))
       /\ cut' \subseteq Pages /\ cut \subseteq cut' /\ answered' \in [Pages -> Turns \cup {None}]
       /\ (\A q \in Pages : q # p => answered'[q] = answered[q])
       /\ UNCHANGED <<link, got>>
  BY <1>1, PageFacts
<1> QED
  BY <1>1, <1>2, <1>6, <1>7, <1>9, <1>10, <1>11, <1>13, <1>14, OnePage

-----------------------------------------------------------------------------
(* The invariant holds at first, and every step keeps it.                  *)

LEMMA InitialJournal ==
    /\ <<Status("idle")>> \in Seq(Sound({})) /\ Len(<<Status("idle")>>) = 1
    /\ <<Status("idle")>>[1] = Status("idle")
    /\ Phase(ModelOf(<<Status("idle")>>), "idle", None, {})
<1> DEFINE e == Status("idle")
           m == ModelOf(<<e>>)
<1>1. e \in Sound({})
  BY SessionEventsAreSound DEF States
<1> HIDE DEF e
<1>2. <<>> \in Seq(Sound({})) /\ Append(<<>>, e) = <<e>> /\ <<e>> \in Seq(Sound({}))
      /\ Len(<<e>>) = 1 /\ <<e>>[1] = e
  BY <1>1
<1>3. m = Reduce(EmptyModel, e)
  BY <1>1, <1>2, ModelOfAppend, ModelOfEmpty
<1>4. At(EmptyModel, {}, {}, TRUE, {}, {}, None)
  BY EmptyModelFacts DEF At, Bundles
<1>5. At(m, {}, {}, TRUE, {}, {}, None)
  <2>1. At(Reduce(EmptyModel, Status("idle")), {}, {}, TRUE, {}, {}, None)
    <3>1. "idle" \in States /\ {} \subseteq Turns
      BY DEF States
    <3> DEFINE x == IF "idle" = "awaiting-approval" THEN None ELSE None
    <3>2. At(Reduce(EmptyModel, Status("idle")), {}, {}, TRUE, {}, {}, x)
      BY <1>4, <3>1, AtStatus
    <3> QED
      BY <3>2
  <2> QED
    BY <1>3, <2>1 DEF e
<1> HIDE DEF m
<1>6. Phase(m, "idle", None, {})
  BY <1>5 DEF At, Phase, Singles
<1> QED
  BY <1>2, <1>6 DEF e, m

LEMMA InitFacts == Init => TranscriptInv
<1> SUFFICES ASSUME Init PROVE TranscriptInv
  OBVIOUS
<1> DEFINE e == Status("idle")
           frame == [seq |-> 1, event |-> e]
           F == FrameSet(Len(log), written)
<1>1. /\ step = "idle" /\ writes = FALSE /\ interrupted = FALSE /\ written = {}
      /\ currentTurn = None /\ lastTurn = None /\ armed = {} /\ allowed = FALSE
      /\ log = <<e>>
      /\ link = [p \in Pages |-> "on"] /\ sent = [p \in Pages |-> <<>>]
      /\ inbox = [p \in Pages |-> <<frame>>]
      /\ highestSeq = [p \in Pages |-> 0] /\ page = [p \in Pages |-> EmptyModel]
      /\ gapped = {} /\ cut = {}
      /\ answered = [p \in Pages |-> None] /\ rewound = [p \in Pages |-> None]
      /\ got = [p \in Pages |-> {}]
  BY Zenon DEF Init, EngineInit
<1>2. log \in Seq(Sound(written)) /\ Len(log) = 1 /\ log[1] = e /\ Phase(ModelOf(log), "idle", None, {})
  BY <1>1, InitialJournal
<1>3. e \in Sound(written) /\ e.type = "session_status"
  BY SessionEventsAreSound DEF States, Status, Event
<1>4. frame \in F /\ frame.seq = 1
  BY <1>2, <1>3 DEF FrameSet
<1>5. EmptyModel \in Models(written) /\ Model(EmptyModel, written) /\ EmptyModel.pending = None
  BY EmptyModelFacts DEF Model
<1> HIDE DEF e, frame, F
<1>6. <<frame>> \in Seq(F) /\ 1 \in DOMAIN <<frame>> /\ <<frame>>[1] = frame
  BY <1>4
<1>7. inbox \in [Pages -> Seq(F)]
  BY <1>1, <1>6
<1>8. sent \in [Pages -> Seq(Asked(written))]
  <2>1. <<>> \in Seq(Asked(written))
    BY EmptySeq
  <2> QED
    BY <1>1, <2>1
<1>9. page \in [Pages -> Models(written)] /\ \A p \in Pages : Model(page[p], written)
  BY <1>1, <1>5
<1>10. Typing
  <2>1. EngineTyping
    BY <1>1 DEF EngineTyping
  <2>2. /\ currentTurn \in Turns \cup {None} /\ lastTurn \in Turns \cup {None}
        /\ armed \subseteq Turns /\ allowed \in BOOLEAN
        /\ link \in [Pages -> {"off", "open", "on"}]
        /\ got \in [Pages -> SUBSET Honest]
        /\ gapped \cup cut \subseteq Pages
        /\ answered \in [Pages -> Turns \cup {None}] /\ rewound \in [Pages -> Turns \cup {None}]
    BY <1>1
  <2>3. log # <<>> /\ log[1].type = "session_status" /\ highestSeq \in [Pages -> 0..Len(log)]
    BY <1>1, <1>2, <1>3
  <2> QED
    BY <1>2, <1>7, <1>8, <1>9, <2>1, <2>2, <2>3, Zenon DEF Typing, F
<1>11. PhaseInv
  BY <1>1, <1>2 DEF PhaseInv
<1>12. ASSUME NEW p \in Pages PROVE Agrees(p)
  <2>1. highestSeq[p] = 0 /\ page[p] = EmptyModel
    BY <1>1
  <2>2. Journal(0) = EmptyModel
    BY <1>10, JournalStarts
  <2> QED
    BY <2>1, <2>2, Zenon DEF Agrees, SameTranscript
<1>13. ASSUME NEW p \in Pages PROVE CatchingUp(p)
  <2>1. inbox[p] = <<frame>>
    BY <1>1
  <2>2. 1 \in DOMAIN inbox[p] /\ inbox[p][1].seq = Len(log)
    BY <1>2, <1>4, <1>6, <2>1
  <2> QED
    BY <2>2, Zenon DEF CatchingUp
<1> QED
  BY <1>10, <1>11, <1>12, <1>13, Zenon DEF TranscriptInv, AgreeInv, CatchInv

LEMMA StutterStep ==
    ASSUME TranscriptInv, UNCHANGED vars
    PROVE  TranscriptInv'
<1>1. daemonUnchanged /\ UNCHANGED <<link, inbox, highestSeq, page, history>> /\ sent' = sent
  BY DEF vars, daemonUnchanged, netVars
<1>2. sent' \in [Pages -> Seq(Asked(written))] /\ \A q \in Pages : Resuming(sent[q]) => Resuming(sent'[q])
  BY <1>1, PageFacts
<1> QED
  BY <1>1, <1>2, OnlySent

LEMMA StepFacts == TranscriptInv /\ FilesInv /\ [Next]_vars => TranscriptInv'
<1> SUFFICES ASSUME TranscriptInv, FilesInv, [Next]_vars PROVE TranscriptInv'
  OBVIOUS
<1>1. ASSUME NEW p \in Pages, OnUserMessage(p) PROVE TranscriptInv'
  BY <1>1, OnUserMessageStep
<1>2. ASSUME NEW p \in Pages, OnPermissionResponse(p) PROVE TranscriptInv'
  BY <1>2, OnPermissionResponseStep
<1>3. ASSUME NEW p \in Pages, OnInterrupt(p) PROVE TranscriptInv'
  BY <1>3, OnInterruptStep
<1>4. ASSUME NEW p \in Pages, OnResume(p) PROVE TranscriptInv'
  BY <1>4, OnResumeStep
<1>5. ASSUME NEW p \in Pages, OnDownload(p) PROVE TranscriptInv'
  BY <1>5, OnDownloadStep
<1>6. CASE Answering
  BY <1>6, AnsweringStep
<1>7. CASE OnEnginePermission
  BY <1>7, OnEnginePermissionStep
<1>8. ASSUME NEW r \in Turns, TimeoutPermission(r) PROVE TranscriptInv'
  BY <1>8, TimeoutPermissionStep
<1>9. ASSUME NEW ok \in BOOLEAN, WriteEnds(ok) PROVE TranscriptInv'
  BY <1>9, WriteEndsStep
<1>10. ASSUME NEW p \in Pages, SendMessage(p) PROVE TranscriptInv'
  BY <1>10, SendMessageStep
<1>11. ASSUME NEW p \in Pages, Decide(p) PROVE TranscriptInv'
  BY <1>11, DecideStep
<1>12. ASSUME NEW p \in Pages, PressInterrupt(p) PROVE TranscriptInv'
  BY <1>12, PressInterruptStep
<1>13. ASSUME NEW p \in Pages, RequestDownload(p) PROVE TranscriptInv'
  BY <1>13, RequestDownloadStep
<1>14. ASSUME NEW p \in Pages, Read(p) PROVE TranscriptInv'
  BY <1>14, ReadStep
<1>15. ASSUME NEW p \in Pages, ReadFileData(p) PROVE TranscriptInv'
  BY <1>15, ReadFileDataStep
<1>16. ASSUME NEW p \in Pages, Drop(p) PROVE TranscriptInv'
  BY <1>16, DropStep
<1>17. ASSUME NEW p \in Pages, Reopen(p) PROVE TranscriptInv'
  BY <1>17, ReopenStep
<1>18. ASSUME NEW p \in Pages, OnAck(p) PROVE TranscriptInv'
  BY <1>18, OnAckStep
<1>19. CASE UNCHANGED vars
  BY <1>19, StutterStep
<1>20. CASE DaemonStep
  BY <1>1, <1>2, <1>3, <1>4, <1>5, <1>6, <1>7, <1>8, <1>9, <1>20, Zenon DEF DaemonStep
<1>21. CASE PageStep
  BY <1>10, <1>11, <1>12, <1>13, <1>14, <1>15, <1>16, <1>17, <1>18, <1>21, Zenon DEF PageStep
<1> QED
  BY <1>19, <1>20, <1>21, Zenon DEF Next

-----------------------------------------------------------------------------
(* The files.                                                              *)

\* A step that writes no file and begins no turn keeps what is known of the files.
LEMMA FilesKept ==
    ASSUME FilesInv, UNCHANGED <<file, written, lastTurn>>, currentTurn' \in {currentTurn, None}
    PROVE  FilesInv'
BY DEF FilesInv

LEMMA InitFiles == Init => FilesInv
<1> SUFFICES ASSUME Init PROVE FilesInv
  OBVIOUS
<1>1. file = [q \in Paths |-> Missing] /\ written = {} /\ currentTurn = None
  BY DEF Init, EngineInit
<1>2. Missing \in Versions /\ Missing.by = None
  BY DEF Versions, Missing, Version, None
<1> QED
  BY <1>1, <1>2 DEF FilesInv

\* A new turn is later than all that wrote a file.
LEMMA UserMessageFiles ==
    ASSUME TranscriptInv, FilesInv, NEW p \in Pages, OnUserMessage(p)
    PROVE  FilesInv'
<1>1. CASE UNCHANGED <<engineVars, currentTurn, lastTurn>>
  BY <1>1, FilesKept DEF engineVars
<1>2. CASE lastTurn' = lastTurn + 1 /\ currentTurn' = lastTurn' /\ Send(Head(sent[p]).withFile)
  <2>1. UNCHANGED <<file, written>>
    BY <1>2 DEF Send
  <2>2. lastTurn \in Nat /\ \A t \in written : t \in Nat
    BY DaemonFacts, MaxTurnsAssumption DEF Turns, None
  <2>3. \A t \in written : t <= lastTurn' /\ t # currentTurn'
    BY <1>2, <2>2 DEF FilesInv
  <2> QED
    BY <1>2, <2>1, <2>3 DEF FilesInv
<1> QED
  BY <1>1, <1>2 DEF OnUserMessage

\* The turn that ends its write is later than all that wrote a file before, whatever it leaves.
LEMMA WriteEndsFiles ==
    ASSUME TranscriptInv, FilesInv, NEW ok \in BOOLEAN, WriteEnds(ok)
    PROVE  FilesInv'
<1> DEFINE t == currentTurn
<1>1. /\ step = "writing" /\ UNCHANGED lastTurn
      /\ \/ ok /\ written' = written \cup {t} /\ LeftBy(t, "whole")
         \/ ~ok /\ UNCHANGED written /\ (UNCHANGED file \/ LeftBy(t, "half"))
  BY DEF WriteEnds, FinishWrite
<1>2. /\ t \in Turns /\ t # None /\ t = lastTurn /\ t \notin written /\ written \subseteq Turns
      /\ PathOf[t] \in Paths
  <2>1. t \in Turns /\ written \subseteq Turns
    BY <1>1, DaemonFacts
  <2>2. t # None
    BY <2>1, MaxTurnsAssumption DEF Turns, None
  <2> QED
    BY <2>1, <2>2, PathOfAssumption DEF FilesInv
<1>3. \A u \in written : u < t
  BY <1>2, MaxTurnsAssumption DEF FilesInv, Turns
<1>4. currentTurn' = None
  <2>1. Close(FinishWriteEmits(t, ok))
    BY DEF WriteEnds, Emit
  <2> QED
    BY <2>1, CloseForm, EndsOf
<1> HIDE DEF t
<1>5. ASSUME NEW part \in {"whole", "half"}, LeftBy(t, part)
      PROVE  /\ file' \in [Paths -> Versions]
             /\ \A q \in Paths : file'[q].by # None => PathOf[file'[q].by] = q
             /\ \A u \in written : file'[PathOf[u]].by >= u /\ (file'[PathOf[u]].by = u => file'[PathOf[u]].part = "whole")
             /\ file'[PathOf[t]].by = t /\ file'[PathOf[t]].part = part
  <2>1. file' = [file EXCEPT ![PathOf[t]] = Version(t, part)] /\ file \in [Paths -> Versions]
    BY <1>5 DEF LeftBy, FilesInv
  <2>2. Version(t, part) \in Versions /\ Version(t, part).by = t /\ Version(t, part).part = part
    BY <1>2 DEF Versions, Version
  <2>3. ASSUME NEW q \in Paths PROVE file'[q] = IF q = PathOf[t] THEN Version(t, part) ELSE file[q]
    BY <2>1
  <2>4. file' \in [Paths -> Versions]
    BY <2>1, <2>2
  <2>5. ASSUME NEW q \in Paths, file'[q].by # None PROVE PathOf[file'[q].by] = q
    BY <2>2, <2>3, <2>5 DEF FilesInv
  <2>6. ASSUME NEW u \in written
        PROVE  file'[PathOf[u]].by >= u /\ (file'[PathOf[u]].by = u => file'[PathOf[u]].part = "whole")
    <3>1. PathOf[u] \in Paths /\ u \in Turns
      BY <1>2, PathOfAssumption
    <3>2. u < t /\ u # t /\ t >= u
      BY <1>2, <1>3, <3>1, MaxTurnsAssumption DEF Turns
    <3>3. CASE PathOf[u] = PathOf[t]
      BY <2>2, <2>3, <3>1, <3>2, <3>3
    <3>4. CASE PathOf[u] # PathOf[t]
      BY <2>3, <3>1, <3>4 DEF FilesInv
    <3> QED
      BY <3>3, <3>4
  <2> QED
    BY <1>2, <2>2, <2>3, <2>4, <2>5, <2>6
<1>6. CASE ok /\ written' = written \cup {t} /\ LeftBy(t, "whole")
  <2>1. /\ file' \in [Paths -> Versions]
        /\ \A q \in Paths : file'[q].by # None => PathOf[file'[q].by] = q
        /\ \A u \in written : file'[PathOf[u]].by >= u /\ (file'[PathOf[u]].by = u => file'[PathOf[u]].part = "whole")
        /\ file'[PathOf[t]].by = t /\ file'[PathOf[t]].part = "whole"
    BY <1>5, <1>6
  <2>2. t >= t /\ t <= lastTurn'
    BY <1>1, <1>2, MaxTurnsAssumption DEF Turns
  <2>3. \A u \in written' : /\ file'[PathOf[u]].by >= u /\ (file'[PathOf[u]].by = u => file'[PathOf[u]].part = "whole")
                            /\ u <= lastTurn'
    BY <1>1, <1>6, <2>1, <2>2 DEF FilesInv
  <2> QED
    BY <1>4, <2>1, <2>3 DEF FilesInv
<1>7. CASE UNCHANGED <<written, file>>
  BY <1>1, <1>4, <1>7, FilesKept
<1>8. CASE UNCHANGED written /\ LeftBy(t, "half")
  <2>1. /\ file' \in [Paths -> Versions]
        /\ \A q \in Paths : file'[q].by # None => PathOf[file'[q].by] = q
        /\ \A u \in written : file'[PathOf[u]].by >= u /\ (file'[PathOf[u]].by = u => file'[PathOf[u]].part = "whole")
    BY <1>5, <1>8
  <2> QED
    BY <1>1, <1>4, <1>8, <2>1 DEF FilesInv
<1> QED
  BY <1>1, <1>6, <1>7, <1>8

LEMMA FilesStep == TranscriptInv /\ FilesInv /\ [Next]_vars => FilesInv'
<1> SUFFICES ASSUME TranscriptInv, FilesInv, [Next]_vars PROVE FilesInv'
  OBVIOUS
<1>1. ASSUME NEW events, Close(events) PROVE currentTurn' \in {currentTurn, None}
  BY <1>1, CloseForm
<1>2. ASSUME NEW p \in Pages, OnUserMessage(p) PROVE FilesInv'
  BY <1>2, UserMessageFiles
<1>3. ASSUME NEW r, NEW decision, NEW before, SettleRequest(r, decision, before), UNCHANGED lastTurn
      PROVE  FilesInv'
  <2>1. UNCHANGED <<file, written>>
    BY <1>3 DEF SettleRequest, Settle, engineVars
  <2> QED
    BY <1>1, <1>3, <2>1, FilesKept DEF SettleRequest
<1>4. ASSUME NEW p \in Pages, OnPermissionResponse(p) PROVE FilesInv'
  <2>1. CASE UNCHANGED <<engineVars, currentTurn, lastTurn>>
    BY <2>1, FilesKept DEF engineVars
  <2>2. CASE SettleRequest(Head(sent[p]).of, Head(sent[p]).decision, <<>>) /\ UNCHANGED lastTurn
    BY <1>3, <2>2
  <2> QED
    BY <1>4, <2>1, <2>2 DEF OnPermissionResponse
<1>5. ASSUME NEW r \in Turns, TimeoutPermission(r) PROVE FilesInv'
  BY <1>3, <1>5 DEF TimeoutPermission
<1>6. ASSUME NEW p \in Pages, OnInterrupt(p) PROVE FilesInv'
  <2>1. UNCHANGED <<file, written, lastTurn>>
    BY <1>6 DEF OnInterrupt, Interrupt
  <2> QED
    BY <1>1, <1>6, <2>1, FilesKept DEF OnInterrupt, Emit
<1>7. CASE Answering
  <2>1. UNCHANGED <<file, written, lastTurn>>
    BY <1>7 DEF Answering, Answer
  <2> QED
    BY <1>1, <1>7, <2>1, FilesKept DEF Answering, Emit
<1>8. CASE OnEnginePermission
  BY <1>8, FilesKept DEF OnEnginePermission, RequestPermission
<1>9. ASSUME NEW ok \in BOOLEAN, WriteEnds(ok) PROVE FilesInv'
  BY <1>9, WriteEndsFiles
<1>10. CASE UNCHANGED <<engineVars, sessionVars>>
  BY <1>10, FilesKept DEF engineVars, sessionVars
<1>11. ASSUME NEW p \in Pages, OnResume(p) \/ OnDownload(p) PROVE UNCHANGED <<engineVars, sessionVars>>
  BY <1>11, Zenon DEF OnResume, OnDownload
<1>12. CASE DaemonStep
  BY <1>2, <1>4, <1>5, <1>6, <1>7, <1>8, <1>9, <1>10, <1>11, <1>12, Zenon DEF DaemonStep
<1>13. CASE PageStep
  <2>1. UNCHANGED <<engineVars, sessionVars>>
    BY <1>13, Zenon
    DEF PageStep, SendMessage, Decide, PressInterrupt, RequestDownload, Read, ReadFileData, Drop,
        Reopen, OnAck, daemonUnchanged
  <2> QED
    BY <1>10, <2>1
<1>14. CASE UNCHANGED vars
  BY <1>10, <1>14 DEF vars
<1> QED
  BY <1>12, <1>13, <1>14, Zenon DEF Next

\* Whatever the users do on any page and wherever links break, the journal fits the engine's step,
\* every page fits the journal, and a file once written is there until a later turn writes it.
THEOREM Invariance == Spec => [](TranscriptInv /\ FilesInv)
  BY InitFacts, InitFiles, StepFacts, FilesStep, PTL DEF Spec

-----------------------------------------------------------------------------
(* What the invariant says of the pages.                                   *)

LEMMA TypeOKHolds == TranscriptInv /\ FilesInv => TypeOK
<1> SUFFICES ASSUME TranscriptInv, FilesInv PROVE TypeOK
  OBVIOUS
<1>1. /\ EngineTypeOK
      /\ currentTurn \in Turns \cup {None} /\ lastTurn \in Turns \cup {None}
      /\ armed \subseteq Turns /\ allowed \in BOOLEAN
      /\ gapped \cup cut \subseteq Pages
      /\ highestSeq \in [Pages -> 0..Len(log)] /\ link \in [Pages -> {"off", "open", "on"}]
      /\ answered \in [Pages -> Turns \cup {None}] /\ rewound \in [Pages -> Turns \cup {None}]
  BY DEF TranscriptInv, Typing, EngineTyping, EngineTypeOK, FilesInv
<1>2. written \subseteq Turns /\ log \in Seq(Sound(written)) /\ sent \in [Pages -> Seq(Asked(written))]
      /\ inbox \in [Pages -> Seq(FrameSet(Len(log), written))] /\ got \in [Pages -> SUBSET Honest]
      /\ \A p \in Pages : Model(page[p], written)
  BY PageFacts
<1>3. log \in Seq(Events)
  <2>1. Sound(written) \subseteq Events
    BY DEF Sound
  <2> QED
    BY <1>2, <2>1, SeqsGrow
<1>4. sent \in [Pages -> Seq(Commands)]
  <2>1. Asked(written) \subseteq Commands
    BY DEF Asked
  <2>2. Seq(Asked(written)) \subseteq Seq(Commands)
    BY <2>1, SeqsGrow
  <2> QED
    BY <1>2, <2>2
<1>5. ASSUME NEW p \in Pages
      PROVE  inbox[p] \in Seq([seq : 1..Len(log), event : Events] \cup [seq : {0}, event : Downloads])
  <2> DEFINE all == [seq : 1..Len(log), event : Events] \cup [seq : {0}, event : Downloads]
  <2>1. FrameSet(Len(log), written) \subseteq all
    BY DEF FrameSet, Sound, Honest
  <2> HIDE DEF all
  <2>2. Seq(FrameSet(Len(log), written)) \subseteq Seq(all)
    BY <2>1, SeqsGrow
  <2>3. inbox[p] \in Seq(all)
    BY <1>2, <2>2
  <2> QED
    BY <2>3 DEF all
<1>6. \A p \in Pages : got[p] \subseteq Downloads
  BY <1>2 DEF Honest
<1>7. ASSUME NEW p \in Pages
      PROVE  /\ page[p].live \in 0..Len(page[p].items)
             /\ page[p].live # 0 => page[p].items[page[p].live].streaming
             /\ page[p].edits \cup page[p].changed \subseteq Turns
             /\ page[p].pending \in Turns \cup {None}
             /\ page[p].state \in States
  <2> DEFINE m == page[p]
  <2>1. Model(m, written)
    BY <1>2
  <2> HIDE DEF m
  <2>2. m.items \in Seq(Items(written)) /\ m.edits \subseteq Turns /\ m.changed \subseteq written
        /\ m.pending \in Turns \cup {None} /\ m.state \in States
        /\ (m.live # 0 => m.live \in 1..Len(m.items) /\ m.items[m.live].streaming)
    BY <2>1 DEF Model, Models
  <2>3. Len(m.items) \in Nat
    BY <2>2
  <2> QED
    BY <1>2, <2>2, <2>3 DEF m
<1> QED
  BY <1>1, <1>3, <1>4, <1>5, <1>6, <1>7, Zenon DEF TypeOK

\* A page that has handled everything sent to it is at the end of the journal.
LEMMA CaughtUpFacts ==
    ASSUME TranscriptInv, NEW p \in Pages, CaughtUp(p)
    PROVE  Journal(highestSeq[p]) = ModelOf(log)
<1>1. link[p] = "on" /\ inbox[p] = <<>> /\ \A i \in DOMAIN sent[p] : sent[p][i].type # "resume"
  BY DEF CaughtUp
<1>2. ~ \E i \in DOMAIN inbox[p] : inbox[p][i].seq = Len(log)
  BY <1>1
<1>3. CatchingUp(p) /\ log \in Seq(Sound(written))
  BY PageFacts
<1>4. highestSeq[p] = Len(log)
  BY <1>1, <1>2, <1>3, Zenon DEF CatchingUp
<1>5. SubSeq(log, 1, Len(log)) = log
  BY <1>3, PrefixFacts
<1> QED
  BY <1>4, <1>5 DEF Journal

LEMMA LiveViewHolds == TranscriptInv => LiveViewIsJournalView
<1> SUFFICES ASSUME TranscriptInv, NEW p \in Pages \ (gapped \cup cut)
             PROVE  page[p].items = ItemsOf(SubSeq(log, 1, highestSeq[p]))
  BY DEF LiveViewIsJournalView
<1>1. Agrees(p)
  BY PageFacts
<1>2. page[p].items = Journal(highestSeq[p]).items
  BY <1>1, Zenon DEF Agrees, SameTranscript
<1> QED
  BY <1>2 DEF Journal, ItemsOf

LEMMA PromptsHold == TranscriptInv => PromptsAgree
<1> SUFFICES ASSUME TranscriptInv, NEW p \in Pages \ gapped, CaughtUp(p)
             PROVE  \/ page[p].pending = Waiting
                    \/ page[p].pending = None /\ Waiting \in {answered[p], rewound[p]}
  BY DEF PromptsAgree
<1>1. Agrees(p)
  BY PageFacts
<1>2. Journal(highestSeq[p]) = ModelOf(log)
  BY CaughtUpFacts
<1>3. ModelOf(log).pending = Waiting
  BY DEF TranscriptInv, PhaseInv, Phase, Waiting
<1> QED
  BY <1>1, <1>2, <1>3, Zenon DEF Agrees

LEMMA FinishedHolds == TranscriptInv => FinishedTurnsAreWhole
<1> SUFFICES ASSUME TranscriptInv PROVE FinishedTurnsAreWhole
  OBVIOUS
<1>1. ASSUME NEW p \in Pages \ (gapped \cup cut), CaughtUp(p), currentTurn = None
      PROVE  /\ \A item \in ToSet(page[p].items) : item.kind = "assistant" => ~item.streaming
             /\ {item.paths : item \in {i \in ToSet(page[p].items) : i.kind = "bundle"}} = {{t} : t \in written}
  <2> DEFINE m == page[p]
             j == ModelOf(log)
  <2>1. Agrees(p) /\ Model(m, written)
    BY PageFacts
  <2>2. Journal(highestSeq[p]) = j
    BY <1>1, CaughtUpFacts
  <2>3. SameTranscript(m, j)
    BY <2>1, <2>2, Zenon DEF Agrees
  <2>4. OnlyLiveStreams(j) /\ j.live = 0 /\ Bundles(j.items) = Singles(written)
    BY <1>1 DEF TranscriptInv, PhaseInv, Phase
  <2> HIDE DEF m, j
  <2>5. OnlyLiveStreams(m) /\ m.live = 0 /\ Bundles(m.items) = Singles(written)
    BY <2>3, <2>4 DEF SameTranscript, OnlyLiveStreams
  <2>6. m.items \in Seq(Items(written)) /\ DOMAIN m.items = 1..Len(m.items)
    BY <2>1 DEF Model, Models
  <2>7. ASSUME NEW item \in ToSet(m.items), item.kind = "assistant" PROVE ~item.streaming
    <3>1. PICK i \in 1..Len(m.items) : item = m.items[i]
      BY <2>6 DEF ToSet
    <3>2. i # 0
      BY <3>1
    <3> QED
      BY <2>5, <2>7, <3>1, <3>2 DEF OnlyLiveStreams
  <2>8. {item.paths : item \in {i \in ToSet(m.items) : i.kind = "bundle"}} = Bundles(m.items)
    BY <2>6 DEF ToSet, Bundles
  <2> QED
    BY <2>5, <2>7, <2>8, Zenon DEF m, Singles
<1> QED
  BY <1>1, Zenon DEF FinishedTurnsAreWhole

LEMMA CardsHold == TranscriptInv => CardsGiveFinishedFiles
<1> SUFFICES ASSUME TranscriptInv, NEW p \in Pages, NEW d \in got[p], d.via = "zip"
             PROVE  Finished(d) \/ Spoilt(d)
  BY DEF CardsGiveFinishedFiles, Finished, Spoilt
<1>1. d \in Honest
  BY PageFacts
<1> QED
  BY <1>1 DEF Honest

\* At every moment, frames on the way or not, a page shows what the journal up to its cursor makes.
THEOREM PagesFollowTheJournal == Spec => []AgreeInv
  BY Invariance, PTL DEF TranscriptInv

\* The variables keep their types: a page's live bubble is one of its items and streams, and the
\* frames on the way have numbers of the journal.
THEOREM TypeCorrectness == Spec => []TypeOK
  BY Invariance, TypeOKHolds, PTL

\* The transcript of a page is the one it would build from the journal up to its cursor, for the rules
\* of the live view and of a past session are the same (session-model.ts).
THEOREM LiveView == Spec => []LiveViewIsJournalView
  BY Invariance, LiveViewHolds, PTL

\* A page that followed the turns has nothing streaming when none runs, and a download card for each
\* file written and no other.
THEOREM FinishedTurns == Spec => []FinishedTurnsAreWhole
  BY Invariance, FinishedHolds, PTL

\* Whatever paths the turns name, the download card of a turn brings the file as that turn or a later
\* one left it, or an error if that is over the cap; part of a file comes only from a later turn that
\* writes the same path, or failed to (MockEngine.ts, writeFile; Session.ts, serveBundleRequest).
THEOREM CardsAreServed == Spec => []CardsGiveFinishedFiles
  BY Invariance, CardsHold, PTL

\* A page that caught up shows a prompt exactly when the engine waits for the answer, but for the pages
\* that answered it and those whose prompt an old status took away (session-model.ts, decide).
THEOREM Prompts == Spec => []PromptsAgree
  BY Invariance, PromptsHold, PTL
=============================================================================
