------------------------------ MODULE EventLog ------------------------------
(***************************************************************************)
(* SessionStorage (packages/daemon/src/storage/SessionStorage.ts): the     *)
(* numbered events of a session, the window of recent ones that serves     *)
(* reconnecting browsers, and the window of a tool's output.               *)
(*                                                                         *)
(* A log is a record [seq, replay, total, window]; the operators are the   *)
(* methods of the class as functions of it.  Contents are ids: the body    *)
(* of an event is the sequence of ids it carries, one for an event a       *)
(* session pushes.  Output is that of one tool, a character per chunk.     *)
(***************************************************************************)
EXTENDS Naturals, Sequences, SequencesExt

CONSTANTS MaxReplay,  \* maxReplayEvents
          MaxStream   \* maxToolStreamBytes

ASSUME WindowAssumption == MaxReplay \in Nat \ {0} /\ MaxStream \in Nat \ {0}

Kinds == {"text", "status", "stream"}

EmptyLog == [seq |-> 0, replay |-> <<>>, total |-> 0, window |-> <<>>]

\* splice(0, length - n): the last n elements
Newest(s, n) == IF Len(s) > n THEN SubSeq(s, Len(s) - n + 1, Len(s)) ELSE s

\* Slip: the window is never trimmed.
PushReplayUntrimmed(log, e) == [log EXCEPT !.replay = Append(@, e)]

\* pushReplay()
PushReplay(log, e) == [log EXCEPT !.replay = Newest(Append(@, e), MaxReplay)]

\* appendWindow: chunks of a stream are accounted, other events leave it alone
Account(log, e) ==
    IF e.kind = "stream"
    THEN [log EXCEPT !.total = @ + Len(e.body),
                     !.window = Newest(@ \o e.body, MaxStream)]
    ELSE log

\* append(): number the event, stamp a chunk with the offset it starts at, window it
Stamped(log, kind, id) ==
    [seq |-> log.seq + 1,
     kind |-> kind,
     offset |-> IF kind = "stream" THEN log.total ELSE 0,
     body |-> <<id>>]

AppendEvent(log, e) == [PushReplay(Account(log, e), e) EXCEPT !.seq = e.seq]

\* load(): adds the journal's events to whatever the log already holds
LoadEvent(log, e) ==
    [PushReplay(Account(log, e), e) EXCEPT !.seq = IF e.seq > @ THEN e.seq ELSE @]

Load(log, records) ==
    LET loaded[n \in 0..Len(records)] ==
            IF n = 0 THEN log ELSE LoadEvent(loaded[n - 1], records[n])
    IN  loaded[Len(records)]

\* eventsSince(): filter()
EventsSince(log, since) ==
    LET kept[n \in 0..Len(log.replay)] ==
            IF n = 0 THEN <<>>
            ELSE IF log.replay[n].seq > since THEN Append(kept[n - 1], log.replay[n])
            ELSE kept[n - 1]
    IN  kept[Len(log.replay)]

\* toolStreamSince(): what the window still has after `offset`, as the event that backfill sends
Splice(log, offset) ==
    LET start == log.total - Len(log.window)
        from == IF offset > start THEN offset ELSE start
    IN  IF from >= log.total
        THEN <<>>
        ELSE <<[seq |-> log.seq, kind |-> "stream", offset |-> from,
                body |-> SubSeq(log.window, from - start + 1, Len(log.window))]>>
=============================================================================
