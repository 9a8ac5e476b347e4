-------------------------- MODULE SessionViewProofs --------------------------
(***************************************************************************)
(* What the page shows and where its messages go, for any number of pages, *)
(* sessions, messages and broken links (SessionView.tla).                  *)
(*                                                                         *)
(* Neither invariant is inductive.  That a message gets to its session     *)
(* rests on where it is before it does: in the page's pendingSendRef       *)
(* behind a command that resumes its session, or in a command of its own,  *)
(* and never in both (QueuedInv, CommandsInv); and while the switch that   *)
(* it waits for is under way, or its own command is, the active session is *)
(* the one it was typed for unless another switch came between (AimsInv).  *)
(***************************************************************************)
EXTENDS SessionView, TLAPS

\* a switch is on its way to the page q
Switching(q) == \E i \in DOMAIN toPage[q] : toPage[q][i].type = "switched"

\* the command that carries m is on its way from the page q
Sending(q, m) == \E i \in DOMAIN toDaemon[q] :
                    toDaemon[q][i].type = "message" /\ toDaemon[q][i].message = m

\* the message that waits on a page was typed there and has not reached a session
QueuedInv ==
    \A q \in Pages : queued[q] # 0 =>
        queued[q] \in DOMAIN typed /\ typed[queued[q]] = q /\ got[queued[q]] = 0

CommandOK(q, i) ==
    LET c == toDaemon[q][i] m == c.message IN
    /\ m # 0 => m \in DOMAIN typed /\ typed[m] = q
    /\ c.type = "open" => c.session = aimed[m]
    /\ c.type = "message" =>
         /\ got[m] = 0 /\ queued[q] # m
         /\ \A j \in DOMAIN toDaemon[q] :
               toDaemon[q][j].type = "message" /\ toDaemon[q][j].message = m => j = i

\* a command is about a message of its own page; one that carries a message is the only one that
\* does, and that message neither waits nor has arrived
CommandsInv == \A q \in Pages : \A i \in DOMAIN toDaemon[q] : CommandOK(q, i)

\* what is not typed has not arrived
FreshInv == \A m \in Messages : m \notin DOMAIN typed => got[m] = 0

\* nothing but the switch that a message asked for has come between
AimsInv ==
    \A m \in DOMAIN typed : got[m] = 0 /\ m \notin disturbed =>
        (Switching(typed[m]) \/ Sending(typed[m], m) => active = aimed[m])

\* The inductive invariant.
ViewInv ==
    /\ DisplayInvariant
    /\ QueuedInv /\ CommandsInv /\ FreshInv /\ AimsInv
    /\ MessageReachesItsSession

-----------------------------------------------------------------------------
(* A sequence on a link gets one element more, loses its first or all.     *)

LEMMA AppendAt ==
    ASSUME NEW S, NEW f \in [Pages -> Seq(S)], NEW p \in Pages, NEW e \in S, NEW g,
           g = [f EXCEPT ![p] = Append(@, e)]
    PROVE  /\ g \in [Pages -> Seq(S)]
           /\ \A q \in Pages : q # p => g[q] = f[q]
           /\ Len(f[p]) \in Nat /\ DOMAIN f[p] = 1..Len(f[p]) /\ DOMAIN g[p] = 1..(Len(f[p]) + 1)
           /\ \A i \in 1..Len(f[p]) : g[p][i] = f[p][i]
           /\ g[p][Len(f[p]) + 1] = e
<1> DEFINE s == f[p]
<1>1. s \in Seq(S)
  OBVIOUS
<1>2. /\ Append(s, e) \in Seq(S) /\ Len(s) \in Nat /\ DOMAIN s = 1..Len(s)
      /\ DOMAIN Append(s, e) = 1..(Len(s) + 1)
      /\ \A i \in 1..Len(s) : Append(s, e)[i] = s[i]
      /\ Append(s, e)[Len(s) + 1] = e
  <2> HIDE DEF s
  <2> QED
    BY <1>1
<1>3. g[p] = Append(s, e) /\ \A q \in Pages : q # p => g[q] = f[q]
  OBVIOUS
<1>4. g \in [Pages -> Seq(S)]
  BY <1>2
<1> QED
  BY <1>2, <1>3, <1>4

LEMMA TailAt ==
    ASSUME NEW S, NEW f \in [Pages -> Seq(S)], NEW p \in Pages, f[p] # <<>>, NEW g,
           g = [f EXCEPT ![p] = Tail(@)]
    PROVE  /\ g \in [Pages -> Seq(S)]
           /\ \A q \in Pages : q # p => g[q] = f[q]
           /\ Len(f[p]) \in Nat \ {0} /\ DOMAIN f[p] = 1..Len(f[p])
           /\ DOMAIN g[p] = 1..(Len(f[p]) - 1)
           /\ \A i \in 1..(Len(f[p]) - 1) : i + 1 \in DOMAIN f[p] /\ g[p][i] = f[p][i + 1]
           /\ 1 \in DOMAIN f[p] /\ Head(f[p]) = f[p][1] /\ Head(f[p]) \in S
<1> DEFINE s == f[p]
<1>1. s \in Seq(S) /\ s # <<>>
  OBVIOUS
<1>2. /\ Tail(s) \in Seq(S) /\ Len(s) \in Nat \ {0} /\ DOMAIN s = 1..Len(s)
      /\ DOMAIN Tail(s) = 1..(Len(s) - 1)
      /\ \A i \in 1..(Len(s) - 1) : i + 1 \in DOMAIN s /\ Tail(s)[i] = s[i + 1]
      /\ 1 \in DOMAIN s /\ Head(s) = s[1] /\ Head(s) \in S
  <2> HIDE DEF s
  <2> QED
    BY <1>1
<1>3. g[p] = Tail(s) /\ \A q \in Pages : q # p => g[q] = f[q]
  OBVIOUS
<1>4. g \in [Pages -> Seq(S)]
  BY <1>2
<1> QED
  BY <1>2, <1>3, <1>4

LEMMA EmptyAt ==
    ASSUME NEW S, NEW f \in [Pages -> Seq(S)], NEW p \in Pages, NEW g,
           g = [f EXCEPT ![p] = <<>>]
    PROVE  /\ g \in [Pages -> Seq(S)]
           /\ \A q \in Pages : q # p => g[q] = f[q]
           /\ DOMAIN g[p] = {}
<1>1. <<>> \in Seq(S) /\ DOMAIN <<>> = {}
  OBVIOUS
<1>2. g[p] = <<>> /\ \A q \in Pages : q # p => g[q] = f[q]
  OBVIOUS
<1>3. g \in [Pages -> Seq(S)]
  BY <1>1
<1> QED
  BY <1>1, <1>2, <1>3

-----------------------------------------------------------------------------
(* The commands of a page.                                                 *)

LEMMA CommandTypes ==
    /\ \A s \in Sessions : Command("journal", s, 0) \in Commands /\ Command("delete", s, 0) \in Commands
    /\ Command("new", 0, 0) \in Commands
    /\ \A s \in Sessions, m \in Messages : Command("open", s, m) \in Commands
    /\ \A m \in Messages : Command("message", 0, m) \in Commands
    /\ \A type, s, m : /\ Command(type, s, m).type = type
                       /\ Command(type, s, m).session = s
                       /\ Command(type, s, m).message = m
    /\ \A c \in Commands :
         /\ c.type \in {"journal", "delete", "new", "open", "message"}
         /\ c.type \in {"journal", "delete", "open"} => c.session \in Sessions
         /\ c.type \in {"open", "message"} => c.message \in Messages
         /\ c.type \notin {"open", "message"} => c.message = 0
         /\ c.message \in Messages \cup {0}
  BY DEF Command, Commands

\* A command that is not about a message disturbs no other.
LEMMA PlainCommand ==
    ASSUME TypeOK, CommandsInv, NEW p \in Pages, NEW c \in Commands,
           c.type \notin {"open", "message"}, SendIfReady(p, c),
           UNCHANGED <<typed, aimed, got, queued>>
    PROVE  /\ toDaemon' \in [Pages -> Seq(Commands)]
           /\ CommandsInv'
           /\ \A q \in Pages, m \in Messages : Sending(q, m)' => Sending(q, m)
<1>1. CASE ~ready[p]
  BY <1>1 DEF SendIfReady, TypeOK, CommandsInv, CommandOK, Sending
<1>2. CASE ready[p]
  <2>1. toDaemon \in [Pages -> Seq(Commands)] /\ toDaemon' = [toDaemon EXCEPT ![p] = Append(@, c)]
    BY <1>2 DEF SendIfReady, Send, TypeOK
  <2>2. /\ toDaemon' \in [Pages -> Seq(Commands)]
        /\ \A q \in Pages : q # p => toDaemon'[q] = toDaemon[q]
        /\ Len(toDaemon[p]) \in Nat /\ DOMAIN toDaemon[p] = 1..Len(toDaemon[p])
        /\ DOMAIN toDaemon'[p] = 1..(Len(toDaemon[p]) + 1)
        /\ \A i \in 1..Len(toDaemon[p]) : toDaemon'[p][i] = toDaemon[p][i]
        /\ toDaemon'[p][Len(toDaemon[p]) + 1] = c
    BY <2>1, AppendAt
  <2>3. c.message = 0 /\ c.type # "open" /\ c.type # "message"
    BY CommandTypes
  <2>4. ASSUME NEW q \in Pages, NEW i \in DOMAIN toDaemon'[q]
        PROVE  CommandOK(q, i)'
    <3>1. CASE q # p
      BY <2>2, <3>1 DEF CommandsInv, CommandOK
    <3>2. CASE q = p /\ i = Len(toDaemon[p]) + 1
      BY <2>2, <2>3, <3>2 DEF CommandOK
    <3>3. CASE q = p /\ i \in DOMAIN toDaemon[p]
      <4>1. CommandOK(p, i)
        BY <3>3 DEF CommandsInv
      <4>2. toDaemon'[p][i] = toDaemon[p][i] /\ i \in DOMAIN toDaemon[p]
        BY <2>2, <3>3
      <4>3. ASSUME NEW j \in DOMAIN toDaemon'[p], toDaemon'[p][j].type = "message"
            PROVE  j \in DOMAIN toDaemon[p] /\ toDaemon'[p][j] = toDaemon[p][j]
        <5>1. j # Len(toDaemon[p]) + 1
          BY <2>2, <2>3, <4>3
        <5>2. j \in 1..Len(toDaemon[p])
          BY <2>2, <5>1
        <5> QED
          BY <2>2, <5>2
      <4> QED
        BY <3>3, <4>1, <4>2, <4>3 DEF CommandOK
    <3> QED
      BY <2>2, <3>1, <3>2, <3>3
  <2>5. ASSUME NEW q \in Pages, NEW m \in Messages, Sending(q, m)'
        PROVE  Sending(q, m)
    <3>1. CASE q # p
      BY <2>2, <2>5, <3>1 DEF Sending
    <3>2. CASE q = p
      <4>1. PICK i \in DOMAIN toDaemon'[p] : toDaemon'[p][i].type = "message" /\ toDaemon'[p][i].message = m
        BY <2>5, <3>2 DEF Sending
      <4>2. i # Len(toDaemon[p]) + 1
        BY <2>2, <2>3, <4>1
      <4>3. i \in 1..Len(toDaemon[p])
        BY <2>2, <4>2
      <4> QED
        BY <2>2, <3>2, <4>1, <4>3 DEF Sending
    <3> QED
      BY <3>1, <3>2
  <2> QED
    BY <2>2, <2>4, <2>5 DEF CommandsInv
<1> QED
  BY <1>1, <1>2

\* The daemon takes a command, the others stay as they are.
LEMMA TakenCommand ==
    ASSUME TypeOK, CommandsInv, NEW p \in Pages, toDaemon[p] # <<>>,
           toDaemon' = [toDaemon EXCEPT ![p] = Tail(@)]
    PROVE  /\ toDaemon' \in [Pages -> Seq(Commands)]
           /\ Head(toDaemon[p]) \in Commands
           /\ 1 \in DOMAIN toDaemon[p] /\ Head(toDaemon[p]) = toDaemon[p][1]
           /\ CommandOK(p, 1)
           /\ \A q \in Pages, m \in Messages : Sending(q, m)' => Sending(q, m)
           /\ \A m \in Messages : Head(toDaemon[p]).type = "message" /\ m = Head(toDaemon[p]).message
                                    => ~Sending(p, m)'
<1>1. /\ toDaemon' \in [Pages -> Seq(Commands)]
      /\ \A q \in Pages : q # p => toDaemon'[q] = toDaemon[q]
      /\ Len(toDaemon[p]) \in Nat \ {0} /\ DOMAIN toDaemon[p] = 1..Len(toDaemon[p])
      /\ DOMAIN toDaemon'[p] = 1..(Len(toDaemon[p]) - 1)
      /\ \A i \in 1..(Len(toDaemon[p]) - 1) :
            i + 1 \in DOMAIN toDaemon[p] /\ toDaemon'[p][i] = toDaemon[p][i + 1]
      /\ 1 \in DOMAIN toDaemon[p] /\ Head(toDaemon[p]) = toDaemon[p][1]
      /\ Head(toDaemon[p]) \in Commands
  <2>1. toDaemon \in [Pages -> Seq(Commands)]
    BY DEF TypeOK
  <2> QED
    BY <2>1, TailAt
<1>2. CommandOK(p, 1)
  BY <1>1 DEF CommandsInv
<1>3. ASSUME NEW q \in Pages, NEW m \in Messages, Sending(q, m)'
      PROVE  Sending(q, m)
  BY <1>1, <1>3 DEF Sending
<1>4. ASSUME NEW m \in Messages, Head(toDaemon[p]).type = "message", m = Head(toDaemon[p]).message,
             Sending(p, m)'
      PROVE  FALSE
  <2>1. PICK i \in DOMAIN toDaemon'[p] : toDaemon'[p][i].type = "message" /\ toDaemon'[p][i].message = m
    BY <1>4 DEF Sending
  <2>2. i + 1 \in DOMAIN toDaemon[p] /\ toDaemon'[p][i] = toDaemon[p][i + 1] /\ i + 1 # 1
    BY <1>1, <2>1
  <2> QED
    BY <1>1, <1>2, <1>4, <2>1, <2>2 DEF CommandOK
<1> QED
  BY <1>1, <1>2, <1>3, <1>4

LEMMA OtherCommandsHold ==
    ASSUME TypeOK, CommandsInv, NEW p \in Pages, toDaemon[p] # <<>>,
           toDaemon' = [toDaemon EXCEPT ![p] = Tail(@)],
           UNCHANGED <<typed, aimed, queued>>,
           \A q \in Pages, m \in Messages : Sending(q, m)' => got'[m] = got[m]
    PROVE  CommandsInv'
<1>1. /\ toDaemon' \in [Pages -> Seq(Commands)]
      /\ \A q \in Pages : q # p => toDaemon'[q] = toDaemon[q]
      /\ Len(toDaemon[p]) \in Nat \ {0} /\ DOMAIN toDaemon[p] = 1..Len(toDaemon[p])
      /\ DOMAIN toDaemon'[p] = 1..(Len(toDaemon[p]) - 1)
      /\ \A i \in 1..(Len(toDaemon[p]) - 1) :
            i + 1 \in DOMAIN toDaemon[p] /\ toDaemon'[p][i] = toDaemon[p][i + 1]
  <2>1. toDaemon \in [Pages -> Seq(Commands)]
    BY DEF TypeOK
  <2> QED
    BY <2>1, TailAt
<1> SUFFICES ASSUME NEW q \in Pages, NEW i \in DOMAIN toDaemon'[q]
             PROVE  CommandOK(q, i)'
  BY DEF CommandsInv
<1>2. toDaemon'[q][i] \in Commands
  BY <1>1
<1>3. toDaemon'[q][i].type = "message" => got'[toDaemon'[q][i].message] = got[toDaemon'[q][i].message]
  BY <1>2, CommandTypes DEF Sending
<1>4. CASE q # p
  <2>1. CommandOK(q, i) /\ toDaemon'[q] = toDaemon[q]
    BY <1>1, <1>4 DEF CommandsInv
  <2> QED
    BY <1>3, <2>1 DEF CommandOK
<1>5. CASE q = p
  <2>1. CommandOK(p, i + 1) /\ toDaemon'[p][i] = toDaemon[p][i + 1]
    BY <1>1, <1>5 DEF CommandsInv
  <2>2. ASSUME NEW j \in DOMAIN toDaemon'[p],
               toDaemon'[p][i].type = "message", toDaemon'[p][j].type = "message",
               toDaemon'[p][j].message = toDaemon'[p][i].message
        PROVE  j = i
    <3>1. j \in 1..(Len(toDaemon[p]) - 1) /\ i \in 1..(Len(toDaemon[p]) - 1)
      BY <1>1, <1>5
    <3>2. j + 1 \in DOMAIN toDaemon[p] /\ toDaemon'[p][j] = toDaemon[p][j + 1]
      BY <1>1, <3>1
    <3>3. j + 1 = i + 1
      BY <2>1, <2>2, <3>2 DEF CommandOK
    <3> QED
      BY <3>1, <3>3
  <2> QED
    BY <1>3, <1>5, <2>1, <2>2 DEF CommandOK
<1> QED
  BY <1>4, <1>5

\* The link of a page breaks, the commands of the others stay.
LEMMA LostCommands ==
    ASSUME TypeOK, CommandsInv, NEW p \in Pages,
           toDaemon' = [toDaemon EXCEPT ![p] = <<>>],
           UNCHANGED <<typed, aimed, got>>,
           \A q \in Pages : q # p => queued'[q] = queued[q]
    PROVE  /\ toDaemon' \in [Pages -> Seq(Commands)]
           /\ CommandsInv'
           /\ \A q \in Pages, m \in Messages : Sending(q, m)' => Sending(q, m)
<1>1. /\ toDaemon' \in [Pages -> Seq(Commands)]
      /\ \A q \in Pages : q # p => toDaemon'[q] = toDaemon[q]
      /\ DOMAIN toDaemon'[p] = {}
  <2>1. toDaemon \in [Pages -> Seq(Commands)]
    BY DEF TypeOK
  <2> QED
    BY <2>1, EmptyAt
<1>2. CommandsInv'
  <2> SUFFICES ASSUME NEW q \in Pages, NEW i \in DOMAIN toDaemon'[q]
               PROVE  CommandOK(q, i)'
    BY DEF CommandsInv
  <2>1. q # p /\ toDaemon'[q] = toDaemon[q]
    BY <1>1
  <2>2. CommandOK(q, i)
    BY <2>1 DEF CommandsInv
  <2> QED
    BY <2>1, <2>2 DEF CommandOK
<1>3. ASSUME NEW q \in Pages, NEW m \in Messages, Sending(q, m)'
      PROVE  Sending(q, m)
  BY <1>1, <1>3 DEF Sending
<1> QED
  BY <1>1, <1>2, <1>3

-----------------------------------------------------------------------------
(* The events on their way to a page.                                      *)

LEMMA EventTypes ==
    /\ \A type \in {"switched", "deleted", "journal", "error"}, s \in Sessions :
          /\ Event(type, s) \in Events
          /\ Event(type, s).type = type
          /\ \A list \in SUBSET Sessions : [type |-> type, session |-> s, sessions |-> list] \in Events
    /\ \A e \in Events : e.session \in Sessions /\ e.sessions \in SUBSET Sessions
  BY DEF Event, Events

LEMMA Broadcasts ==
    ASSUME TypeOK, NEW type \in {"switched", "deleted", "journal", "error"}, NEW s \in Sessions,
           NEW list \in SUBSET Sessions, Broadcast(type, s, list)
    PROVE  /\ toPage' \in [Pages -> Seq(Events)]
           /\ type # "switched" => \A q \in Pages : Switching(q)' => Switching(q)
<1> DEFINE e == [type |-> type, session |-> s, sessions |-> list]
<1>1. e \in Events /\ e.type = type
  BY DEF Events
<1>2. toPage \in [Pages -> Seq(Events)]
  BY DEF TypeOK
<1>3. toPage' = [q \in Pages |-> IF ready[q] THEN Append(toPage[q], e) ELSE toPage[q]]
  BY DEF Broadcast
<1> HIDE DEF e
<1>4. ASSUME NEW q \in Pages
      PROVE  /\ Append(toPage[q], e) \in Seq(Events)
             /\ Len(toPage[q]) \in Nat /\ DOMAIN toPage[q] = 1..Len(toPage[q])
             /\ DOMAIN Append(toPage[q], e) = 1..(Len(toPage[q]) + 1)
             /\ \A i \in 1..Len(toPage[q]) : Append(toPage[q], e)[i] = toPage[q][i]
             /\ Append(toPage[q], e)[Len(toPage[q]) + 1] = e
  <2>1. toPage[q] \in Seq(Events)
    BY <1>2
  <2> DEFINE t == toPage[q]
  <2> HIDE DEF t
  <2>2. t \in Seq(Events)
    BY <2>1 DEF t
  <2>3. /\ Append(t, e) \in Seq(Events)
        /\ Len(t) \in Nat /\ DOMAIN t = 1..Len(t)
        /\ DOMAIN Append(t, e) = 1..(Len(t) + 1)
        /\ \A i \in 1..Len(t) : Append(t, e)[i] = t[i]
        /\ Append(t, e)[Len(t) + 1] = e
    BY <1>1, <2>2
  <2> QED
    BY <2>3 DEF t
<1>5. toPage' \in [Pages -> Seq(Events)]
  BY <1>2, <1>3, <1>4
<1>6. ASSUME type # "switched", NEW q \in Pages, Switching(q)' PROVE Switching(q)
  <2>1. PICK i \in DOMAIN toPage'[q] : toPage'[q][i].type = "switched"
    BY <1>6 DEF Switching
  <2>2. CASE ready[q]
    <3>1. toPage'[q] = Append(toPage[q], e)
      BY <1>3, <2>2
    <3>2. i \in 1..(Len(toPage[q]) + 1) /\ i # Len(toPage[q]) + 1
      BY <1>1, <1>4, <1>6, <2>1, <3>1
    <3> QED
      BY <1>4, <2>1, <3>1, <3>2 DEF Switching
  <2>3. CASE ~ready[q]
    BY <1>3, <2>1, <2>3 DEF Switching
  <2> QED
    BY <2>2, <2>3
<1> QED
  BY <1>5, <1>6

LEMMA Answers ==
    ASSUME TypeOK, NEW p \in Pages, NEW type \in {"deleted", "journal", "error"}, NEW s \in Sessions,
           Answer(p, type, s)
    PROVE  /\ toPage' \in [Pages -> Seq(Events)]
           /\ \A q \in Pages : Switching(q)' => Switching(q)
<1> DEFINE e == Event(type, s)
<1>1. e \in Events /\ e.type # "switched" /\ toPage \in [Pages -> Seq(Events)]
  BY DEF TypeOK, Event, Events
<1>2. toPage' = [toPage EXCEPT ![p] = Append(@, e)]
  BY DEF Answer
<1> HIDE DEF e
<1>3. /\ toPage' \in [Pages -> Seq(Events)]
      /\ \A q \in Pages : q # p => toPage'[q] = toPage[q]
      /\ Len(toPage[p]) \in Nat /\ DOMAIN toPage[p] = 1..Len(toPage[p])
      /\ DOMAIN toPage'[p] = 1..(Len(toPage[p]) + 1)
      /\ \A i \in 1..Len(toPage[p]) : toPage'[p][i] = toPage[p][i]
      /\ toPage'[p][Len(toPage[p]) + 1] = e
  BY <1>1, <1>2, AppendAt
<1>4. ASSUME NEW q \in Pages, Switching(q)' PROVE Switching(q)
  <2>1. PICK i \in DOMAIN toPage'[q] : toPage'[q][i].type = "switched"
    BY <1>4 DEF Switching
  <2>2. CASE q # p
    BY <1>3, <2>1, <2>2 DEF Switching
  <2>3. CASE q = p
    <3>1. i \in 1..(Len(toPage[p]) + 1) /\ i # Len(toPage[p]) + 1
      BY <1>1, <1>3, <2>1, <2>3
    <3> QED
      BY <1>3, <2>1, <2>3, <3>1 DEF Switching
  <2> QED
    BY <2>2, <2>3
<1> QED
  BY <1>3, <1>4

LEMMA TakenEvent ==
    ASSUME TypeOK, NEW p \in Pages, toPage[p] # <<>>, toPage' = [toPage EXCEPT ![p] = Tail(@)]
    PROVE  /\ toPage' \in [Pages -> Seq(Events)]
           /\ Head(toPage[p]) \in Events
           /\ Head(toPage[p]).type = "switched" => Switching(p)
           /\ \A q \in Pages : Switching(q)' => Switching(q)
<1>1. toPage \in [Pages -> Seq(Events)]
  BY DEF TypeOK
<1>2. /\ toPage' \in [Pages -> Seq(Events)]
      /\ \A q \in Pages : q # p => toPage'[q] = toPage[q]
      /\ Len(toPage[p]) \in Nat \ {0} /\ DOMAIN toPage[p] = 1..Len(toPage[p])
      /\ DOMAIN toPage'[p] = 1..(Len(toPage[p]) - 1)
      /\ \A i \in 1..(Len(toPage[p]) - 1) :
            i + 1 \in DOMAIN toPage[p] /\ toPage'[p][i] = toPage[p][i + 1]
      /\ 1 \in DOMAIN toPage[p] /\ Head(toPage[p]) = toPage[p][1] /\ Head(toPage[p]) \in Events
  BY <1>1, TailAt
<1> QED
  BY <1>2 DEF Switching

LEMMA LostEvents ==
    ASSUME TypeOK, NEW p \in Pages, toPage' = [toPage EXCEPT ![p] = <<>>]
    PROVE  /\ toPage' \in [Pages -> Seq(Events)]
           /\ \A q \in Pages : Switching(q)' => Switching(q)
<1>1. toPage \in [Pages -> Seq(Events)]
  BY DEF TypeOK
<1>2. /\ toPage' \in [Pages -> Seq(Events)]
      /\ \A q \in Pages : q # p => toPage'[q] = toPage[q]
      /\ DOMAIN toPage'[p] = {}
  BY <1>1, EmptyAt
<1> QED
  BY <1>2 DEF Switching

-----------------------------------------------------------------------------
(* The messages that are aimed at a session.                               *)

LEMMA TypedMessages ==
    ASSUME TypeOK
    PROVE  /\ MaxMessages \in Nat
           /\ Len(typed) \in 0..MaxMessages /\ DOMAIN typed = 1..Len(typed)
           /\ \A m \in DOMAIN typed : m \in Messages /\ typed[m] \in Pages
<1>1. typed \in Seq(Pages) /\ Len(typed) <= MaxMessages /\ MaxMessages \in Nat
  BY ViewAssumption DEF TypeOK
<1>2. Len(typed) \in Nat /\ DOMAIN typed = 1..Len(typed) /\ \A m \in 1..Len(typed) : typed[m] \in Pages
  BY <1>1
<1> QED
  BY <1>1, <1>2 DEF Messages

LEMMA AimsKept ==
    ASSUME TypeOK, AimsInv, UNCHANGED <<typed, aimed, active, got, disturbed>>,
           \A q \in Pages : Switching(q)' => Switching(q),
           \A q \in Pages, m \in Messages : Sending(q, m)' => Sending(q, m)
    PROVE  AimsInv'
<1>1. ASSUME NEW m \in DOMAIN typed PROVE m \in Messages /\ typed[m] \in Pages
  BY TypedMessages
<1> QED
  BY <1>1 DEF AimsInv

LEMMA AimsSwitched ==
    ASSUME TypeOK, NEW s, NEW own,
           active' = s, disturbed' = disturbed \cup (UnderWay \ {own}),
           own # 0 => s = aimed[own],
           UNCHANGED <<typed, aimed, got>>
    PROVE  AimsInv'
<1>1. ASSUME NEW m \in DOMAIN typed', got'[m] = 0, m \notin disturbed'
      PROVE  active' = aimed'[m]
  <2>1. m \in UnderWay
    BY <1>1 DEF UnderWay
  <2>2. m = own
    BY <1>1, <2>1
  <2>3. m # 0
    BY <1>1 DEF TypeOK
  <2> QED
    BY <2>2, <2>3
<1> QED
  BY <1>1 DEF AimsInv

\* What is known of the messages stays true while none is typed, queued or arrives.
LEMMA MessagesKept ==
    ASSUME ViewInv, UNCHANGED <<typed, aimed, got>>, disturbed \subseteq disturbed',
           \A q \in Pages : queued'[q] = queued[q] \/ queued'[q] = 0
    PROVE  QueuedInv' /\ FreshInv' /\ MessageReachesItsSession'
<1>1. QueuedInv'
  BY DEF ViewInv, QueuedInv
<1>2. FreshInv'
  BY DEF ViewInv, FreshInv
<1>3. MessageReachesItsSession'
  BY DEF ViewInv, MessageReachesItsSession
<1> QED
  BY <1>1, <1>2, <1>3

-----------------------------------------------------------------------------
(* The daemon's steps.                                                     *)

LEMMA MakeSessionStep ==
    ASSUME TypeOK, MakeSession
    PROVE  /\ made' \in Sessions /\ active' = made' /\ active' \in exists' /\ exists' \subseteq 1..made'
           /\ toPage' \in [Pages -> Seq(Events)]
           /\ disturbed' \subseteq DOMAIN typed /\ disturbed \subseteq disturbed'
           /\ UNCHANGED <<typed, aimed, got, excused>>
           /\ AimsInv'
<1>1. /\ made' = made + 1 /\ active' = made + 1 /\ exists' = exists \cup {made + 1}
      /\ Broadcast("switched", made + 1, exists')
      /\ disturbed' = disturbed \cup (UnderWay \ {0})
      /\ UNCHANGED <<typed, aimed, got, excused>>
  BY DEF MakeSession, SwitchTo
<1>2. made \in Nat \ {0} /\ exists \subseteq 1..made /\ disturbed \subseteq DOMAIN typed
  BY DEF TypeOK, Sessions
<1>3. made' \in Sessions /\ active' \in exists' /\ exists' \subseteq 1..made' /\ exists' \in SUBSET Sessions
  BY <1>1, <1>2 DEF Sessions
<1>4. toPage' \in [Pages -> Seq(Events)]
  BY <1>1, <1>3, Broadcasts
<1>5. disturbed' \subseteq DOMAIN typed /\ disturbed \subseteq disturbed'
  BY <1>1, <1>2 DEF UnderWay
<1>6. AimsInv'
  BY <1>1, AimsSwitched
<1> QED
  BY <1>1, <1>3, <1>4, <1>5, <1>6

LEMMA HandleNewStep ==
    ASSUME ViewInv, NEW p \in Pages, HandleNew(p)
    PROVE  ViewInv'
<1>0. TypeOK /\ OverlayIsDisplayed /\ CommandsInv
  BY DEF ViewInv, DisplayInvariant
<1>1. /\ toDaemon[p] # <<>> /\ toDaemon' = [toDaemon EXCEPT ![p] = Tail(@)]
      /\ UNCHANGED <<ready, modelVars, queued, moves>> /\ MakeSession
  BY DEF HandleNew, Takes
<1>2. /\ made' \in Sessions /\ active' = made' /\ active' \in exists' /\ exists' \subseteq 1..made'
      /\ toPage' \in [Pages -> Seq(Events)]
      /\ disturbed' \subseteq DOMAIN typed /\ disturbed \subseteq disturbed'
      /\ UNCHANGED <<typed, aimed, got, excused>>
      /\ AimsInv'
  BY <1>0, <1>1, MakeSessionStep
<1>3. toDaemon' \in [Pages -> Seq(Commands)] /\ CommandsInv'
  BY <1>0, <1>1, <1>2, TakenCommand, OtherCommandsHold
<1>4. TypeOK'
  BY <1>0, <1>1, <1>2, <1>3 DEF TypeOK, modelVars
<1>5. OverlayIsDisplayed'
  BY <1>0, <1>1 DEF OverlayIsDisplayed, modelVars
<1>6. QueuedInv' /\ FreshInv' /\ MessageReachesItsSession'
  BY <1>1, <1>2, MessagesKept
<1> QED
  BY <1>2, <1>3, <1>4, <1>5, <1>6 DEF ViewInv, DisplayInvariant

LEMMA RollStep ==
    ASSUME ViewInv, Roll
    PROVE  ViewInv'
<1>0. TypeOK /\ OverlayIsDisplayed /\ CommandsInv
  BY DEF ViewInv, DisplayInvariant
<1>1. /\ moves < MaxMoves /\ moves' = moves + 1
      /\ UNCHANGED <<toDaemon, ready, modelVars, queued>> /\ MakeSession
  BY DEF Roll
<1>2. /\ made' \in Sessions /\ active' = made' /\ active' \in exists' /\ exists' \subseteq 1..made'
      /\ toPage' \in [Pages -> Seq(Events)]
      /\ disturbed' \subseteq DOMAIN typed /\ disturbed \subseteq disturbed'
      /\ UNCHANGED <<typed, aimed, got, excused>>
      /\ AimsInv'
  BY <1>0, <1>1, MakeSessionStep
<1>3. CommandsInv'
  BY <1>0, <1>1, <1>2 DEF CommandsInv, CommandOK
<1>4. moves' \in 0..MaxMoves
  BY <1>0, <1>1, ViewAssumption DEF TypeOK
<1>5. TypeOK'
  BY <1>0, <1>1, <1>2, <1>4 DEF TypeOK, modelVars
<1>6. OverlayIsDisplayed'
  BY <1>0, <1>1 DEF OverlayIsDisplayed, modelVars
<1>7. QueuedInv' /\ FreshInv' /\ MessageReachesItsSession'
  BY <1>1, <1>2, MessagesKept
<1> QED
  BY <1>2, <1>3, <1>5, <1>6, <1>7 DEF ViewInv, DisplayInvariant

LEMMA HandleOpenStep ==
    ASSUME ViewInv, NEW p \in Pages, HandleOpen(p)
    PROVE  ViewInv'
<1> DEFINE c == Head(toDaemon[p])
<1>0. TypeOK /\ OverlayIsDisplayed /\ CommandsInv /\ AimsInv
  BY DEF ViewInv, DisplayInvariant
<1>1. /\ toDaemon[p] # <<>> /\ toDaemon' = [toDaemon EXCEPT ![p] = Tail(@)]
      /\ c.type = "open"
      /\ UNCHANGED <<ready, modelVars, queued, moves, made, typed, aimed, got>>
  BY DEF HandleOpen, Takes, SwitchTo
<1>2. /\ toDaemon' \in [Pages -> Seq(Commands)] /\ c \in Commands
      /\ 1 \in DOMAIN toDaemon[p] /\ c = toDaemon[p][1] /\ CommandOK(p, 1)
      /\ \A q \in Pages, m \in Messages : Sending(q, m)' => Sending(q, m)
  BY <1>0, <1>1, TakenCommand
<1>3. CommandsInv'
  BY <1>0, <1>1, OtherCommandsHold
<1>4. c.session \in Sessions /\ c.message \in Messages
  BY <1>1, <1>2, CommandTypes
<1>5. c.message # 0 /\ c.message \in DOMAIN typed /\ c.session = aimed[c.message]
  BY <1>1, <1>2, <1>4 DEF CommandOK, Messages
<1>6. ASSUME c.session \in exists \ {active}
      PROVE  TypeOK' /\ AimsInv' /\ disturbed \subseteq disturbed'
  <2>1. /\ active' = c.session /\ exists' = exists /\ UNCHANGED excused
        /\ Broadcast("switched", c.session, exists')
        /\ disturbed' = disturbed \cup (UnderWay \ {c.message})
    BY <1>6 DEF HandleOpen, SwitchTo
  <2>2. exists \subseteq Sessions /\ disturbed \subseteq DOMAIN typed
    BY <1>0 DEF TypeOK, Sessions
  <2>3. toPage' \in [Pages -> Seq(Events)]
    BY <1>0, <1>4, <2>1, <2>2, Broadcasts
  <2>4. disturbed' \subseteq DOMAIN typed /\ disturbed \subseteq disturbed'
    BY <2>1, <2>2 DEF UnderWay
  <2>5. TypeOK'
    BY <1>0, <1>1, <1>2, <1>6, <2>1, <2>3, <2>4 DEF TypeOK, modelVars
  <2>6. AimsInv'
    BY <1>0, <1>1, <1>5, <2>1, AimsSwitched
  <2> QED
    BY <2>4, <2>5, <2>6
<1>7. ASSUME c.session \notin exists \ {active}
      PROVE  TypeOK' /\ AimsInv' /\ disturbed \subseteq disturbed'
  <2>1. /\ Answer(p, "error", c.session) /\ excused' = excused \cup {c.message}
        /\ UNCHANGED <<exists, active, disturbed>>
    BY <1>7 DEF HandleOpen
  <2>2. /\ toPage' \in [Pages -> Seq(Events)]
        /\ \A q \in Pages : Switching(q)' => Switching(q)
    BY <1>0, <1>4, <2>1, Answers
  <2>3. TypeOK'
    BY <1>0, <1>1, <1>2, <1>5, <2>1, <2>2 DEF TypeOK, modelVars
  <2>4. AimsInv'
    BY <1>0, <1>1, <1>2, <2>1, <2>2, AimsKept
  <2> QED
    BY <2>1, <2>3, <2>4
<1>8. TypeOK' /\ AimsInv' /\ disturbed \subseteq disturbed'
  BY <1>6, <1>7
<1>9. OverlayIsDisplayed'
  BY <1>0, <1>1 DEF OverlayIsDisplayed, modelVars
<1>10. QueuedInv' /\ FreshInv' /\ MessageReachesItsSession'
  BY <1>1, <1>8, MessagesKept
<1> QED
  BY <1>3, <1>8, <1>9, <1>10 DEF ViewInv, DisplayInvariant

LEMMA HandleJournalStep ==
    ASSUME ViewInv, NEW p \in Pages, HandleJournal(p)
    PROVE  ViewInv'
<1> DEFINE c == Head(toDaemon[p])
<1>0. TypeOK /\ OverlayIsDisplayed /\ CommandsInv /\ AimsInv
  BY DEF ViewInv, DisplayInvariant
<1>1. /\ toDaemon[p] # <<>> /\ toDaemon' = [toDaemon EXCEPT ![p] = Tail(@)]
      /\ c.type = "journal" /\ Answer(p, "journal", c.session)
      /\ UNCHANGED <<ready, modelVars, queued, moves, daemonVars, history>>
  BY DEF HandleJournal, Takes
<1>2. /\ toDaemon' \in [Pages -> Seq(Commands)] /\ c \in Commands
      /\ \A q \in Pages, m \in Messages : Sending(q, m)' => Sending(q, m)
  BY <1>0, <1>1, TakenCommand
<1>3. CommandsInv'
  BY <1>0, <1>1, OtherCommandsHold DEF history
<1>4. c.session \in Sessions
  BY <1>1, <1>2, CommandTypes
<1>5. /\ toPage' \in [Pages -> Seq(Events)]
      /\ \A q \in Pages : Switching(q)' => Switching(q)
  BY <1>0, <1>1, <1>4, Answers
<1>6. TypeOK'
  BY <1>0, <1>1, <1>2, <1>5 DEF TypeOK, modelVars, daemonVars, history
<1>7. AimsInv'
  BY <1>0, <1>1, <1>2, <1>5, AimsKept DEF daemonVars, history
<1>8. OverlayIsDisplayed'
  BY <1>0, <1>1 DEF OverlayIsDisplayed, modelVars
<1>9. QueuedInv' /\ FreshInv' /\ MessageReachesItsSession'
  BY <1>1, MessagesKept DEF history
<1> QED
  BY <1>3, <1>6, <1>7, <1>8, <1>9 DEF ViewInv, DisplayInvariant

LEMMA HandleDeleteStep ==
    ASSUME ViewInv, NEW p \in Pages, HandleDelete(p)
    PROVE  ViewInv'
<1> DEFINE c == Head(toDaemon[p])
<1>0. TypeOK /\ OverlayIsDisplayed /\ CommandsInv /\ AimsInv
  BY DEF ViewInv, DisplayInvariant
<1>1. /\ toDaemon[p] # <<>> /\ toDaemon' = [toDaemon EXCEPT ![p] = Tail(@)]
      /\ c.type = "delete"
      /\ UNCHANGED <<ready, modelVars, queued, moves, active, made, history>>
  BY DEF HandleDelete, Takes
<1>2. /\ toDaemon' \in [Pages -> Seq(Commands)] /\ c \in Commands
      /\ \A q \in Pages, m \in Messages : Sending(q, m)' => Sending(q, m)
  BY <1>0, <1>1, TakenCommand
<1>3. CommandsInv'
  BY <1>0, <1>1, OtherCommandsHold DEF history
<1>4. c.session \in Sessions
  BY <1>1, <1>2, CommandTypes
<1>5. /\ toPage' \in [Pages -> Seq(Events)] /\ exists' \subseteq exists /\ active \in exists'
      /\ \A q \in Pages : Switching(q)' => Switching(q)
  <2>1. CASE c.session = active
    <3>1. Answer(p, "error", c.session) /\ exists' = exists
      BY <2>1 DEF HandleDelete
    <3> QED
      BY <1>0, <1>4, <3>1, Answers DEF TypeOK
  <2>2. CASE c.session # active
    <3>1. exists' = exists \ {c.session} /\ Broadcast("deleted", c.session, exists')
      BY <2>2 DEF HandleDelete
    <3>2. exists' \in SUBSET Sessions /\ active \in exists'
      <4>1. exists \in SUBSET Sessions /\ active \in exists
        BY <1>0 DEF TypeOK, Sessions
      <4> QED
        BY <2>2, <3>1, <4>1
    <3>3. /\ toPage' \in [Pages -> Seq(Events)]
          /\ \A q \in Pages : Switching(q)' => Switching(q)
      BY <1>0, <1>4, <3>1, <3>2, Broadcasts
    <3> QED
      BY <3>1, <3>2, <3>3
  <2> QED
    BY <2>1, <2>2
<1>6. TypeOK'
  BY <1>0, <1>1, <1>2, <1>5 DEF TypeOK, modelVars, history
<1>7. AimsInv'
  BY <1>0, <1>1, <1>2, <1>5, AimsKept DEF history
<1>8. OverlayIsDisplayed'
  BY <1>0, <1>1 DEF OverlayIsDisplayed, modelVars
<1>9. QueuedInv' /\ FreshInv' /\ MessageReachesItsSession'
  BY <1>1, MessagesKept DEF history
<1> QED
  BY <1>3, <1>6, <1>7, <1>8, <1>9 DEF ViewInv, DisplayInvariant

\* The step that a message arrives: its command was the last trace of it.
LEMMA HandleMessageStep ==
    ASSUME ViewInv, NEW p \in Pages, HandleMessage(p)
    PROVE  ViewInv'
<1> DEFINE c == Head(toDaemon[p])
           m == c.message
<1>0. /\ TypeOK /\ OverlayIsDisplayed /\ CommandsInv /\ AimsInv
      /\ QueuedInv /\ FreshInv /\ MessageReachesItsSession
  BY DEF ViewInv, DisplayInvariant
<1>1. /\ toDaemon[p] # <<>> /\ toDaemon' = [toDaemon EXCEPT ![p] = Tail(@)]
      /\ c.type = "message" /\ got' = [got EXCEPT ![m] = active]
      /\ UNCHANGED <<ready, modelVars, queued, moves, daemonVars, toPage, typed, aimed, disturbed, excused>>
  BY DEF HandleMessage, Takes
<1>2. /\ toDaemon' \in [Pages -> Seq(Commands)] /\ c \in Commands
      /\ 1 \in DOMAIN toDaemon[p] /\ c = toDaemon[p][1] /\ CommandOK(p, 1)
      /\ \A q \in Pages, n \in Messages : Sending(q, n)' => Sending(q, n)
      /\ \A n \in Messages : n = m => ~Sending(p, n)'
  BY <1>0, <1>1, TakenCommand
<1>3. m \in Messages /\ m # 0
  BY <1>1, <1>2, CommandTypes DEF Messages
<1>4. /\ m \in DOMAIN typed /\ typed[m] = p
      /\ got[m] = 0 /\ queued[p] # m
  BY <1>1, <1>2, <1>3 DEF CommandOK
<1>5. got' \in [Messages -> Nat] /\ got'[m] = active /\ \A n \in Messages : n # m => got'[n] = got[n]
  <2>1. active \in Nat
    BY <1>0 DEF TypeOK, Sessions
  <2> QED
    BY <1>0, <1>1, <1>3, <2>1 DEF TypeOK
<1>6. ASSUME NEW q \in Pages, NEW n \in Messages, Sending(q, n) , n = m
      PROVE  q = p
  <2>1. PICK i \in DOMAIN toDaemon[q] : toDaemon[q][i].type = "message" /\ toDaemon[q][i].message = n
    BY <1>6 DEF Sending
  <2>2. typed[n] = q
    BY <1>0, <1>3, <1>6, <2>1 DEF CommandsInv, CommandOK
  <2> QED
    BY <1>4, <1>6, <2>2
<1>7. ASSUME NEW q \in Pages, NEW n \in Messages, Sending(q, n)' PROVE got'[n] = got[n]
  BY <1>2, <1>5, <1>6, <1>7
<1>8. CommandsInv'
  BY <1>0, <1>1, <1>7, OtherCommandsHold
<1>9. TypeOK'
  BY <1>0, <1>1, <1>2, <1>5 DEF TypeOK, modelVars, daemonVars
<1>10. OverlayIsDisplayed'
  BY <1>0, <1>1 DEF OverlayIsDisplayed, modelVars
<1>11. \A n \in DOMAIN typed : n \in Messages /\ typed[n] \in Pages
  BY <1>0, TypedMessages
<1>12. QueuedInv'
  BY <1>0, <1>1, <1>4, <1>5, <1>11 DEF QueuedInv
<1>13. FreshInv'
  BY <1>0, <1>1, <1>4, <1>5 DEF FreshInv
<1>14. AimsInv'
  <2>1. ASSUME NEW n \in DOMAIN typed, got'[n] = 0 PROVE got[n] = 0
    BY <1>4, <1>5, <1>11, <2>1
  <2>2. \A q \in Pages : Switching(q)' => Switching(q)
    BY <1>1 DEF Switching
  <2> QED
    BY <1>0, <1>1, <1>2, <1>11, <2>1, <2>2 DEF AimsInv, daemonVars
<1>15. MessageReachesItsSession'
  <2>1. Sending(p, m)
    BY <1>1, <1>2 DEF Sending
  <2>2. got'[m] = aimed[m] \/ m \in disturbed
    BY <1>0, <1>4, <1>5, <2>1 DEF AimsInv
  <2> QED
    BY <1>0, <1>1, <1>5, <1>11, <2>2 DEF MessageReachesItsSession
<1> QED
  BY <1>8, <1>9, <1>10, <1>12, <1>13, <1>14, <1>15 DEF ViewInv, DisplayInvariant

-----------------------------------------------------------------------------
(* The user's steps.                                                       *)

\* A step of a user about no message: a row is opened or deleted, or a session asked for.
LEMMA TapStep ==
    ASSUME ViewInv, NEW p \in Pages, NEW c \in Commands, c.type \notin {"open", "message"},
           Tap, SendIfReady(p, c) \/ UNCHANGED toDaemon,
           {displayed', overlay'} \subseteq [Pages -> Nat],
           \A q \in Pages : current[q] # 0 => displayed'[q] # 0,
           \A q \in Pages : overlay'[q] # 0 => overlay'[q] = displayed'[q]
    PROVE  ViewInv'
<1>0. TypeOK /\ CommandsInv /\ AimsInv
  BY DEF ViewInv, DisplayInvariant
<1>1. /\ moves < MaxMoves /\ moves' = moves + 1
      /\ UNCHANGED <<exists, active, made, toPage, ready, listed, current, queued>>
      /\ UNCHANGED <<typed, aimed, got, disturbed, excused>>
  BY DEF Tap, daemonVars, history
<1>2. /\ toDaemon' \in [Pages -> Seq(Commands)] /\ CommandsInv'
      /\ \A q \in Pages, m \in Messages : Sending(q, m)' => Sending(q, m)
  <2>1. CASE SendIfReady(p, c)
    BY <1>0, <1>1, <2>1, PlainCommand
  <2>2. CASE UNCHANGED toDaemon
    BY <1>0, <1>1, <2>2 DEF TypeOK, CommandsInv, CommandOK, Sending
  <2> QED
    BY <2>1, <2>2
<1>3. moves' \in 0..MaxMoves
  BY <1>0, <1>1, ViewAssumption DEF TypeOK
<1>4. TypeOK'
  BY <1>0, <1>1, <1>2, <1>3 DEF TypeOK
<1>5. \A q \in Pages : Switching(q)' => Switching(q)
  BY <1>1 DEF Switching
<1>6. AimsInv'
  BY <1>0, <1>1, <1>2, <1>5, AimsKept
<1>7. QueuedInv' /\ FreshInv' /\ MessageReachesItsSession'
  BY <1>1, MessagesKept
<1> QED
  BY <1>2, <1>4, <1>6, <1>7 DEF ViewInv, DisplayInvariant, OverlayIsDisplayed

LEMMA OpenRowStep ==
    ASSUME ViewInv, NEW p \in Pages, NEW s \in listed[p], OpenRow(p, s)
    PROVE  ViewInv'
<1>0. TypeOK /\ OverlayIsDisplayed
  BY DEF ViewInv, DisplayInvariant
<1>1. s \in Sessions
  BY <1>0 DEF TypeOK
<1>2. /\ Command("journal", s, 0) \in Commands
      /\ Command("journal", s, 0).type \notin {"open", "message"}
  BY <1>1, CommandTypes
<1>3. /\ Tap /\ displayed' = [displayed EXCEPT ![p] = s] /\ overlay' = [overlay EXCEPT ![p] = 0]
      /\ SendIfReady(p, Command("journal", s, 0)) \/ UNCHANGED toDaemon
  BY DEF OpenRow
<1>4. {displayed', overlay'} \subseteq [Pages -> Nat]
  BY <1>0, <1>1, <1>3 DEF TypeOK, Sessions
<1>5. \A q \in Pages : current[q] # 0 => displayed'[q] # 0
  BY <1>0, <1>1, <1>3 DEF TypeOK, Sessions
<1>6. \A q \in Pages : overlay'[q] # 0 => overlay'[q] = displayed'[q]
  BY <1>0, <1>3 DEF TypeOK, OverlayIsDisplayed
<1> QED
  BY <1>2, <1>3, <1>4, <1>5, <1>6, TapStep

LEMMA NewSessionStep ==
    ASSUME ViewInv, NEW p \in Pages, NewSession(p)
    PROVE  ViewInv'
<1>0. TypeOK /\ OverlayIsDisplayed
  BY DEF ViewInv, DisplayInvariant
<1>1. Command("new", 0, 0) \in Commands /\ Command("new", 0, 0).type \notin {"open", "message"}
  BY CommandTypes
<1>2. Tap /\ SendIfReady(p, Command("new", 0, 0)) /\ UNCHANGED <<displayed, overlay>>
  BY DEF NewSession
<1>3. /\ {displayed', overlay'} \subseteq [Pages -> Nat]
      /\ \A q \in Pages : current[q] # 0 => displayed'[q] # 0
      /\ \A q \in Pages : overlay'[q] # 0 => overlay'[q] = displayed'[q]
  BY <1>0, <1>2 DEF TypeOK, OverlayIsDisplayed
<1> QED
  BY <1>1, <1>2, <1>3, TapStep

LEMMA DeleteSessionStep ==
    ASSUME ViewInv, NEW p \in Pages, NEW s \in listed[p], DeleteSession(p, s)
    PROVE  ViewInv'
<1>0. TypeOK /\ OverlayIsDisplayed
  BY DEF ViewInv, DisplayInvariant
<1>1. s \in Sessions
  BY <1>0 DEF TypeOK
<1>2. Command("delete", s, 0) \in Commands /\ Command("delete", s, 0).type \notin {"open", "message"}
  BY <1>1, CommandTypes
<1>3. Tap /\ SendIfReady(p, Command("delete", s, 0)) /\ UNCHANGED <<displayed, overlay>>
  BY DEF DeleteSession
<1>4. /\ {displayed', overlay'} \subseteq [Pages -> Nat]
      /\ \A q \in Pages : current[q] # 0 => displayed'[q] # 0
      /\ \A q \in Pages : overlay'[q] # 0 => overlay'[q] = displayed'[q]
  BY <1>0, <1>3 DEF TypeOK, OverlayIsDisplayed
<1> QED
  BY <1>2, <1>3, <1>4, TapStep

\* A message that is typed is new to every link and every page.
LEMMA NewMessageFacts ==
    ASSUME ViewInv, NEW p \in Pages, NEW m, m = Len(typed) + 1, m \in Messages, typed' = Append(typed, p)
    PROVE  /\ m # 0 /\ m \notin DOMAIN typed /\ DOMAIN typed' = DOMAIN typed \cup {m}
           /\ typed' \in Seq(Pages) /\ Len(typed') <= MaxMessages /\ typed'[m] = p
           /\ \A n \in DOMAIN typed : typed'[n] = typed[n] /\ n \in Messages /\ typed[n] \in Pages
           /\ got[m] = 0 /\ m \notin disturbed
           /\ \A q \in Pages : queued[q] # m /\ ~Sending(q, m)
<1>0. TypeOK /\ CommandsInv /\ QueuedInv /\ FreshInv
  BY DEF ViewInv, DisplayInvariant
<1>1. /\ Len(typed) \in Nat /\ DOMAIN typed = 1..Len(typed) /\ MaxMessages \in Nat
      /\ \A n \in DOMAIN typed : n \in Messages /\ typed[n] \in Pages
  BY <1>0, TypedMessages
<1>2. /\ typed' \in Seq(Pages) /\ Len(typed') = Len(typed) + 1 /\ DOMAIN typed' = 1..(Len(typed) + 1)
      /\ typed'[Len(typed) + 1] = p /\ \A n \in 1..Len(typed) : typed'[n] = typed[n]
  BY <1>0 DEF TypeOK
<1>3. m # 0 /\ m \notin DOMAIN typed /\ DOMAIN typed' = DOMAIN typed \cup {m}
  BY <1>1, <1>2
<1>4. got[m] = 0 /\ m \notin disturbed
  BY <1>0, <1>3 DEF FreshInv, TypeOK
<1>5. ASSUME NEW q \in Pages PROVE queued[q] # m /\ ~Sending(q, m)
  <2>1. queued[q] # m
    BY <1>0, <1>3 DEF QueuedInv
  <2>2. ASSUME Sending(q, m) PROVE FALSE
    <3>1. PICK i \in DOMAIN toDaemon[q] : toDaemon[q][i].type = "message" /\ toDaemon[q][i].message = m
      BY <2>2 DEF Sending
    <3> QED
      BY <1>0, <1>3, <3>1 DEF CommandsInv, CommandOK
  <2> QED
    BY <2>1, <2>2
<1> QED
  BY <1>1, <1>2, <1>3, <1>4, <1>5 DEF Messages

LEMMA SendMessageStep ==
    ASSUME ViewInv, NEW p \in Pages, SendMessage(p)
    PROVE  ViewInv'
<1> DEFINE m == Len(typed) + 1
           past == displayed[p] # 0 /\ current[p] # 0 /\ displayed[p] # current[p]
           aim == IF displayed[p] = 0 THEN active ELSE displayed[p]
           c == IF past THEN Command("open", displayed[p], m) ELSE Command("message", 0, m)
<1>0. /\ TypeOK /\ OverlayIsDisplayed /\ CommandsInv /\ AimsInv
      /\ QueuedInv /\ FreshInv /\ MessageReachesItsSession
  BY DEF ViewInv, DisplayInvariant
<1>1. /\ m \in Messages /\ typed' = Append(typed, p)
      /\ aimed' = [aimed EXCEPT ![m] = aim]
      /\ disturbed' = IF UpToDate(p) THEN disturbed ELSE disturbed \cup {m}
      /\ toDaemon' = [toDaemon EXCEPT ![p] = Append(@, c)]
      /\ UNCHANGED <<exists, active, made, toPage, ready, listed, current, displayed, overlay, got, moves>>
  BY DEF SendMessage, Send, daemonVars, modelVars
<1>2. /\ past => excused' = excused \cup ({queued[p]} \ {0}) /\ queued' = [queued EXCEPT ![p] = m]
      /\ ~past => UNCHANGED <<queued, excused>>
  BY DEF SendMessage
<1>3. /\ m # 0 /\ m \notin DOMAIN typed /\ DOMAIN typed' = DOMAIN typed \cup {m}
      /\ typed' \in Seq(Pages) /\ Len(typed') <= MaxMessages /\ typed'[m] = p
      /\ \A n \in DOMAIN typed : typed'[n] = typed[n] /\ n \in Messages /\ typed[n] \in Pages
      /\ got[m] = 0 /\ m \notin disturbed
      /\ \A q \in Pages : queued[q] # m /\ ~Sending(q, m)
  BY <1>0, <1>1, NewMessageFacts
<1>4. /\ displayed[p] \in Nat /\ current[p] \in Nat /\ active \in Nat /\ active # 0
      /\ aim \in Nat
  BY <1>0 DEF TypeOK
<1>5. /\ c \in Commands /\ c.message = m
      /\ past => c.type = "open" /\ c.session = aim
      /\ ~past => c.type = "message"
  BY <1>1, <1>4, CommandTypes DEF Sessions
<1>6. aimed' \in [Messages -> Nat] /\ aimed'[m] = aim /\ \A n \in DOMAIN typed : aimed'[n] = aimed[n]
  BY <1>0, <1>1, <1>3, <1>4 DEF TypeOK
<1>7. /\ queued' \in [Pages -> 0..MaxMessages]
      /\ \A q \in Pages : q # p => queued'[q] = queued[q]
      /\ past => queued'[p] = m
      /\ ~past => queued'[p] = queued[p]
      /\ excused' \subseteq DOMAIN typed'
  <2>1. m \in 0..MaxMessages
    BY <1>1, ViewAssumption DEF Messages
  <2>2. queued[p] # 0 => queued[p] \in DOMAIN typed
    BY <1>0 DEF QueuedInv
  <2> HIDE DEF m, past
  <2>3. queued \in [Pages -> 0..MaxMessages] /\ excused \subseteq DOMAIN typed
    BY <1>0 DEF TypeOK
  <2>4. CASE past
    BY <1>2, <1>3, <2>1, <2>2, <2>3, <2>4
  <2>5. CASE ~past
    BY <1>2, <1>3, <2>3, <2>5
  <2> QED
    BY <2>4, <2>5
<1> HIDE DEF m, past, aim, c
<1>8. /\ toDaemon' \in [Pages -> Seq(Commands)]
      /\ \A q \in Pages : q # p => toDaemon'[q] = toDaemon[q]
      /\ Len(toDaemon[p]) \in Nat /\ DOMAIN toDaemon[p] = 1..Len(toDaemon[p])
      /\ DOMAIN toDaemon'[p] = 1..(Len(toDaemon[p]) + 1)
      /\ \A i \in 1..Len(toDaemon[p]) : toDaemon'[p][i] = toDaemon[p][i]
      /\ toDaemon'[p][Len(toDaemon[p]) + 1] = c
  <2>1. toDaemon \in [Pages -> Seq(Commands)]
    BY <1>0 DEF TypeOK
  <2> QED
    BY <1>1, <1>5, <2>1, AppendAt
<1>9. TypeOK'
  <2>1. disturbed' \subseteq DOMAIN typed'
    BY <1>0, <1>1, <1>3 DEF TypeOK
  <2> QED
    BY <1>0, <1>1, <1>3, <1>6, <1>7, <1>8, <2>1 DEF TypeOK
<1>10. OverlayIsDisplayed'
  BY <1>0, <1>1 DEF OverlayIsDisplayed
<1>11. QueuedInv'
  <2> SUFFICES ASSUME NEW q \in Pages, queued'[q] # 0
               PROVE  queued'[q] \in DOMAIN typed' /\ typed'[queued'[q]] = q /\ got'[queued'[q]] = 0
    BY DEF QueuedInv
  <2>1. CASE queued'[q] = queued[q]
    BY <1>0, <1>1, <1>3, <2>1 DEF QueuedInv
  <2>2. CASE queued'[q] # queued[q]
    BY <1>1, <1>3, <1>7, <2>2
  <2> QED
    BY <2>1, <2>2
\* a command that was there is not about m, and the new one is
<1>12. ASSUME NEW q \in Pages, NEW i \in DOMAIN toDaemon[q]
       PROVE  /\ toDaemon'[q][i] = toDaemon[q][i] /\ i \in DOMAIN toDaemon'[q]
              /\ toDaemon[q][i].message # m
              /\ toDaemon[q][i] \in Commands
  <2>1. toDaemon[q][i] \in Commands
    <3>1. toDaemon[q] \in Seq(Commands)
      BY <1>0 DEF TypeOK
    <3> QED
      BY <3>1
  <2>2. toDaemon[q][i].message # m
    BY <1>0, <1>3, <1>12 DEF CommandsInv, CommandOK
  <2> QED
    BY <1>8, <1>12, <2>1, <2>2
<1>13. ASSUME NEW q \in Pages, NEW i \in DOMAIN toDaemon'[q]
       PROVE  i \in DOMAIN toDaemon[q] \/ (q = p /\ i = Len(toDaemon[p]) + 1 /\ toDaemon'[q][i] = c)
  BY <1>8, <1>13
<1>14. CommandsInv'
  <2> SUFFICES ASSUME NEW q \in Pages, NEW i \in DOMAIN toDaemon'[q]
               PROVE  CommandOK(q, i)'
    BY DEF CommandsInv
  <2>1. CASE i \in DOMAIN toDaemon[q]
    <3>1. /\ CommandOK(q, i) /\ toDaemon'[q][i] = toDaemon[q][i] /\ toDaemon[q][i].message # m
          /\ toDaemon[q][i] \in Commands
      BY <1>0, <1>12, <2>1 DEF CommandsInv
    <3> DEFINE n == toDaemon[q][i].message
    <3>2. n # 0 => n \in DOMAIN typed' /\ typed'[n] = q /\ aimed'[n] = aimed[n]
      BY <1>3, <1>6, <3>1 DEF CommandOK
    <3>3. toDaemon[q][i].type \in {"open", "message"} => n # 0
      BY <3>1, CommandTypes DEF Messages
    <3>4. ASSUME NEW j \in DOMAIN toDaemon'[q], toDaemon'[q][j].message = n
          PROVE  j \in DOMAIN toDaemon[q] /\ toDaemon'[q][j] = toDaemon[q][j]
      BY <1>5, <1>12, <1>13, <3>1, <3>4
    <3>5. n # queued'[q] \/ n = queued[q]
      BY <1>7, <3>1
    <3> QED
      BY <1>1, <2>1, <3>1, <3>2, <3>3, <3>4, <3>5 DEF CommandOK
  <2>2. CASE i \notin DOMAIN toDaemon[q]
    <3>1. q = p /\ i = Len(toDaemon[p]) + 1 /\ toDaemon'[q][i] = c
      BY <1>13, <2>2
    <3>2. ASSUME NEW j \in DOMAIN toDaemon'[q], toDaemon'[q][j].message = m
          PROVE  j = i
      BY <1>12, <1>13, <3>1, <3>2
    <3>3. m \in DOMAIN typed' /\ typed'[m] = q /\ got'[m] = 0
      BY <1>1, <1>3, <3>1
    <3>4. c.type = "message" => queued'[q] # m
      BY <1>3, <1>5, <1>7, <3>1
    <3>5. c.type = "open" => c.session = aimed'[m]
      BY <1>5, <1>6
    <3> QED
      BY <1>5, <3>1, <3>2, <3>3, <3>4, <3>5 DEF CommandOK
  <2> QED
    BY <2>1, <2>2
<1>15. FreshInv'
  BY <1>0, <1>1, <1>3 DEF FreshInv
<1>16. AimsInv'
  <2> SUFFICES ASSUME NEW n \in DOMAIN typed', got'[n] = 0, n \notin disturbed',
                      NEW r, r = typed'[n], Switching(r)' \/ Sending(r, n)'
               PROVE  active' = aimed'[n]
    BY DEF AimsInv, Switching, Sending
  <2>1. \A q \in Pages : Switching(q)' => Switching(q)
    BY <1>1 DEF Switching
  <2>2. CASE n \in DOMAIN typed
    <3>1. /\ n # m /\ r = typed[n] /\ n \in Messages /\ r \in Pages
          /\ n \notin disturbed /\ got[n] = 0 /\ aimed'[n] = aimed[n]
      BY <1>1, <1>3, <1>6, <2>2
    <3>2. Sending(r, n)' => Sending(r, n)
      BY <1>5, <1>12, <1>13, <3>1 DEF Sending
    <3>3. Switching(r) \/ Sending(r, n)
      BY <2>1, <3>1, <3>2
    <3> QED
      BY <1>0, <1>1, <2>2, <3>1, <3>3 DEF AimsInv
  <2>3. CASE n \notin DOMAIN typed
    <3>1. n = m /\ r = p /\ UpToDate(p)
      BY <1>1, <1>3, <2>3
    <3>2. current[p] = active /\ ~Switching(p)
      BY <3>1 DEF UpToDate, Switching
    <3>3. displayed[p] # 0
      BY <1>0, <1>4, <3>2 DEF TypeOK
    <3>4. CASE past
      <4>1. Sending(p, n)'
        BY <2>1, <3>1, <3>2
      <4>2. PICK i \in DOMAIN toDaemon'[p] : toDaemon'[p][i].type = "message" /\ toDaemon'[p][i].message = n
        BY <4>1 DEF Sending
      <4> QED
        BY <1>5, <1>12, <1>13, <3>1, <3>4, <4>2
    <3>5. CASE ~past
      <4>1. aim = active
        BY <1>4, <3>2, <3>3, <3>5 DEF past, aim
      <4> QED
        BY <1>1, <1>6, <3>1, <4>1
    <3> QED
      BY <3>4, <3>5
  <2> QED
    BY <2>2, <2>3
<1>17. MessageReachesItsSession'
  <2> SUFFICES ASSUME NEW n \in DOMAIN typed', got'[n] # 0
               PROVE  got'[n] = aimed'[n] \/ n \in disturbed'
    BY DEF MessageReachesItsSession
  <2>1. n \in DOMAIN typed
    BY <1>1, <1>3
  <2> QED
    BY <1>0, <1>1, <1>6, <2>1 DEF MessageReachesItsSession
<1> QED
  BY <1>9, <1>10, <1>11, <1>14, <1>15, <1>16, <1>17 DEF ViewInv, DisplayInvariant

-----------------------------------------------------------------------------
(* The page's steps.                                                       *)

\* An event about which session is active or gone, or a transcript, with no message waiting.
LEMMA EventStep ==
    ASSUME ViewInv, NEW p \in Pages, toPage[p] # <<>>,
           toPage' = [toPage EXCEPT ![p] = Tail(@)],
           UNCHANGED <<daemonVars, ready, history, moves, toDaemon, current, queued>>,
           listed' \in [Pages -> SUBSET Sessions],
           {displayed', overlay'} \subseteq [Pages -> Nat],
           \A q \in Pages : current[q] # 0 => displayed'[q] # 0,
           \A q \in Pages : overlay'[q] # 0 => overlay'[q] = displayed'[q]
    PROVE  ViewInv'
<1>0. TypeOK /\ CommandsInv /\ AimsInv
  BY DEF ViewInv, DisplayInvariant
<1>1. toPage' \in [Pages -> Seq(Events)] /\ \A q \in Pages : Switching(q)' => Switching(q)
  BY <1>0, TakenEvent
<1>2. TypeOK'
  BY <1>0, <1>1 DEF TypeOK, daemonVars, history
<1>3. CommandsInv' /\ \A q \in Pages, m \in Messages : Sending(q, m)' => Sending(q, m)
  BY <1>0 DEF CommandsInv, CommandOK, Sending, history
<1>4. AimsInv'
  BY <1>0, <1>1, <1>3, AimsKept DEF daemonVars, history
<1>5. QueuedInv' /\ FreshInv' /\ MessageReachesItsSession'
  BY MessagesKept DEF history
<1> QED
  BY <1>2, <1>3, <1>4, <1>5 DEF ViewInv, DisplayInvariant, OverlayIsDisplayed

LEMMA OnDeletedStep ==
    ASSUME ViewInv, NEW p \in Pages, OnDeleted(p)
    PROVE  ViewInv'
<1> DEFINE event == Head(toPage[p])
           gone == displayed[p] = event.session
<1>0. TypeOK /\ OverlayIsDisplayed
  BY DEF ViewInv, DisplayInvariant
<1>1. /\ toPage[p] # <<>> /\ toPage' = [toPage EXCEPT ![p] = Tail(@)]
      /\ UNCHANGED <<daemonVars, ready, history, moves, toDaemon, current, queued>>
      /\ displayed' = [displayed EXCEPT ![p] = IF gone THEN current[p] ELSE @]
      /\ overlay' = [overlay EXCEPT ![p] = IF gone THEN 0 ELSE @]
      /\ listed' = [listed EXCEPT ![p] = event.sessions]
  BY DEF OnDeleted, Receives
<1>2. event.sessions \in SUBSET Sessions
  BY <1>0, <1>1, TakenEvent, EventTypes
<1> HIDE DEF gone, event
<1>3. listed' \in [Pages -> SUBSET Sessions] /\ {displayed', overlay'} \subseteq [Pages -> Nat]
  BY <1>0, <1>1, <1>2 DEF TypeOK
<1>4. \A q \in Pages : current[q] # 0 => displayed'[q] # 0
  BY <1>0, <1>1 DEF TypeOK
<1>5. \A q \in Pages : overlay'[q] # 0 => overlay'[q] = displayed'[q]
  BY <1>0, <1>1 DEF TypeOK, OverlayIsDisplayed
<1> QED
  BY <1>1, <1>3, <1>4, <1>5, EventStep

LEMMA OnJournalStep ==
    ASSUME ViewInv, NEW p \in Pages, OnJournal(p)
    PROVE  ViewInv'
<1> DEFINE s == Head(toPage[p]).session
<1>0. TypeOK /\ OverlayIsDisplayed
  BY DEF ViewInv, DisplayInvariant
<1>1. /\ toPage[p] # <<>> /\ toPage' = [toPage EXCEPT ![p] = Tail(@)]
      /\ UNCHANGED <<daemonVars, ready, history, moves, toDaemon, current, queued, listed, displayed>>
      /\ overlay' = [overlay EXCEPT ![p] = IF displayed[p] = s THEN s ELSE @]
  BY DEF OnJournal, Receives
<1>2. s \in Nat
  BY <1>0, <1>1, TakenEvent, EventTypes DEF Sessions
<1> HIDE DEF s
<1>3. /\ listed' \in [Pages -> SUBSET Sessions] /\ {displayed', overlay'} \subseteq [Pages -> Nat]
      /\ \A q \in Pages : current[q] # 0 => displayed'[q] # 0
  BY <1>0, <1>1, <1>2 DEF TypeOK
<1>4. \A q \in Pages : overlay'[q] # 0 => overlay'[q] = displayed'[q]
  BY <1>0, <1>1 DEF TypeOK, OverlayIsDisplayed
<1> QED
  BY <1>1, <1>3, <1>4, EventStep

LEMMA OnErrorStep ==
    ASSUME ViewInv, NEW p \in Pages, OnError(p)
    PROVE  ViewInv'
<1>0. TypeOK /\ OverlayIsDisplayed
  BY DEF ViewInv, DisplayInvariant
<1>1. /\ toPage[p] # <<>> /\ toPage' = [toPage EXCEPT ![p] = Tail(@)]
      /\ UNCHANGED <<daemonVars, ready, history, moves, toDaemon, current, queued, listed, displayed, overlay>>
  BY DEF OnError, Receives, modelVars
<1>2. /\ listed' \in [Pages -> SUBSET Sessions] /\ {displayed', overlay'} \subseteq [Pages -> Nat]
      /\ \A q \in Pages : current[q] # 0 => displayed'[q] # 0
      /\ \A q \in Pages : overlay'[q] # 0 => overlay'[q] = displayed'[q]
  BY <1>0, <1>1 DEF TypeOK, OverlayIsDisplayed
<1> QED
  BY <1>1, <1>2, EventStep

\* A switch sends the message that waits; if that one was not disturbed, the switch was its own.
LEMMA OnSwitchedStep ==
    ASSUME ViewInv, NEW p \in Pages, OnSwitched(p)
    PROVE  ViewInv'
<1> DEFINE event == Head(toPage[p])
           follows == displayed[p] \in {0, event.session}
           m == queued[p]
           c == Command("message", 0, m)
<1>0. /\ TypeOK /\ OverlayIsDisplayed /\ CommandsInv /\ AimsInv /\ QueuedInv
  BY DEF ViewInv, DisplayInvariant
<1>1. /\ toPage[p] # <<>> /\ toPage' = [toPage EXCEPT ![p] = Tail(@)] /\ event.type = "switched"
      /\ UNCHANGED <<daemonVars, ready, history, moves>>
      /\ current' = [current EXCEPT ![p] = event.session]
      /\ displayed' = [displayed EXCEPT ![p] = IF follows THEN event.session ELSE @]
      /\ overlay' = [overlay EXCEPT ![p] = IF follows THEN 0 ELSE @]
      /\ listed' = [listed EXCEPT ![p] = event.sessions]
      /\ queued' = [queued EXCEPT ![p] = 0]
  BY DEF OnSwitched, Receives
<1>2. /\ event \in Events /\ toPage' \in [Pages -> Seq(Events)]
      /\ Switching(p)
      /\ \A q \in Pages : Switching(q)' => Switching(q)
  BY <1>0, <1>1, TakenEvent
<1>3. event.session \in Nat \ {0} /\ event.sessions \in SUBSET Sessions
  BY <1>2, EventTypes DEF Sessions
<1>4. /\ toDaemon' = toDaemon \/ (m # 0 /\ toDaemon' = [toDaemon EXCEPT ![p] = Append(@, c)])
  BY DEF OnSwitched, SendIfReady, Send
<1> HIDE DEF follows, event
<1>5. /\ queued' \in [Pages -> 0..MaxMessages] /\ queued'[p] = 0
      /\ \A q \in Pages : q # p => queued'[q] = queued[q]
  BY <1>0, <1>1, ViewAssumption DEF TypeOK
<1>6. /\ listed' \in [Pages -> SUBSET Sessions] /\ {current', displayed', overlay'} \subseteq [Pages -> Nat]
  BY <1>0, <1>1, <1>3 DEF TypeOK
<1>7. \A q \in Pages : current'[q] # 0 => displayed'[q] # 0
  BY <1>0, <1>1, <1>3 DEF TypeOK, follows
<1>8. OverlayIsDisplayed'
  BY <1>0, <1>1, <1>3 DEF TypeOK, OverlayIsDisplayed, follows
<1>9. QueuedInv' /\ FreshInv' /\ MessageReachesItsSession'
  BY <1>1, <1>5, MessagesKept DEF history
<1>10. ASSUME toDaemon' \in [Pages -> Seq(Commands)] PROVE TypeOK'
  BY <1>0, <1>1, <1>2, <1>5, <1>6, <1>7, <1>10 DEF TypeOK, daemonVars, history
<1>11. CASE toDaemon' = toDaemon
  <2>1. TypeOK'
    BY <1>0, <1>10, <1>11 DEF TypeOK
  <2>2. CommandsInv'
    <3> SUFFICES ASSUME NEW q \in Pages, NEW i \in DOMAIN toDaemon[q]
                 PROVE  CommandOK(q, i)'
      BY <1>11 DEF CommandsInv
    <3>1. CommandOK(q, i) /\ toDaemon[q][i] \in Commands
      <4>1. toDaemon[q] \in Seq(Commands)
        BY <1>0 DEF TypeOK
      <4> QED
        BY <1>0, <4>1 DEF CommandsInv
    <3>2. toDaemon[q][i].type = "message" => toDaemon[q][i].message # 0
      BY <3>1, CommandTypes DEF Messages
    <3> QED
      BY <1>1, <1>5, <1>11, <3>1, <3>2 DEF CommandOK, history
  <2>3. \A q \in Pages, n \in Messages : Sending(q, n)' => Sending(q, n)
    BY <1>11 DEF Sending
  <2>4. AimsInv'
    BY <1>0, <1>1, <1>2, <2>3, AimsKept DEF daemonVars, history
  <2> QED
    BY <1>8, <1>9, <2>1, <2>2, <2>4 DEF ViewInv, DisplayInvariant
<1>12. CASE m # 0 /\ toDaemon' = [toDaemon EXCEPT ![p] = Append(@, c)]
  <2>1. m \in DOMAIN typed /\ m \in Messages /\ typed[m] = p /\ got[m] = 0
    BY <1>0, <1>12, TypedMessages DEF QueuedInv
  <2>2. c \in Commands /\ c.type = "message" /\ c.message = m
    BY <2>1, CommandTypes
  <2> HIDE DEF c, m
  <2>3. /\ toDaemon' \in [Pages -> Seq(Commands)]
        /\ \A q \in Pages : q # p => toDaemon'[q] = toDaemon[q]
        /\ Len(toDaemon[p]) \in Nat /\ DOMAIN toDaemon[p] = 1..Len(toDaemon[p])
        /\ DOMAIN toDaemon'[p] = 1..(Len(toDaemon[p]) + 1)
        /\ \A i \in 1..Len(toDaemon[p]) : toDaemon'[p][i] = toDaemon[p][i]
        /\ toDaemon'[p][Len(toDaemon[p]) + 1] = c
    <3>1. toDaemon \in [Pages -> Seq(Commands)]
      BY <1>0 DEF TypeOK
    <3> QED
      BY <1>12, <2>2, <3>1, AppendAt
  <2>4. TypeOK'
    BY <1>10, <2>3
  \* no command of a page carries m
  <2>5. ASSUME NEW q \in Pages, NEW i \in DOMAIN toDaemon[q]
        PROVE  /\ toDaemon'[q][i] = toDaemon[q][i] /\ i \in DOMAIN toDaemon'[q]
               /\ toDaemon[q][i].type = "message" => toDaemon[q][i].message # m
               /\ toDaemon[q][i] \in Commands
    <3>1. toDaemon[q][i] \in Commands
      <4>1. toDaemon[q] \in Seq(Commands)
        BY <1>0 DEF TypeOK
      <4> QED
        BY <4>1
    <3>2. toDaemon[q][i].type = "message" => toDaemon[q][i].message # m
      BY <1>0, <1>12, <2>1, <2>5 DEF CommandsInv, CommandOK, m
    <3> QED
      BY <2>3, <2>5, <3>1, <3>2
  <2>6. ASSUME NEW q \in Pages, NEW i \in DOMAIN toDaemon'[q]
        PROVE  i \in DOMAIN toDaemon[q] \/ (q = p /\ i = Len(toDaemon[p]) + 1 /\ toDaemon'[q][i] = c)
    BY <2>3, <2>6
  <2>7. CommandsInv'
    <3> SUFFICES ASSUME NEW q \in Pages, NEW i \in DOMAIN toDaemon'[q]
                 PROVE  CommandOK(q, i)'
      BY DEF CommandsInv
    <3>1. CASE i \in DOMAIN toDaemon[q]
      <4> DEFINE n == toDaemon[q][i].message
      <4>1. /\ CommandOK(q, i) /\ toDaemon'[q][i] = toDaemon[q][i] /\ toDaemon[q][i] \in Commands
            /\ toDaemon[q][i].type = "message" => n # m /\ n # 0
        BY <1>0, <2>5, <3>1, CommandTypes DEF CommandsInv, Messages
      <4>2. ASSUME toDaemon[q][i].type = "message",
                   NEW j \in DOMAIN toDaemon'[q], toDaemon'[q][j].message = n
            PROVE  j \in DOMAIN toDaemon[q] /\ toDaemon'[q][j] = toDaemon[q][j]
        BY <2>2, <2>5, <2>6, <4>1, <4>2
      <4> QED
        BY <1>1, <1>5, <3>1, <4>1, <4>2 DEF CommandOK, history
    <3>2. CASE i \notin DOMAIN toDaemon[q]
      <4>1. q = p /\ i = Len(toDaemon[p]) + 1 /\ toDaemon'[q][i] = c
        BY <2>6, <3>2
      <4>2. ASSUME NEW j \in DOMAIN toDaemon'[q], toDaemon'[q][j].type = "message",
                   toDaemon'[q][j].message = m
            PROVE  j = i
        BY <2>5, <2>6, <4>1, <4>2
      <4> QED
        BY <1>1, <1>5, <1>12, <2>1, <2>2, <4>1, <4>2 DEF CommandOK, history
    <3> QED
      BY <3>1, <3>2
  <2>8. AimsInv'
    <3> SUFFICES ASSUME NEW n \in DOMAIN typed', got'[n] = 0, n \notin disturbed',
                        NEW r, r = typed'[n], Switching(r)' \/ Sending(r, n)'
                 PROVE  active' = aimed'[n]
      BY DEF AimsInv, Switching, Sending
    <3>1. /\ n \in DOMAIN typed /\ n \in Messages /\ r = typed[n] /\ r \in Pages
          /\ got[n] = 0 /\ n \notin disturbed
      BY <1>0, <1>1, TypedMessages DEF history
    <3>2. Switching(r) \/ Sending(r, n)
      <4>1. CASE Switching(r)'
        BY <1>2, <3>1, <4>1
      <4>2. CASE Sending(r, n)'
        <5>1. PICK i \in DOMAIN toDaemon'[r] : toDaemon'[r][i].type = "message" /\ toDaemon'[r][i].message = n
          BY <4>2 DEF Sending
        <5> QED
          BY <1>2, <2>2, <2>5, <2>6, <3>1, <5>1 DEF Sending
      <4> QED
        BY <4>1, <4>2
    <3> QED
      BY <1>0, <1>1, <3>1, <3>2 DEF AimsInv, daemonVars, history
  <2> QED
    BY <1>8, <1>9, <2>4, <2>7, <2>8 DEF ViewInv, DisplayInvariant
<1> QED
  BY <1>4, <1>11, <1>12

-----------------------------------------------------------------------------
(* The link's steps.                                                       *)

\* Whatever is under way is lost; the messages that are not there any more are excused.
LEMMA LostLink ==
    ASSUME ViewInv, NEW p \in Pages, Lose(p),
           ready' \in [Pages -> BOOLEAN], listed' \in [Pages -> SUBSET Sessions],
           {current', displayed', overlay'} \subseteq [Pages -> Nat],
           queued' \in [Pages -> 0..MaxMessages],
           \A q \in Pages : queued'[q] = queued[q] \/ queued'[q] = 0,
           \A q \in Pages : q # p => queued'[q] = queued[q],
           \A q \in Pages : current'[q] # 0 => displayed'[q] # 0,
           OverlayIsDisplayed'
    PROVE  ViewInv'
<1>0. TypeOK /\ CommandsInv /\ AimsInv
  BY DEF ViewInv, DisplayInvariant
<1>1. /\ moves < MaxMoves /\ moves' = moves + 1
      /\ toDaemon' = [toDaemon EXCEPT ![p] = <<>>] /\ toPage' = [toPage EXCEPT ![p] = <<>>]
      /\ excused' = excused \cup Pending(p)
      /\ UNCHANGED <<exists, active, made, typed, aimed, got, disturbed>>
  BY DEF Lose, daemonVars
<1>2. /\ toDaemon' \in [Pages -> Seq(Commands)] /\ CommandsInv'
      /\ \A q \in Pages, m \in Messages : Sending(q, m)' => Sending(q, m)
  BY <1>0, <1>1, LostCommands
<1>3. /\ toPage' \in [Pages -> Seq(Events)]
      /\ \A q \in Pages : Switching(q)' => Switching(q)
  BY <1>0, <1>1, LostEvents
<1>4. moves' \in 0..MaxMoves
  BY <1>0, <1>1, ViewAssumption DEF TypeOK
<1>5. excused' \subseteq DOMAIN typed
  BY <1>0, <1>1 DEF TypeOK, Pending, UnderWay
<1>6. TypeOK'
  BY <1>0, <1>1, <1>2, <1>3, <1>4, <1>5 DEF TypeOK
<1>7. AimsInv'
  BY <1>0, <1>1, <1>2, <1>3, AimsKept
<1>8. QueuedInv' /\ FreshInv' /\ MessageReachesItsSession'
  BY <1>1, MessagesKept
<1> QED
  BY <1>2, <1>6, <1>7, <1>8 DEF ViewInv, DisplayInvariant

LEMMA DisconnectStep ==
    ASSUME ViewInv, NEW p \in Pages, Disconnect(p)
    PROVE  ViewInv'
<1>0. TypeOK /\ OverlayIsDisplayed
  BY DEF ViewInv, DisplayInvariant
<1>1. Lose(p) /\ ready' = [ready EXCEPT ![p] = FALSE] /\ UNCHANGED <<listed, current, displayed, overlay, queued>>
  BY DEF Disconnect, modelVars
<1>2. ready' \in [Pages -> BOOLEAN]
  BY <1>0, <1>1 DEF TypeOK
<1>3. OverlayIsDisplayed'
  BY <1>0, <1>1 DEF OverlayIsDisplayed
<1>4. /\ listed' \in [Pages -> SUBSET Sessions] /\ {current', displayed', overlay'} \subseteq [Pages -> Nat]
      /\ queued' \in [Pages -> 0..MaxMessages]
      /\ \A q \in Pages : current'[q] # 0 => displayed'[q] # 0
  BY <1>0, <1>1 DEF TypeOK
<1> QED
  BY <1>1, <1>2, <1>3, <1>4, LostLink

LEMMA ReloadStep ==
    ASSUME ViewInv, NEW p \in Pages, Reload(p)
    PROVE  ViewInv'
<1>0. TypeOK /\ OverlayIsDisplayed
  BY DEF ViewInv, DisplayInvariant
<1>1. /\ Lose(p) /\ ready' = [ready EXCEPT ![p] = TRUE]
      /\ listed' = [listed EXCEPT ![p] = {}]
      /\ current' = [current EXCEPT ![p] = 0] /\ displayed' = [displayed EXCEPT ![p] = 0]
      /\ overlay' = [overlay EXCEPT ![p] = 0] /\ queued' = [queued EXCEPT ![p] = 0]
  BY DEF Reload
<1>2. ready' \in [Pages -> BOOLEAN]
  BY <1>0, <1>1 DEF TypeOK
<1>3. /\ listed' \in [Pages -> SUBSET Sessions] /\ {current', displayed', overlay'} \subseteq [Pages -> Nat]
      /\ \A q \in Pages : current'[q] # 0 => displayed'[q] # 0
  BY <1>0, <1>1 DEF TypeOK
<1>4. /\ queued' \in [Pages -> 0..MaxMessages]
      /\ \A q \in Pages : queued'[q] = queued[q] \/ queued'[q] = 0
      /\ \A q \in Pages : q # p => queued'[q] = queued[q]
  BY <1>0, <1>1, ViewAssumption DEF TypeOK
<1>5. OverlayIsDisplayed'
  BY <1>0, <1>1 DEF OverlayIsDisplayed, TypeOK
<1> QED
  BY <1>1, <1>2, <1>3, <1>4, <1>5, LostLink

LEMMA ReconnectStep ==
    ASSUME ViewInv, NEW p \in Pages, Reconnect(p)
    PROVE  ViewInv'
<1>0. TypeOK /\ OverlayIsDisplayed /\ CommandsInv /\ AimsInv
  BY DEF ViewInv, DisplayInvariant
<1>1. /\ ready' = [ready EXCEPT ![p] = TRUE]
      /\ UNCHANGED <<exists, active, made, toDaemon, toPage, listed, current, displayed, overlay, queued, moves>>
      /\ UNCHANGED <<typed, aimed, got, disturbed, excused>>
  BY DEF Reconnect, daemonVars, links, modelVars, history
<1>2. ready' \in [Pages -> BOOLEAN]
  BY <1>0, <1>1 DEF TypeOK
<1>3. TypeOK' /\ OverlayIsDisplayed'
  BY <1>0, <1>1, <1>2 DEF TypeOK, OverlayIsDisplayed
<1>4. CommandsInv'
  BY <1>0, <1>1 DEF CommandsInv, CommandOK
<1>5. AimsInv'
  BY <1>0, <1>1 DEF AimsInv, Switching, Sending
<1>6. QueuedInv' /\ FreshInv' /\ MessageReachesItsSession'
  BY <1>1, MessagesKept
<1> QED
  BY <1>3, <1>4, <1>5, <1>6 DEF ViewInv, DisplayInvariant

-----------------------------------------------------------------------------
(* The theorems.                                                           *)

LEMMA InitView == Init => ViewInv
<1> SUFFICES ASSUME Init PROVE ViewInv
  OBVIOUS
<1>1. Found \in Nat \ {0} /\ MaxMessages \in Nat /\ MaxMoves \in Nat
  BY ViewAssumption
<1>2. \A p \in Pages : toDaemon[p] = <<>> /\ toPage[p] = <<>> /\ queued[p] = 0
                         /\ current[p] = 0 /\ overlay[p] = 0
  BY DEF Init
<1>3. typed = <<>> /\ DOMAIN typed = {} /\ Len(typed) = 0 /\ typed \in Seq(Pages)
  BY DEF Init
<1>4. /\ toDaemon \in [Pages -> Seq(Commands)] /\ toPage \in [Pages -> Seq(Events)]
      /\ ready \in [Pages -> BOOLEAN]
  BY DEF Init
<1>5. TypeOK
  BY <1>1, <1>2, <1>3, <1>4 DEF Init, TypeOK, Sessions
<1>6. OverlayIsDisplayed /\ QueuedInv /\ CommandsInv
  BY <1>2 DEF OverlayIsDisplayed, QueuedInv, CommandsInv
<1>7. FreshInv
  BY DEF Init, FreshInv
<1>8. AimsInv /\ MessageReachesItsSession
  BY <1>3 DEF AimsInv, MessageReachesItsSession
<1> QED
  BY <1>5, <1>6, <1>7, <1>8 DEF ViewInv, DisplayInvariant

LEMMA NextKeepsView == ViewInv /\ [Next]_vars => ViewInv'
<1> SUFFICES ASSUME ViewInv, [Next]_vars PROVE ViewInv'
  OBVIOUS
<1>1. ASSUME NEW p \in Pages, User(p) PROVE ViewInv'
  BY <1>1, OpenRowStep, DeleteSessionStep, NewSessionStep, SendMessageStep DEF User
<1>2. ASSUME NEW p \in Pages, Handle(p) PROVE ViewInv'
  BY <1>2, HandleNewStep, HandleOpenStep, HandleJournalStep, HandleDeleteStep, HandleMessageStep DEF Handle
<1>3. ASSUME NEW p \in Pages, Apply(p) PROVE ViewInv'
  BY <1>3, OnSwitchedStep, OnDeletedStep, OnJournalStep, OnErrorStep DEF Apply
<1>4. ASSUME NEW p \in Pages, Disconnect(p) \/ Reconnect(p) \/ Reload(p) PROVE ViewInv'
  BY <1>4, DisconnectStep, ReconnectStep, ReloadStep
<1>5. CASE UNCHANGED vars
  <2>1. /\ UNCHANGED <<exists, active, made, toDaemon, toPage, ready, listed, current, displayed, overlay>>
        /\ UNCHANGED <<queued, typed, aimed, got, disturbed, excused, moves>>
    BY <1>5 DEF vars, daemonVars, links, modelVars, history
  <2>2. TypeOK' /\ OverlayIsDisplayed'
    BY <2>1 DEF ViewInv, DisplayInvariant, TypeOK, OverlayIsDisplayed
  <2>3. CommandsInv'
    BY <2>1 DEF ViewInv, CommandsInv, CommandOK
  <2>4. AimsInv'
    BY <2>1 DEF ViewInv, AimsInv, Switching, Sending
  <2>5. QueuedInv' /\ FreshInv' /\ MessageReachesItsSession'
    BY <2>1, MessagesKept
  <2> QED
    BY <2>2, <2>3, <2>4, <2>5 DEF ViewInv, DisplayInvariant
<1> QED
  BY <1>1, <1>2, <1>3, <1>4, <1>5, RollStep DEF Next

LEMMA ViewStaysConsistent == Spec => []ViewInv
  BY InitView, NextKeepsView, PTL DEF Spec

\* For any number of pages: the views keep their types, and a past transcript is on screen only
\* while its session is the one displayed (session-model.ts applyJournal()).
THEOREM TranscriptIsTheOneDisplayed == Spec => []DisplayInvariant
<1>1. ViewInv => DisplayInvariant
  BY DEF ViewInv
<1> QED
  BY <1>1, ViewStaysConsistent, PTL

\* For any number of pages, messages and broken links: a message gets to the session that was on
\* screen when it was typed, if no switch that its page did not know of came between
\* (Phase1Shell.tsx sendMessage() with pendingSendRef).
THEOREM MessagesFindTheirSession == Spec => []MessageReachesItsSession
<1>1. ViewInv => MessageReachesItsSession
  BY DEF ViewInv
<1> QED
  BY <1>1, ViewStaysConsistent, PTL
=============================================================================
