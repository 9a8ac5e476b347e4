------------------------- MODULE SessionSwitchProofs -------------------------
(****************************************************************************)
(* Theorems about SessionSwitch, for any number of sessions, bindings,      *)
(* turns and tool calls.                                                    *)
(*                                                                          *)
(* The argument.  Whatever is going on, the bindings are at one of four     *)
(* stages of a switch (StageInv), and in each of them at most one journal   *)
(* is open, that of the binding made last.  So of all the Session objects   *)
(* that number an event of the engine only one gets it into a file, and     *)
(* that one counts on from the last number of its journal (NumbersInv).     *)
(* When nothing is at work as a journal is closed, nothing but a command    *)
(* can make an object speak before the next one is open (QuietInv).  And    *)
(* the page's number never passes that of the object which has counted      *)
(* furthest (HeardInv): what all of them say, that one says as news.        *)
(****************************************************************************)
EXTENDS SessionSwitch, FiniteSetTheorems, WellFoundedInduction, TLAPS

-----------------------------------------------------------------------------
(* Induction on the numbers below a bound, by the least one that fails.    *)

Below == {pair \in Nat \X Nat : pair[1] < pair[2]}

LEMMA BelowIsWellFounded == IsWellFoundedOn(Below, Nat)
  BY NatLessThanWellFounded, Zenon DEF OpToRel, Below

LEMMA UpTo ==
    ASSUME NEW N \in Nat, NEW T, 0 \in T, \A n \in 0..(N - 1) : n \in T => n + 1 \in T
    PROVE  \A n \in 0..N : n \in T
<1> SUFFICES ASSUME NEW n \in 0..N, n \notin T PROVE FALSE
  OBVIOUS
<1> DEFINE F == {k \in 0..N : k \notin T}
<1>1. F \in SUBSET Nat /\ F # {}
  OBVIOUS
<1>2. PICK least \in F : \A k \in F : ~(<<k, least>> \in Below)
  BY <1>1, BelowIsWellFounded, WFMin
<1>3. least \in 1..N
  BY <1>2
<1>4. least - 1 \notin F
  <2>1. <<least - 1, least>> \in Below
    BY <1>3 DEF Below
  <2> QED
    BY <1>2, <2>1
<1>5. (least - 1) + 1 \in T /\ (least - 1) + 1 = least
  BY <1>3, <1>4
<1> QED
  BY <1>2, <1>5

-----------------------------------------------------------------------------
(* Journals as sequences of numbers.                                       *)

Rises(s) == \A i \in 1..(Len(s) - 1) : s[i] < s[i + 1]

EndOf(s) == IF s = <<>> THEN 0 ELSE s[Len(s)]

LEMMA NumbersFacts ==
    ASSUME NEW seq \in Nat, NEW n \in Nat
    PROVE  /\ Numbers(seq, n) \in Seq(Nat) /\ Len(Numbers(seq, n)) = n
           /\ \A i \in 1..n : Numbers(seq, n)[i] = seq + i
  BY DEF Numbers

\* a journal whose last number is not above seq goes on from seq
LEMMA GoesOn ==
    ASSUME NEW s \in Seq(Nat), Rises(s), NEW seq \in Nat, EndOf(s) <= seq, NEW n \in Nat
    PROVE  /\ s \o Numbers(seq, n) \in Seq(Nat) /\ Rises(s \o Numbers(seq, n))
           /\ EndOf(s \o Numbers(seq, n)) <= seq + n
<1> DEFINE t == Numbers(seq, n)
           z == s \o t
           l == Len(s)
<1>1. t \in Seq(Nat) /\ Len(t) = n /\ \A i \in 1..n : t[i] = seq + i
  BY NumbersFacts
<1>2. z \in Seq(Nat) /\ Len(z) = l + n /\ l \in Nat
  BY <1>1
<1>3. \A i \in 1..l : z[i] = s[i] /\ s[i] \in Nat
  BY <1>1
<1>4. \A i \in 1..n : z[l + i] = seq + i
  BY <1>1
<1>5. l > 0 => s[l] <= seq
  BY DEF EndOf
<1>6. \A i \in 1..(l - 1) : s[i] < s[i + 1]
  BY DEF Rises
<1> HIDE DEF t, z, l
<1>7. ASSUME NEW i \in 1..(l + n - 1) PROVE z[i] < z[i + 1]
  <2>1. CASE i \in 1..(l - 1)
    <3>1. i \in 1..l /\ i + 1 \in 1..l
      BY <1>2, <2>1
    <3> QED
      BY <1>3, <1>6, <2>1, <3>1
  <2>2. CASE i = l
    <3>1. 1 \in 1..n /\ i \in 1..l
      BY <1>2, <2>2
    <3>2. z[l + 1] = seq + 1 /\ z[l] = s[l]
      BY <1>3, <1>4, <2>2, <3>1
    <3> QED
      BY <1>2, <1>3, <1>5, <2>2, <3>1, <3>2
  <2>3. CASE i \in (l + 1)..(l + n - 1)
    <3>1. i - l \in 1..n /\ (i + 1) - l \in 1..n /\ l + (i - l) = i /\ l + ((i + 1) - l) = i + 1
      BY <1>2, <2>3
    <3>2. z[i] = seq + (i - l) /\ z[i + 1] = seq + ((i + 1) - l)
      BY <1>4, <3>1
    <3> QED
      BY <1>2, <2>3, <3>2
  <2> QED
    BY <1>2, <2>1, <2>2, <2>3
<1>8. EndOf(z) <= seq + n
  <2>1. CASE n = 0 /\ l = 0
    <3>1. Len(z) = 0
      BY <1>2, <2>1
    <3>2. z = <<>>
      BY <1>2, <3>1
    <3> QED
      BY <2>1, <3>2 DEF EndOf
  <2>2. CASE n = 0 /\ l > 0
    <3>1. Len(z) = l /\ l \in 1..l
      BY <1>2, <2>2
    <3>2. z[l] = s[l] /\ z # <<>>
      BY <1>2, <1>3, <2>2, <3>1
    <3> QED
      BY <1>5, <2>2, <3>1, <3>2 DEF EndOf
  <2>3. CASE n > 0
    <3>1. n \in 1..n /\ Len(z) > 0 /\ Len(z) = l + n
      BY <1>2, <2>3
    <3>2. z[l + n] = seq + n /\ z # <<>>
      BY <1>2, <1>4, <3>1
    <3> QED
      BY <3>1, <3>2 DEF EndOf
  <2> QED
    BY <1>2, <2>1, <2>2, <2>3
<1>9. Rises(z)
  BY <1>2, <1>7 DEF Rises
<1> QED
  BY <1>2, <1>8, <1>9 DEF z, t

-----------------------------------------------------------------------------
(* The invariant.                                                          *)

Entries == [sid : Sessions, seq : Nat, journal : {"open", "ending", "closed"},
            live : BOOLEAN, turn : 0..MaxTurns, armed : SUBSET Requests]

OnlyLast == \A b \in DOMAIN binds : binds[b].journal # "closed" => b = Len(binds)

BindTypes == binds \in Seq(Entries) /\ bound \in DOMAIN binds /\ Len(binds) <= MaxBinds /\ OnlyLast

FileTypes == file \in [Sessions -> [seqs : Seq(Nat), open : SUBSET Turns]]

OtherTypes ==
    /\ up \in BOOLEAN
    /\ switch \in [phase : {"none", "closing", "ending", "opening", "attached"},
                  to : 0..MaxSessions, resume : BOOLEAN]
    /\ sessions \in Sessions
    /\ lastTurn \in 0..MaxTurns /\ events \in 0..MaxEvents /\ restarts \in 0..MaxRestarts
    /\ inbox \in Seq(Turns) /\ promise \in [Requests -> {"unused", "blocked", "approve", "deny"}]
    /\ cursor \in Nat /\ prompts \subseteq Requests /\ missed \subseteq {"message", "prompt", "completion"}
    /\ {lost, rash} \subseteq BOOLEAN

LEMMA TypeParts == TypeOK <=> BindTypes /\ FileTypes /\ OtherTypes
  BY DEF TypeOK, BindTypes, FileTypes, OtherTypes, OnlyLast, Entries

\* the stages of a switch: the manager's journal is that of Daemon.session until it is closed, then
\* there is none, then it is that of the next session, which is bound last
StageInv ==
    /\ binds[bound].live
    /\ switch.phase = "none" => switch = Idle
    /\ switch.phase \in {"none", "closing"} => bound = Len(binds) /\ binds[bound].journal = "open"
    /\ switch.phase = "ending" => bound = Len(binds) /\ binds[bound].journal = "ending"
    /\ switch.phase = "opening" => bound = Len(binds) /\ binds[bound].journal = "closed"
    /\ switch.phase = "attached" => /\ Len(binds) = bound + 1 /\ binds[bound].journal = "closed"
                                    /\ binds[Len(binds)].journal = "open"
    /\ switch.phase \in {"closing", "ending", "opening"} => Len(binds) < MaxBinds /\ switch.to \in Sessions

\* an open journal ends at or before its object's number
NumbersInv ==
    /\ FileSeqsIncrease
    /\ \A b \in DOMAIN binds : binds[b].journal = "open" => LastNumber(binds[b].sid) <= binds[b].seq

QuietInv ==
    ~rash => /\ up /\ ~lost
             /\ Leaving => inbox = <<>> /\ \A b \in Live : binds[b].armed = {}

HeardInv ==
    restarts = 0 => /\ missed \subseteq {"completion"}
                    /\ \E b \in Live : cursor <= binds[b].seq

LEMMA FileFacts ==
    /\ FileSeqsIncrease <=> \A s \in Sessions : Rises(file[s].seqs)
    /\ \A s : LastNumber(s) = EndOf(file[s].seqs)
  BY DEF FileSeqsIncrease, Rises, LastNumber, EndOf

LEMMA BindFacts ==
    ASSUME BindTypes
    PROVE  /\ Len(binds) \in Nat \ {0} /\ DOMAIN binds = 1..Len(binds)
           /\ binds \in [1..Len(binds) -> Entries]
           /\ \A b \in DOMAIN binds : /\ binds[b] \in Entries /\ b \in Nat /\ b <= Len(binds)
                                      /\ binds[b].seq \in Nat /\ binds[b].sid \in Sessions
                                      /\ binds[b].journal \in {"open", "ending", "closed"}
                                      /\ binds[b].live \in BOOLEAN
<1>1. binds \in Seq(Entries) /\ bound \in DOMAIN binds
  BY DEF BindTypes
<1>2. Len(binds) \in Nat /\ DOMAIN binds = 1..Len(binds) /\ binds \in [1..Len(binds) -> Entries]
  BY <1>1
<1>3. Len(binds) # 0
  BY <1>1, <1>2
<1>4. \A b \in DOMAIN binds : binds[b] \in Entries /\ b \in Nat /\ b <= Len(binds)
  BY <1>2
<1>5. \A e \in Entries : /\ e.seq \in Nat /\ e.sid \in Sessions /\ e.live \in BOOLEAN
                         /\ e.journal \in {"open", "ending", "closed"}
  BY DEF Entries
<1> QED
  BY <1>2, <1>3, <1>4, <1>5

-----------------------------------------------------------------------------
(* Many objects say something.                                             *)

\* the object with the highest number, the oldest of those that have it
LEMMA Loudest ==
    ASSUME NEW L \in Nat, NEW seq, \A b \in 1..L : seq[b] \in Nat, NEW who \in SUBSET (1..L), who # {}
    PROVE  \E t \in who : \A b \in who : seq[b] <= seq[t] /\ (b < t => seq[b] < seq[t])
<1> DEFINE Best(t, n) == \A b \in who : b <= n => seq[b] <= seq[t] /\ (b < t => seq[b] < seq[t])
           T == {n \in 0..L : (\E b \in who : b <= n) => \E t \in who : t <= n /\ Best(t, n)}
<1>1. 0 \in T
  OBVIOUS
<1>2. ASSUME NEW n \in 0..(L - 1), n \in T PROVE n + 1 \in T
  <2>1. n + 1 \in 0..L /\ n \in Nat /\ n + 1 \in 1..L
    OBVIOUS
  <2>2. \A b \in who : b \in Nat /\ (b <= n + 1 => b <= n \/ b = n + 1) /\ seq[b] \in Nat
    OBVIOUS
  <2>3. CASE n + 1 \notin who
    <3>1. \A b \in who : b <= n + 1 => b <= n
      BY <2>2, <2>3
    <3>2. \A t \in who : t <= n => t <= n + 1
      BY <2>1, <2>2
    <3> QED
      BY <1>2, <2>1, <3>1, <3>2
  <2>4. CASE n + 1 \in who /\ ~\E b \in who : b <= n
    <3>1. \A b \in who : b <= n + 1 => b = n + 1
      BY <2>2, <2>4
    <3>2. seq[n + 1] <= seq[n + 1] /\ ~(n + 1 < n + 1)
      BY <2>1
    <3>3. Best(n + 1, n + 1)
      BY <3>1, <3>2
    <3> HIDE DEF Best
    <3> QED
      BY <2>1, <2>4, <3>3
  <2>5. CASE n + 1 \in who /\ \E b \in who : b <= n
    <3>1. PICK t \in who : t <= n /\ Best(t, n)
      BY <1>2, <2>5
    <3>2. CASE seq[t] < seq[n + 1]
      <4>1. ASSUME NEW b \in who, b <= n + 1
            PROVE  seq[b] <= seq[n + 1] /\ (b < n + 1 => seq[b] < seq[n + 1])
        <5>1. CASE b = n + 1
          BY <2>1, <5>1
        <5>2. CASE b <= n
          <6>1. seq[b] <= seq[t] /\ seq[b] \in Nat /\ seq[t] \in Nat /\ seq[n + 1] \in Nat
            BY <2>1, <2>2, <3>1, <5>2
          <6> QED
            BY <3>2, <6>1
        <5> QED
          BY <2>2, <4>1, <5>1, <5>2
      <4>2. Best(n + 1, n + 1)
        BY <4>1
      <4> HIDE DEF Best
      <4> QED
        BY <2>1, <2>5, <4>2
    <3>3. CASE seq[n + 1] <= seq[t]
      <4>1. Best(t, n + 1)
        <5>1. \A b \in who : b <= n => seq[b] <= seq[t] /\ (b < t => seq[b] < seq[t])
          BY <3>1
        <5>2. ~(n + 1 < t)
          BY <2>1, <2>2, <3>1
        <5> QED
          BY <2>2, <3>3, <5>1, <5>2
      <4>2. t <= n + 1
        BY <2>1, <2>2, <3>1
      <4> HIDE DEF Best
      <4> QED
        BY <2>1, <2>5, <4>1, <4>2
    <3> QED
      BY <2>2, <2>5, <3>2, <3>3
  <2> QED
    BY <2>3, <2>4, <2>5
<1>3. L \in T
  <2> HIDE DEF T
  <2>1. \A n \in 0..L : n \in T
    BY <1>1, <1>2, UpTo
  <2> QED
    BY <2>1
<1>4. \E b \in who : b <= L
  <2>1. PICK b : b \in who
    OBVIOUS
  <2>2. b \in 1..L
    BY <2>1
  <2> QED
    BY <2>1, <2>2
<1>5. PICK t \in who : t <= L /\ Best(t, L)
  BY <1>3, <1>4
<1> QED
  BY <1>5

\* of the objects that write, one at most has an open journal: the last
LEMMA AppendedFacts ==
    ASSUME BindTypes, NEW s, NEW who, NEW n
    PROVE  Appended(s, who, n) = IF Len(binds) \in who /\ binds[Len(binds)].sid = s /\ binds[Len(binds)].journal = "open"
                                 THEN file[s].seqs \o Numbers(binds[Len(binds)].seq, n)
                                 ELSE file[s].seqs
<1> DEFINE L == Len(binds)
           base == file[s].seqs
           Writes(b) == b \in who /\ binds[b].sid = s /\ binds[b].journal = "open"
           more == base \o Numbers(binds[L].seq, n)
           Step(g, b) == IF b = 0 THEN base
                         ELSE IF Writes(b) THEN g[b - 1] \o Numbers(binds[b].seq, n) ELSE g[b - 1]
           Upto(g) == g = [b \in 0..L |-> Step(g, b)]
           h == [b \in 0..L |-> IF b = L /\ Writes(L) THEN more ELSE base]
           f == CHOOSE g : Upto(g)
<1>1. L \in Nat /\ L > 0 /\ L = Len(binds)
  <2>1. Len(binds) \in Nat \ {0}
    BY BindFacts, Zenon
  <2> HIDE DEF Upto, Step, h, f, more, base, Writes
  <2> QED
    BY <2>1
<1>2. \A b \in 1..L : b # L => ~Writes(b)
  <2>1. DOMAIN binds = 1..L
    BY DEF BindTypes
  <2> QED
    BY <2>1 DEF BindTypes, OnlyLast
<1>3. Appended(s, who, n) = f[L]
  BY DEF Appended
<1> HIDE DEF L, Writes, base
<1>4. \A b \in 0..L : h[b] = Step(h, b)
  <2> SUFFICES ASSUME NEW b \in 0..L PROVE h[b] = Step(h, b)
    OBVIOUS
  <2>1. CASE b = 0
    BY <1>1, <2>1
  <2>2. CASE b # 0
    <3>1. b - 1 \in 0..L /\ b - 1 # L /\ b \in 1..L
      BY <1>1, <2>2
    <3>2. h[b - 1] = base
      BY <3>1
    <3>3. h[b] = IF b = L /\ Writes(L) THEN more ELSE base
      OBVIOUS
    <3> HIDE DEF h
    <3>4. CASE b = L
      BY <2>2, <3>2, <3>3, <3>4
    <3>5. CASE b # L
      BY <1>2, <2>2, <3>1, <3>2, <3>3, <3>5
    <3> QED
      BY <3>4, <3>5
  <2> QED
    BY <2>1, <2>2
<1>5. Upto(h)
  <2>1. h = [b \in 0..L |-> h[b]]
    OBVIOUS
  <2> HIDE DEF h
  <2> QED
    BY <1>4, <2>1
<1>6. Upto(f)
  <2> HIDE DEF Upto, h
  <2> QED
    BY <1>5
<1> HIDE DEF f, h
<1>7. \A b \in 0..L : f[b] = Step(f, b)
  BY <1>6
<1> DEFINE T == {b \in 0..(L - 1) : f[b] = base}
<1>8. 0 \in T
  BY <1>1, <1>7
<1>9. ASSUME NEW b \in 0..((L - 1) - 1), b \in T PROVE b + 1 \in T
  <2>1. b + 1 \in 0..L /\ b + 1 # 0 /\ (b + 1) - 1 = b /\ b + 1 \in 1..L /\ b + 1 # L /\ b + 1 \in 0..(L - 1)
    BY <1>1
  <2>2. f[b + 1] = Step(f, b + 1)
    BY <1>7, <2>1
  <2>3. ~Writes(b + 1)
    BY <1>2, <2>1
  <2>4. f[b + 1] = f[b]
    BY <2>1, <2>2, <2>3
  <2> QED
    BY <1>9, <2>1, <2>4
<1>10. f[L - 1] = base
  <2> HIDE DEF T
  <2>1. L - 1 \in Nat /\ L - 1 \in 0..(L - 1)
    BY <1>1
  <2>2. \A b \in 0..(L - 1) : b \in T
    BY <1>8, <1>9, <2>1, UpTo
  <2>3. L - 1 \in T
    BY <2>1, <2>2
  <2> QED
    BY <2>3 DEF T
<1>11. f[L] = IF Writes(L) THEN base \o Numbers(binds[L].seq, n) ELSE base
  <2>1. L \in 0..L /\ L # 0
    BY <1>1
  <2>2. f[L] = Step(f, L)
    BY <1>7, <2>1
  <2> QED
    BY <1>10, <2>1, <2>2
<1> QED
  BY <1>1, <1>3, <1>11 DEF Writes, base

-----------------------------------------------------------------------------
(* Some of the objects push n events each.                                 *)

Said(who, n) ==
    /\ binds' \in Seq(Entries) /\ Len(binds') = Len(binds)
    /\ \A b \in DOMAIN binds :
          /\ binds'[b].sid = binds[b].sid /\ binds'[b].journal = binds[b].journal
          /\ binds'[b].live = binds[b].live
          /\ binds'[b].seq = IF b \in who THEN binds[b].seq + n ELSE binds[b].seq

Filed(who, n) == FileTypes' /\ \A s \in Sessions : file'[s].seqs = Appended(s, who, n)

LEMMA EndOfType == ASSUME NEW s \in Seq(Nat) PROVE EndOf(s) \in Nat
  BY DEF EndOf

LEMMA LastNumberType == ASSUME FileTypes, NEW s \in Sessions PROVE LastNumber(s) \in Nat
<1>1. file[s].seqs \in Seq(Nat)
  BY DEF FileTypes
<1> QED
  BY <1>1, EndOfType, FileFacts

\* the records of an event are those of the one open journal
LEMMA JournalFiles ==
    ASSUME BindTypes, FileTypes, NEW who, NEW n \in Nat, NEW started \in SUBSET Turns, NEW ended,
           Journal(who, n, started, ended)
    PROVE  Filed(who, n)
<1>1. \A s \in Sessions : file[s].seqs \in Seq(Nat) /\ file[s].open \in SUBSET Turns
  BY DEF FileTypes
<1>2. ASSUME NEW s \in Sessions PROVE Appended(s, who, n) \in Seq(Nat)
  <2>1. binds[Len(binds)].seq \in Nat
    BY BindFacts
  <2>2. Numbers(binds[Len(binds)].seq, n) \in Seq(Nat)
    BY <2>1, NumbersFacts
  <2>3. file[s].seqs \o Numbers(binds[Len(binds)].seq, n) \in Seq(Nat)
    BY <1>1, <2>2
  <2>4. Appended(s, who, n) \in {file[s].seqs \o Numbers(binds[Len(binds)].seq, n), file[s].seqs}
    BY AppendedFacts
  <2> QED
    BY <1>1, <2>3, <2>4
<1> DEFINE mine(s) == {b \in who : binds[b].sid = s /\ binds[b].journal = "open"}
           left(s) == (file[s].open \cup (IF mine(s) = {} THEN {} ELSE started))
                        \ {binds[b].turn : b \in mine(s) \cap ended}
<1>3. file' = [s \in Sessions |-> [seqs |-> Appended(s, who, n), open |-> left(s)]]
  BY DEF Journal
<1>4. \A s \in Sessions : left(s) \in SUBSET Turns
  BY <1>1
<1> HIDE DEF left
<1> QED
  BY <1>2, <1>3, <1>4 DEF Filed, FileTypes

LEMMA SpeakKeeps ==
    ASSUME BindTypes, FileTypes, StageInv, NumbersInv, NEW who \in SUBSET DOMAIN binds, NEW n \in Nat,
           Said(who, n), Filed(who, n), bound' = bound, switch' = switch
    PROVE  BindTypes' /\ FileTypes' /\ StageInv' /\ NumbersInv' /\ Live' = Live /\ Leaving' = Leaving
<1> DEFINE L == Len(binds)
           sid == binds[L].sid
<1>1. /\ L \in Nat \ {0} /\ DOMAIN binds = 1..L /\ DOMAIN binds' = 1..L /\ Len(binds') = L /\ L \in DOMAIN binds
      /\ binds' \in Seq(Entries) /\ bound \in DOMAIN binds
  BY BindFacts DEF Said, BindTypes
<1>2. \A b \in DOMAIN binds :
          /\ binds'[b].sid = binds[b].sid /\ binds'[b].journal = binds[b].journal
          /\ binds'[b].live = binds[b].live
          /\ binds'[b].seq = IF b \in who THEN binds[b].seq + n ELSE binds[b].seq
  BY DEF Said
<1>3. BindTypes'
  <2>1. OnlyLast'
    BY <1>1, <1>2 DEF OnlyLast, BindTypes
  <2>2. Len(binds) <= MaxBinds
    BY DEF BindTypes
  <2> QED
    BY <1>1, <2>1, <2>2 DEF BindTypes
<1>4. FileTypes'
  BY DEF Filed
<1>5. binds'[bound].live = binds[bound].live /\ binds'[bound].journal = binds[bound].journal
  BY <1>1, <1>2
<1>6. binds'[L].journal = binds[L].journal
  BY <1>1, <1>2
<1>7. StageInv'
  BY <1>1, <1>5, <1>6 DEF StageInv
<1>8. Live' = Live
  BY <1>1, <1>2 DEF Live
<1>9. Leaving' = Leaving
  BY <1>5 DEF Leaving
<1>10. \A s \in Sessions : file'[s].seqs = IF L \in who /\ sid = s /\ binds[L].journal = "open"
                                           THEN file[s].seqs \o Numbers(binds[L].seq, n) ELSE file[s].seqs
  BY AppendedFacts DEF Filed
<1>11. /\ \A s \in Sessions : Rises(file[s].seqs) /\ file[s].seqs \in Seq(Nat)
       /\ binds[L].seq \in Nat /\ sid \in Sessions
       /\ binds[L].journal = "open" => EndOf(file[sid].seqs) <= binds[L].seq
  BY <1>1, BindFacts, FileFacts DEF NumbersInv, FileTypes
<1> HIDE DEF L
<1>12. CASE L \in who /\ binds[L].journal = "open"
  <2> DEFINE more == file[sid].seqs \o Numbers(binds[L].seq, n)
  <2>1. Rises(more) /\ EndOf(more) <= binds[L].seq + n
    BY <1>11, <1>12, GoesOn
  <2>2. file'[sid].seqs = more
    BY <1>10, <1>11, <1>12
  <2>3. \A s \in Sessions : s # sid => file'[s].seqs = file[s].seqs
    BY <1>10
  <2> HIDE DEF more, sid
  <2>4. \A s \in Sessions : Rises(file'[s].seqs)
    BY <1>11, <2>1, <2>2, <2>3
  <2>5. binds'[L].seq = binds[L].seq + n /\ binds'[L].sid = sid
    BY <1>1, <1>2, <1>12 DEF sid
  <2>6. \A b \in DOMAIN binds' : binds'[b].journal = "open" => b = L
    BY <1>1, <1>3 DEF BindTypes, OnlyLast
  <2>7. EndOf(file'[sid].seqs) <= binds'[L].seq
    BY <2>1, <2>2, <2>5
  <2>8. \A b \in DOMAIN binds' : binds'[b].journal = "open" => EndOf(file'[binds'[b].sid].seqs) <= binds'[b].seq
    BY <2>5, <2>6, <2>7
  <2>9. NumbersInv'
    BY <2>4, <2>8 DEF NumbersInv, FileSeqsIncrease, Rises, LastNumber, EndOf
  <2> QED
    BY <1>3, <1>4, <1>7, <1>8, <1>9, <2>9
<1>13. CASE ~(L \in who /\ binds[L].journal = "open")
  <2>1. \A s \in Sessions : file'[s].seqs = file[s].seqs
    BY <1>10, <1>13
  <2>2. \A b \in DOMAIN binds' : binds'[b].journal = "open" => b = L
    BY <1>1, <1>3 DEF BindTypes, OnlyLast
  <2>3. binds'[L].journal = "open" => binds'[L].seq = binds[L].seq /\ binds'[L].sid = sid /\ binds[L].journal = "open"
    BY <1>1, <1>2, <1>13
  <2>4. file'[sid].seqs = file[sid].seqs
    BY <1>11, <2>1
  <2> HIDE DEF sid
  <2>5. \A b \in DOMAIN binds' : binds'[b].journal = "open" => EndOf(file'[binds'[b].sid].seqs) <= binds'[b].seq
    BY <1>11, <2>2, <2>3, <2>4
  <2>6. \A s \in Sessions : Rises(file'[s].seqs)
    BY <1>11, <2>1
  <2>7. NumbersInv'
    BY <2>5, <2>6 DEF NumbersInv, FileSeqsIncrease, Rises, LastNumber, EndOf
  <2> QED
    BY <1>3, <1>4, <1>7, <1>8, <1>9, <2>7
<1> QED
  BY <1>12, <1>13

-----------------------------------------------------------------------------
(* What is lost, and what is heard.                                        *)

LEMMA StageFacts ==
    ASSUME BindTypes, OtherTypes, StageInv
    PROVE  /\ bound \in DOMAIN binds /\ bound \in Live
           /\ ~Leaving => bound = Len(binds) /\ binds[bound].journal = "open"
           /\ Leaving => switch # Idle
<1>1. bound \in DOMAIN binds /\ bound \in Live
  BY DEF BindTypes, StageInv, Live
<1>2. ~Leaving => binds[bound].journal = "open" /\ bound = Len(binds)
  BY <1>1 DEF Leaving, BindTypes, OnlyLast
<1>3. Leaving => switch.phase # "none"
  BY DEF Leaving, StageInv
<1>4. Idle.phase = "none"
  BY DEF Idle
<1> QED
  BY <1>1, <1>2, <1>3, <1>4

\* nothing speaks while the session is being left, or that is what rash says
LEMMA QuietWrite ==
    ASSUME BindTypes, OtherTypes, StageInv, QuietInv, NEW who \in SUBSET Live, Write(who),
           ~rash' => ~rash /\ ~Leaving, Leaving' = Leaving
    PROVE  QuietInv'
<1> SUFFICES ASSUME ~rash' PROVE up' /\ ~lost' /\ ~Leaving'
  BY DEF QuietInv
<1>1. ~rash /\ ~Leaving /\ up /\ ~lost
  BY DEF QuietInv
<1>2. bound = Len(binds) /\ binds[bound].journal = "open"
  BY <1>1, StageFacts
<1>3. \A b \in who : binds[b].journal # "ending"
  BY <1>2 DEF BindTypes, OnlyLast, Live
<1> QED
  BY <1>1, <1>3 DEF Write

LEMMA HearFacts ==
    ASSUME BindTypes, OtherTypes, StageInv, HeardInv, NEW n \in Nat, NEW k \in 1..n,
           NEW kind \in {"message", "prompt", "completion"}, k = n \/ kind = "completion",
           Hear(Live, n, k, kind), Said(Live, n), Live' = Live, restarts' = restarts
    PROVE  /\ cursor' \in Nat /\ missed' \subseteq {"message", "prompt", "completion"}
           /\ HeardInv'
<1> DEFINE L == Len(binds)
           seq == [b \in 1..L |-> binds[b].seq]
           Ends == {cursor} \cup {binds[b].seq + n : b \in Live}
           Top(m) == \A b \in Live : m >= cursor /\ m >= binds[b].seq + n
           Seen(b) == {cursor} \cup {binds[c].seq + n : c \in {c \in Live : c < b}}
           shown == {b \in Live : \A m \in Seen(b) : binds[b].seq + k > m}
<1>1. /\ L \in Nat /\ Live \subseteq 1..L /\ Live # {} /\ cursor \in Nat
      /\ \A b \in Live : b \in Nat /\ b \in 1..L /\ binds[b].seq \in Nat /\ seq[b] = binds[b].seq
      /\ \A b \in 1..L : seq[b] \in Nat
      /\ \A b \in Live : binds'[b].seq = binds[b].seq + n
  BY BindFacts, StageFacts DEF Live, OtherTypes, Said
<1>2. cursor' = (CHOOSE m \in Ends : Top(m)) /\ missed' = IF shown = {} THEN missed \cup {kind} ELSE missed
  BY DEF Hear
<1>3. missed' \subseteq {"message", "prompt", "completion"}
  <2>1. missed \subseteq {"message", "prompt", "completion"}
    BY DEF OtherTypes
  <2> HIDE DEF shown
  <2> QED
    BY <1>2, <2>1
<1> HIDE DEF L, seq
<1>4. PICK t \in Live : \A b \in Live : seq[b] <= seq[t] /\ (b < t => seq[b] < seq[t])
  BY <1>1, Loudest
<1>5. /\ t \in 1..L /\ t \in Nat /\ binds[t].seq \in Nat
      /\ \A b \in Live : binds[b].seq <= binds[t].seq /\ (b < t => binds[b].seq < binds[t].seq)
  BY <1>1, <1>4
<1>6. \E m \in Ends : Top(m)
  <2>1. CASE cursor >= binds[t].seq + n
    <3>1. Top(cursor)
      BY <1>1, <1>5, <2>1
    <3> QED
      BY <3>1
  <2>2. CASE cursor < binds[t].seq + n
    <3>1. Top(binds[t].seq + n)
      BY <1>1, <1>5, <2>2
    <3>2. binds[t].seq + n \in Ends
      BY <1>4
    <3> QED
      BY <3>1, <3>2
  <2> QED
    BY <1>1, <1>5, <2>1, <2>2
<1>7. cursor' \in Ends
  <2> HIDE DEF Ends, Top
  <2> QED
    BY <1>2, <1>6
<1>8. cursor' = cursor \/ \E b \in Live : cursor' = binds'[b].seq
  <2>1. cursor' = cursor \/ \E b \in Live : cursor' = binds[b].seq + n
    BY <1>7
  <2> QED
    BY <1>1, <2>1
<1>9. cursor' \in Nat
  <2>1. \A b \in Live : binds[b].seq + n \in Nat
    BY <1>1
  <2> QED
    BY <1>1, <1>7, <2>1
<1>10. ASSUME restarts' = 0 PROVE missed' \subseteq {"completion"} /\ \E b \in Live' : cursor' <= binds'[b].seq
  <2>1. PICK c \in Live : cursor <= binds[c].seq
    BY <1>10 DEF HeardInv
  <2>2. missed \subseteq {"completion"}
    BY <1>10 DEF HeardInv
  <2>3. ASSUME kind = "completion" PROVE missed' \subseteq {"completion"}
    <3> HIDE DEF shown
    <3> QED
      BY <1>2, <2>2, <2>3
  <2>4. ASSUME k = n PROVE missed' \subseteq {"completion"}
    <3>1. ASSUME NEW m \in Seen(t) PROVE binds[t].seq + k > m
      <4>1. CASE m = cursor
        <5>1. binds[c].seq <= binds[t].seq /\ binds[c].seq \in Nat
          BY <1>1, <1>5
        <5> QED
          BY <1>1, <1>5, <2>1, <4>1, <5>1
      <4>2. CASE \E b \in Live : b < t /\ m = binds[b].seq + n
        <5>1. PICK b \in Live : b < t /\ m = binds[b].seq + n
          BY <4>2
        <5>2. binds[b].seq < binds[t].seq /\ binds[b].seq \in Nat
          BY <1>1, <1>5, <5>1
        <5> QED
          BY <1>5, <2>4, <5>1, <5>2
      <4> QED
        BY <3>1, <4>1, <4>2
    <3>2. t \in shown
      BY <1>4, <3>1
    <3> HIDE DEF shown
    <3> QED
      BY <1>2, <2>2, <3>2
  <2>5. missed' \subseteq {"completion"}
    BY <2>3, <2>4
  <2>6. \E b \in Live : cursor' <= binds'[b].seq
    <3>1. CASE cursor' = cursor
      <4>1. cursor <= binds'[c].seq
        BY <1>1, <2>1
      <4> QED
        BY <3>1, <4>1
    <3>2. CASE \E b \in Live : cursor' = binds'[b].seq
      <4>1. PICK b \in Live : cursor' = binds'[b].seq
        BY <3>2
      <4> QED
        BY <1>9, <4>1
    <3> QED
      BY <1>8, <3>1, <3>2
  <2> QED
    BY <2>5, <2>6
<1> QED
  BY <1>3, <1>9, <1>10 DEF HeardInv

LEMMA HearOwnFacts ==
    ASSUME BindTypes, OtherTypes, HeardInv, NEW b \in Live,
           HearOwn(b), Said({b}, 1), Live' = Live, restarts' = restarts
    PROVE  /\ cursor' \in Nat /\ missed' \subseteq {"message", "prompt", "completion"}
           /\ HeardInv'
<1>1. /\ cursor \in Nat /\ missed \subseteq {"message", "prompt", "completion"} /\ missed' = missed
      /\ \A c \in Live : binds[c].seq \in Nat
      /\ \A c \in Live : binds'[c].seq = IF c = b THEN binds[b].seq + 1 ELSE binds[c].seq
  BY BindFacts DEF OtherTypes, HearOwn, Live, Said
<1>2. cursor' = IF binds[b].seq + 1 > cursor THEN binds[b].seq + 1 ELSE cursor
  BY DEF HearOwn
<1>3. cursor' \in Nat
  BY <1>1, <1>2
<1>4. ASSUME restarts' = 0 PROVE \E c \in Live : cursor' <= binds'[c].seq
  <2>1. PICK c \in Live : cursor <= binds[c].seq
    BY <1>4 DEF HeardInv
  <2>2. CASE binds[b].seq + 1 > cursor
    <3>1. cursor' <= binds'[b].seq
      BY <1>1, <1>2, <2>2
    <3> QED
      BY <3>1
  <2>3. CASE ~(binds[b].seq + 1 > cursor)
    <3>1. cursor' <= binds'[c].seq
      BY <1>1, <1>2, <2>1, <2>3
    <3> QED
      BY <3>1
  <2> QED
    BY <2>2, <2>3
<1> QED
  BY <1>1, <1>3, <1>4 DEF HeardInv

-----------------------------------------------------------------------------
(* The steps that say something.                                           *)

SwitchInv ==
    /\ BindTypes /\ FileTypes /\ OtherTypes
    /\ StageInv /\ NumbersInv /\ QuietInv /\ HeardInv

\* what the steps make of a binding
Started(x, t) == [x EXCEPT !.turn = t, !.seq = @ + 1]
Expired(x, r) == [x EXCEPT !.armed = @ \ {r}, !.seq = @ + 1]
Asked(x, r) == [x EXCEPT !.seq = @ + 2, !.armed = @ \cup {r}]
Completed(x) == [x EXCEPT !.seq = @ + 2, !.turn = 0]

LEMMA StartedFacts ==
    ASSUME NEW x \in Entries, NEW t \in 0..MaxTurns
    PROVE  LET e == Started(x, t)
           IN  /\ e \in Entries /\ e.seq = x.seq + 1 /\ e.sid = x.sid
               /\ e.journal = x.journal /\ e.live = x.live
<1> DEFINE y == [x EXCEPT !.turn = t]
           z == [sid |-> x.sid, seq |-> x.seq + 1, journal |-> x.journal, live |-> x.live, turn |-> t, armed |-> x.armed]
<1>1. y = [sid |-> x.sid, seq |-> x.seq, journal |-> x.journal, live |-> x.live, turn |-> t, armed |-> x.armed]
  BY DEF Entries
<1> HIDE DEF y
<1>2. [y EXCEPT !.seq = x.seq + 1] = z
  BY <1>1
<1>3. Started(x, t) = z
  <2>1. Started(x, t) = [y EXCEPT !.seq = x.seq + 1]
    BY DEF Started, y
  <2> QED
    BY <1>2, <2>1
<1>4. z \in Entries /\ z.seq = x.seq + 1 /\ z.sid = x.sid /\ z.journal = x.journal /\ z.live = x.live
  BY SwitchAssumption DEF Entries
<1> HIDE DEF z
<1> QED
  BY <1>3, <1>4

LEMMA ExpiredFacts ==
    ASSUME NEW x \in Entries, NEW r \in Requests
    PROVE  LET e == Expired(x, r)
           IN  /\ e \in Entries /\ e.seq = x.seq + 1 /\ e.sid = x.sid
               /\ e.journal = x.journal /\ e.live = x.live
<1> DEFINE y == [x EXCEPT !.armed = x.armed \ {r}]
           z == [sid |-> x.sid, seq |-> x.seq + 1, journal |-> x.journal, live |-> x.live, turn |-> x.turn, armed |-> x.armed \ {r}]
<1>1. y = [sid |-> x.sid, seq |-> x.seq, journal |-> x.journal, live |-> x.live, turn |-> x.turn, armed |-> x.armed \ {r}]
  BY DEF Entries
<1> HIDE DEF y
<1>2. [y EXCEPT !.seq = x.seq + 1] = z
  BY <1>1
<1>3. Expired(x, r) = z
  <2>1. Expired(x, r) = [y EXCEPT !.seq = x.seq + 1]
    BY DEF Expired, y
  <2> QED
    BY <1>2, <2>1
<1>4. z \in Entries /\ z.seq = x.seq + 1 /\ z.sid = x.sid /\ z.journal = x.journal /\ z.live = x.live
  BY SwitchAssumption DEF Entries
<1> HIDE DEF z
<1> QED
  BY <1>3, <1>4

LEMMA AskedFacts ==
    ASSUME NEW x \in Entries, NEW r \in Requests
    PROVE  LET e == Asked(x, r)
           IN  /\ e \in Entries /\ e.seq = x.seq + 2 /\ e.sid = x.sid
               /\ e.journal = x.journal /\ e.live = x.live
<1> DEFINE y == [x EXCEPT !.seq = x.seq + 2]
           z == [sid |-> x.sid, seq |-> x.seq + 2, journal |-> x.journal, live |-> x.live, turn |-> x.turn, armed |-> x.armed \cup {r}]
<1>1. y = [sid |-> x.sid, seq |-> x.seq + 2, journal |-> x.journal, live |-> x.live, turn |-> x.turn, armed |-> x.armed]
  BY DEF Entries
<1> HIDE DEF y
<1>2. [y EXCEPT !.armed = x.armed \cup {r}] = z
  BY <1>1
<1>3. Asked(x, r) = z
  <2>1. Asked(x, r) = [y EXCEPT !.armed = x.armed \cup {r}]
    BY DEF Asked, y
  <2> QED
    BY <1>2, <2>1
<1>4. z \in Entries /\ z.seq = x.seq + 2 /\ z.sid = x.sid /\ z.journal = x.journal /\ z.live = x.live
  BY SwitchAssumption DEF Entries
<1> HIDE DEF z
<1> QED
  BY <1>3, <1>4

LEMMA CompletedFacts ==
    ASSUME NEW x \in Entries
    PROVE  LET e == Completed(x)
           IN  /\ e \in Entries /\ e.seq = x.seq + 2 /\ e.sid = x.sid
               /\ e.journal = x.journal /\ e.live = x.live
<1> DEFINE y == [x EXCEPT !.seq = x.seq + 2]
           z == [sid |-> x.sid, seq |-> x.seq + 2, journal |-> x.journal, live |-> x.live, turn |-> 0, armed |-> x.armed]
<1>1. y = [sid |-> x.sid, seq |-> x.seq + 2, journal |-> x.journal, live |-> x.live, turn |-> x.turn, armed |-> x.armed]
  BY DEF Entries
<1> HIDE DEF y
<1>2. [y EXCEPT !.turn = 0] = z
  BY <1>1
<1>3. Completed(x) = z
  <2>1. Completed(x) = [y EXCEPT !.turn = 0]
    BY DEF Completed, y
  <2> QED
    BY <1>2, <2>1
<1>4. z \in Entries /\ z.seq = x.seq + 2 /\ z.sid = x.sid /\ z.journal = x.journal /\ z.live = x.live
  BY SwitchAssumption DEF Entries
<1> HIDE DEF z
<1> QED
  BY <1>3, <1>4

LEMMA SaidBy ==
    ASSUME BindTypes, NEW who \in SUBSET DOMAIN binds, NEW n \in Nat, NEW e,
           binds' = [b \in DOMAIN binds |-> IF b \in who THEN e[b] ELSE binds[b]],
           \A b \in who : /\ e[b] \in Entries /\ e[b].sid = binds[b].sid /\ e[b].journal = binds[b].journal
                          /\ e[b].live = binds[b].live /\ e[b].seq = binds[b].seq + n
    PROVE  Said(who, n)
<1>1. Len(binds) \in Nat /\ DOMAIN binds = 1..Len(binds) /\ \A b \in DOMAIN binds : binds[b] \in Entries
  BY BindFacts
<1>2. binds' \in [1..Len(binds) -> Entries]
  BY <1>1
<1>3. binds' \in Seq(Entries) /\ Len(binds') = Len(binds)
  BY <1>1, <1>2
<1> QED
  BY <1>3 DEF Said

LEMMA AnEvent ==
    ASSUME SwitchInv, NEW who \in SUBSET Live, NEW n \in Nat, NEW started \in SUBSET Turns, NEW ended,
           Said(who, n), Journal(who, n, started, ended), Write(who), bound' = bound, switch' = switch,
           rash' \in BOOLEAN, ~rash' => ~rash /\ ~Leaving,
           (Live' = Live => cursor' \in Nat /\ missed' \subseteq {"message", "prompt", "completion"} /\ HeardInv'),
           sessions' = sessions, lastTurn' \in 0..MaxTurns, events' \in 0..MaxEvents, restarts' = restarts,
           inbox' \in Seq(Turns), promise' \in [Requests -> {"unused", "blocked", "approve", "deny"}],
           prompts' \subseteq Requests
    PROVE  SwitchInv'
<1>1. who \in SUBSET DOMAIN binds
  BY DEF Live
<1>2. Filed(who, n)
  BY JournalFiles DEF SwitchInv
<1>3. BindTypes' /\ FileTypes' /\ StageInv' /\ NumbersInv' /\ Live' = Live /\ Leaving' = Leaving
  BY <1>1, <1>2, SpeakKeeps DEF SwitchInv
<1>4. QuietInv'
  BY <1>3, QuietWrite DEF SwitchInv
<1>5. up' \in BOOLEAN /\ lost' \in BOOLEAN
  BY Zenon DEF Write
<1>6. OtherTypes'
  <2>1. switch' \in [phase : {"none", "closing", "ending", "opening", "attached"},
                     to : 0..MaxSessions, resume : BOOLEAN] /\ sessions' \in Sessions
        /\ restarts' \in 0..MaxRestarts
    BY DEF SwitchInv, OtherTypes
  <2>2. cursor' \in Nat /\ missed' \subseteq {"message", "prompt", "completion"}
    BY <1>3
  <2>3. {lost', rash'} \subseteq BOOLEAN
    BY <1>5
  <2> QED
    BY <1>5, <2>1, <2>2, <2>3 DEF OtherTypes
<1> QED
  BY <1>3, <1>4, <1>6 DEF SwitchInv

\* a command reaches Daemon.session, which is speaking while it is left only if rash says so
LEMMA ACommand ==
    ASSUME SwitchInv, NEW e, e \in Entries, NEW started \in SUBSET Turns,
           e.sid = binds[bound].sid, e.journal = binds[bound].journal, e.live = binds[bound].live,
           e.seq = binds[bound].seq + 1, binds' = [binds EXCEPT ![bound] = e],
           Journal({bound}, 1, started, {}), Write({bound}), HearOwn(bound), bound' = bound, switch' = switch,
           rash' = (rash \/ (Leaving /\ switch # Idle)),
           sessions' = sessions, lastTurn' \in 0..MaxTurns, events' \in 0..MaxEvents, restarts' = restarts,
           inbox' \in Seq(Turns), promise' \in [Requests -> {"unused", "blocked", "approve", "deny"}],
           prompts' \subseteq Requests
    PROVE  SwitchInv'
<1>1. bound \in DOMAIN binds /\ bound \in Live /\ (Leaving => switch # Idle)
  BY StageFacts DEF SwitchInv
<1>2. rash' \in BOOLEAN /\ (~rash' => ~rash /\ ~Leaving)
  BY <1>1
<1>3. Said({bound}, 1)
  <2> DEFINE es == [b \in {bound} |-> e]
  <2>1. \A b \in {bound} : es[b] = e /\ b = bound
    OBVIOUS
  <2>2. binds' = [b \in DOMAIN binds |-> IF b \in {bound} THEN es[b] ELSE binds[b]]
    BY <1>1
  <2>3. {bound} \in SUBSET DOMAIN binds /\ 1 \in Nat
    BY <1>1
  <2> HIDE DEF es
  <2>4. \A b \in {bound} : /\ es[b] \in Entries /\ es[b].sid = binds[b].sid /\ es[b].journal = binds[b].journal
                           /\ es[b].live = binds[b].live /\ es[b].seq = binds[b].seq + 1
    BY <2>1
  <2> QED
    BY <2>2, <2>3, <2>4, SaidBy DEF SwitchInv
<1>4. Live' = Live => cursor' \in Nat /\ missed' \subseteq {"message", "prompt", "completion"} /\ HeardInv'
  BY <1>1, <1>3, HearOwnFacts DEF SwitchInv
<1>5. {bound} \in SUBSET Live
  BY <1>1
<1> QED
  BY <1>2, <1>3, <1>4, <1>5, AnEvent

LEMMA StartTurnStep == ASSUME SwitchInv, StartTurn PROVE SwitchInv'
<1> DEFINE e == Started(binds[bound], lastTurn')
<1>1. bound \in DOMAIN binds /\ binds[bound] \in Entries /\ binds[bound].seq \in Nat
  BY StageFacts, BindFacts DEF SwitchInv
<1>2. lastTurn' \in 0..MaxTurns /\ lastTurn' \in Turns /\ inbox' \in Seq(Turns)
  <2>1. lastTurn \in 0..MaxTurns /\ MaxTurns \in Nat /\ lastTurn < MaxTurns /\ inbox \in Seq(Turns)
    BY SwitchAssumption DEF SwitchInv, OtherTypes, StartTurn
  <2>2. lastTurn' \in Turns /\ lastTurn' \in 0..MaxTurns
    BY <2>1 DEF StartTurn, Turns
  <2> QED
    BY <2>1, <2>2 DEF StartTurn
<1>3. /\ e \in Entries /\ e.sid = binds[bound].sid /\ e.journal = binds[bound].journal
      /\ e.live = binds[bound].live /\ e.seq = binds[bound].seq + 1
  BY <1>1, <1>2, StartedFacts
<1>4. binds' = [binds EXCEPT ![bound] = e]
  BY <1>1 DEF StartTurn, Started
<1>5. {lastTurn'} \in SUBSET Turns
  BY <1>2
<1>6. /\ sessions' = sessions /\ events' \in 0..MaxEvents /\ restarts' = restarts
      /\ promise' \in [Requests -> {"unused", "blocked", "approve", "deny"}] /\ prompts' \subseteq Requests
  BY DEF StartTurn, SwitchInv, OtherTypes
<1>7. /\ Journal({bound}, 1, {lastTurn'}, {}) /\ Write({bound}) /\ HearOwn(bound)
      /\ bound' = bound /\ switch' = switch /\ rash' = (rash \/ (Leaving /\ switch # Idle))
  BY DEF StartTurn
<1> HIDE DEF e
<1> QED
  BY <1>2, <1>3, <1>4, <1>5, <1>6, <1>7, ACommand

LEMMA IgnoreMessageStep == ASSUME SwitchInv, IgnoreMessage PROVE SwitchInv'
<1> DEFINE e == [binds[bound] EXCEPT !.seq = @ + 1]
<1>1. bound \in DOMAIN binds /\ binds[bound] \in Entries /\ binds[bound].seq \in Nat
  BY StageFacts, BindFacts DEF SwitchInv
<1>2. /\ e \in Entries /\ e.sid = binds[bound].sid /\ e.journal = binds[bound].journal
      /\ e.live = binds[bound].live /\ e.seq = binds[bound].seq + 1
  BY <1>1 DEF Entries
<1>3. binds' = [binds EXCEPT ![bound] = e]
  BY <1>1 DEF IgnoreMessage
<1>4. events' \in 0..MaxEvents
  BY SwitchAssumption DEF IgnoreMessage, SwitchInv, OtherTypes
<1>5. /\ sessions' = sessions /\ lastTurn' \in 0..MaxTurns /\ restarts' = restarts /\ inbox' \in Seq(Turns)
      /\ promise' \in [Requests -> {"unused", "blocked", "approve", "deny"}] /\ prompts' \subseteq Requests
  BY DEF IgnoreMessage, SwitchInv, OtherTypes, engineVars
<1>6. /\ Journal({bound}, 1, {}, {}) /\ Write({bound}) /\ HearOwn(bound)
      /\ bound' = bound /\ switch' = switch /\ rash' = (rash \/ (Leaving /\ switch # Idle))
  BY DEF IgnoreMessage
<1>7. {} \in SUBSET Turns
  OBVIOUS
<1> HIDE DEF e
<1> QED
  BY <1>2, <1>3, <1>4, <1>5, <1>6, <1>7, ACommand

LEMMA SettleTypes ==
    ASSUME OtherTypes, NEW r \in Requests, NEW d \in {"approve", "deny"}, Settle(r, d)
    PROVE  promise' \in [Requests -> {"unused", "blocked", "approve", "deny"}]
  BY DEF OtherTypes, Settle

LEMMA AnswerStep ==
    ASSUME SwitchInv, NEW r \in Requests, NEW d \in {"approve", "deny"}, Answer(r, d)
    PROVE  SwitchInv'
<1>1. bound \in DOMAIN binds /\ binds[bound] \in Entries /\ binds[bound].seq \in Nat /\ bound \in Live
  BY StageFacts, BindFacts DEF SwitchInv
<1>2. /\ bound' = bound /\ switch' = switch /\ rash' = (rash \/ (Leaving /\ switch # Idle))
      /\ sessions' = sessions /\ lastTurn' = lastTurn /\ events' = events /\ restarts' = restarts /\ inbox' = inbox
      /\ prompts' \subseteq Requests
  BY DEF Answer, counters, SwitchInv, OtherTypes
<1>3. /\ lastTurn' \in 0..MaxTurns /\ events' \in 0..MaxEvents /\ inbox' \in Seq(Turns)
  BY <1>2 DEF SwitchInv, OtherTypes
<1>4. CASE r \notin binds[bound].armed
  <2> DEFINE e == [binds[bound] EXCEPT !.seq = @ + 1]
  <2>1. /\ e \in Entries /\ e.sid = binds[bound].sid /\ e.journal = binds[bound].journal
        /\ e.live = binds[bound].live /\ e.seq = binds[bound].seq + 1
    BY <1>1 DEF Entries
  <2>2. binds' = [binds EXCEPT ![bound] = e]
    BY <1>1, <1>4 DEF Answer
  <2>3. Journal({bound}, 1, {}, {}) /\ Write({bound}) /\ HearOwn(bound) /\ promise' = promise
    BY <1>4 DEF Answer
  <2>4. promise' \in [Requests -> {"unused", "blocked", "approve", "deny"}]
    BY <2>3 DEF SwitchInv, OtherTypes
  <2>5. {} \in SUBSET Turns
    OBVIOUS
  <2> HIDE DEF e
  <2> QED
    BY <1>2, <1>3, <2>1, <2>2, <2>3, <2>4, <2>5, ACommand
<1>5. CASE r \in binds[bound].armed
  <2> DEFINE e == [binds[bound] EXCEPT !.armed = @ \ {r}]
  <2>1. /\ e \in Entries /\ e.sid = binds[bound].sid /\ e.journal = binds[bound].journal
        /\ e.live = binds[bound].live /\ e.seq = binds[bound].seq
    BY <1>1 DEF Entries
  <2>2. binds' = [binds EXCEPT ![bound] = e]
    BY <1>1, <1>5 DEF Answer
  <2>3. up' = up /\ file' = file /\ cursor' = cursor /\ missed' = missed /\ lost' = lost /\ Settle(r, d)
    BY <1>5 DEF Answer
  <2> HIDE DEF e
  <2>4. Said({}, 0)
    <3>1. Len(binds) \in Nat /\ DOMAIN binds = 1..Len(binds) /\ binds \in [1..Len(binds) -> Entries]
          /\ \A b \in DOMAIN binds : binds[b].seq \in Nat
      BY BindFacts DEF SwitchInv
    <3>2. binds' \in [1..Len(binds) -> Entries]
      BY <1>1, <2>1, <2>2, <3>1
    <3>3. binds' \in Seq(Entries) /\ Len(binds') = Len(binds)
      BY <3>1, <3>2
    <3>4. \A b \in DOMAIN binds : binds'[b] = IF b = bound THEN e ELSE binds[b]
      BY <1>1, <2>2
    <3>5. \A b \in DOMAIN binds : b \notin {}
      OBVIOUS
    <3> QED
      BY <2>1, <3>3, <3>4, <3>5 DEF Said
  <2>5. Filed({}, 0)
    <3>1. \A s \in Sessions : Appended(s, {}, 0) = file[s].seqs
      BY AppendedFacts DEF SwitchInv
    <3> QED
      BY <2>3, <3>1 DEF Filed, FileTypes, SwitchInv
  <2>6. BindTypes' /\ FileTypes' /\ StageInv' /\ NumbersInv' /\ Live' = Live /\ Leaving' = Leaving
    <3>1. {} \in SUBSET DOMAIN binds /\ 0 \in Nat
      OBVIOUS
    <3> QED
      BY <1>2, <2>4, <2>5, <3>1, SpeakKeeps DEF SwitchInv
  <2>7. OtherTypes'
    <3>1. promise' \in [Requests -> {"unused", "blocked", "approve", "deny"}]
      BY <2>3, SettleTypes DEF SwitchInv
    <3>2. rash' \in BOOLEAN
      BY <1>2
    <3> QED
      BY <1>2, <1>3, <2>3, <3>1, <3>2 DEF OtherTypes, SwitchInv
  <2>8. QuietInv'
    <3> SUFFICES ASSUME ~rash' PROVE up' /\ ~lost' /\ ~Leaving'
      BY DEF QuietInv
    <3>1. ~rash /\ ~Leaving
      BY <1>2, StageFacts DEF SwitchInv
    <3>2. up /\ ~lost
      BY <3>1 DEF SwitchInv, QuietInv
    <3> QED
      BY <2>3, <2>6, <3>1, <3>2
  <2>9. HeardInv'
    <3>1. \A b \in Live : binds'[b].seq = binds[b].seq
      BY <2>4 DEF Said, Live
    <3> QED
      BY <1>2, <2>3, <2>6, <3>1 DEF SwitchInv, HeardInv
  <2> QED
    BY <2>6, <2>7, <2>8, <2>9 DEF SwitchInv
<1> QED
  BY <1>4, <1>5

LEMMA TimeoutStep ==
    ASSUME SwitchInv, NEW b \in DOMAIN binds, NEW r \in Requests, TimeoutPermission(b, r)
    PROVE  SwitchInv'
<1> DEFINE e == Expired(binds[b], r)
           es == [c \in {b} |-> e]
<1>1. /\ binds[b] \in Entries /\ binds[b].seq \in Nat /\ b \in Live /\ r \in binds[b].armed
  BY BindFacts DEF SwitchInv, TimeoutPermission
<1>2. /\ e \in Entries /\ e.sid = binds[b].sid /\ e.journal = binds[b].journal
      /\ e.live = binds[b].live /\ e.seq = binds[b].seq + 1
  BY <1>1, ExpiredFacts
<1>3. binds' = [binds EXCEPT ![b] = e]
  BY <1>1 DEF TimeoutPermission, Expired
<1> HIDE DEF e
<1>4. Said({b}, 1)
  <2>1. \A c \in {b} : es[c] = e /\ c = b
    OBVIOUS
  <2>2. binds' = [c \in DOMAIN binds |-> IF c \in {b} THEN es[c] ELSE binds[c]]
    BY <1>3
  <2>3. {b} \in SUBSET DOMAIN binds /\ 1 \in Nat
    OBVIOUS
  <2> HIDE DEF es
  <2>4. \A c \in {b} : /\ es[c] \in Entries /\ es[c].sid = binds[c].sid /\ es[c].journal = binds[c].journal
                       /\ es[c].live = binds[c].live /\ es[c].seq = binds[c].seq + 1
    BY <1>2, <2>1
  <2> QED
    BY <2>2, <2>3, <2>4, SaidBy DEF SwitchInv
<1>5. /\ Journal({b}, 1, {}, {}) /\ Write({b}) /\ HearOwn(b) /\ Settle(r, "deny")
      /\ bound' = bound /\ switch' = switch /\ inbox' = inbox /\ prompts' = prompts /\ rash' = rash
      /\ sessions' = sessions /\ lastTurn' = lastTurn /\ events' = events /\ restarts' = restarts
  BY DEF TimeoutPermission, counters
<1>6. promise' \in [Requests -> {"unused", "blocked", "approve", "deny"}]
  BY <1>5, SettleTypes DEF SwitchInv
<1>7. rash' \in BOOLEAN /\ (~rash' => ~rash /\ ~Leaving)
  <2>1. ~rash => ~Leaving
    BY <1>1 DEF SwitchInv, QuietInv
  <2>2. rash \in BOOLEAN
    BY DEF SwitchInv, OtherTypes
  <2> QED
    BY <1>5, <2>1, <2>2
<1>8. Live' = Live => cursor' \in Nat /\ missed' \subseteq {"message", "prompt", "completion"} /\ HeardInv'
  BY <1>1, <1>4, <1>5, HearOwnFacts DEF SwitchInv
<1>9. /\ lastTurn' \in 0..MaxTurns /\ events' \in 0..MaxEvents /\ inbox' \in Seq(Turns) /\ prompts' \subseteq Requests
  BY <1>5 DEF SwitchInv, OtherTypes
<1>10. {b} \in SUBSET Live /\ {} \in SUBSET Turns
  BY <1>1
<1> QED
  BY <1>4, <1>5, <1>6, <1>7, <1>8, <1>9, <1>10, AnEvent

\* an event of the engine: every object that is subscribed says it
LEMMA EngineSpeaks ==
    ASSUME SwitchInv, NEW e, NEW n \in Nat, NEW k \in 1..n, NEW ended,
           NEW kind \in {"message", "prompt", "completion"}, k = n \/ kind = "completion",
           binds' = [b \in DOMAIN binds |-> IF b \in Live THEN e[b] ELSE binds[b]],
           \A b \in Live : /\ e[b] \in Entries /\ e[b].sid = binds[b].sid /\ e[b].journal = binds[b].journal
                           /\ e[b].live = binds[b].live /\ e[b].seq = binds[b].seq + n,
           Journal(Live, n, {}, ended), Write(Live), Hear(Live, n, k, kind),
           inbox # <<>>, rash' = rash, bound' = bound, switch' = switch,
           sessions' = sessions, lastTurn' = lastTurn, events' \in 0..MaxEvents, restarts' = restarts,
           inbox' \in Seq(Turns), promise' \in [Requests -> {"unused", "blocked", "approve", "deny"}],
           prompts' \subseteq Requests
    PROVE  SwitchInv'
<1>1. Live \in SUBSET DOMAIN binds /\ Live \in SUBSET Live /\ {} \in SUBSET Turns
  BY DEF Live
<1>2. Said(Live, n)
  BY <1>1, SaidBy DEF SwitchInv
<1>3. Live' = Live => cursor' \in Nat /\ missed' \subseteq {"message", "prompt", "completion"} /\ HeardInv'
  BY <1>2, HearFacts DEF SwitchInv
<1>4. rash' \in BOOLEAN /\ (~rash' => ~rash /\ ~Leaving)
  <2>1. ~rash => ~Leaving
    BY DEF SwitchInv, QuietInv
  <2>2. rash \in BOOLEAN
    BY DEF SwitchInv, OtherTypes
  <2> QED
    BY <2>1, <2>2
<1>5. lastTurn' \in 0..MaxTurns
  BY DEF SwitchInv, OtherTypes
<1> QED
  BY <1>1, <1>2, <1>3, <1>4, <1>5, AnEvent

LEMMA AssistantMessageStep == ASSUME SwitchInv, AssistantMessage PROVE SwitchInv'
<1> DEFINE e == [b \in DOMAIN binds |-> [binds[b] EXCEPT !.seq = @ + 1]]
<1>1. \A b \in Live : b \in DOMAIN binds /\ binds[b] \in Entries /\ binds[b].seq \in Nat
  BY BindFacts DEF SwitchInv, Live
<1>2. \A b \in Live : /\ e[b] \in Entries /\ e[b].sid = binds[b].sid /\ e[b].journal = binds[b].journal
                      /\ e[b].live = binds[b].live /\ e[b].seq = binds[b].seq + 1
  BY <1>1 DEF Entries
<1>3. binds' = [b \in DOMAIN binds |-> IF b \in Live THEN e[b] ELSE binds[b]]
  BY DEF AssistantMessage
<1>4. events' \in 0..MaxEvents
  BY SwitchAssumption DEF AssistantMessage, SwitchInv, OtherTypes
<1>5. /\ Journal(Live, 1, {}, {}) /\ Write(Live) /\ Hear(Live, 1, 1, "message") /\ inbox # <<>>
      /\ rash' = rash /\ bound' = bound /\ switch' = switch
      /\ sessions' = sessions /\ lastTurn' = lastTurn /\ restarts' = restarts
      /\ inbox' \in Seq(Turns) /\ promise' \in [Requests -> {"unused", "blocked", "approve", "deny"}]
      /\ prompts' \subseteq Requests
  BY DEF AssistantMessage, engineVars, SwitchInv, OtherTypes
<1>6. 1 \in Nat /\ 1 \in 1..1 /\ "message" \in {"message", "prompt", "completion"}
  OBVIOUS
<1> HIDE DEF e
<1> QED
  BY <1>2, <1>3, <1>4, <1>5, <1>6, EngineSpeaks

LEMMA AskPermissionStep == ASSUME SwitchInv, NEW r \in Requests, AskPermission(r) PROVE SwitchInv'
<1> DEFINE e == [b \in DOMAIN binds |-> Asked(binds[b], r)]
<1>1. \A b \in Live : b \in DOMAIN binds /\ binds[b] \in Entries /\ binds[b].seq \in Nat
  BY BindFacts DEF SwitchInv, Live
<1>2. \A b \in Live : /\ e[b] \in Entries /\ e[b].sid = binds[b].sid /\ e[b].journal = binds[b].journal
                      /\ e[b].live = binds[b].live /\ e[b].seq = binds[b].seq + 2
  <2>1. \A b \in Live : e[b] = Asked(binds[b], r)
    BY <1>1
  <2> HIDE DEF e
  <2> QED
    BY <1>1, <2>1, AskedFacts
<1>3. binds' = [b \in DOMAIN binds |-> IF b \in Live THEN e[b] ELSE binds[b]]
  BY DEF AskPermission, Asked
<1>4. promise' \in [Requests -> {"unused", "blocked", "approve", "deny"}]
  BY DEF AskPermission, SwitchInv, OtherTypes
<1>5. /\ Journal(Live, 2, {}, {}) /\ Write(Live) /\ Hear(Live, 2, 2, "prompt") /\ inbox # <<>>
      /\ rash' = rash /\ bound' = bound /\ switch' = switch
      /\ sessions' = sessions /\ lastTurn' = lastTurn /\ events' = events /\ restarts' = restarts /\ inbox' = inbox
      /\ prompts' = prompts \cup {r}
  BY DEF AskPermission, counters
<1>6. events' \in 0..MaxEvents /\ inbox' \in Seq(Turns) /\ prompts' \subseteq Requests
  BY <1>5 DEF SwitchInv, OtherTypes
<1>7. 2 \in Nat /\ 2 \in 1..2 /\ "prompt" \in {"message", "prompt", "completion"}
  OBVIOUS
<1> HIDE DEF e
<1> QED
  BY <1>2, <1>3, <1>4, <1>5, <1>6, <1>7, EngineSpeaks

LEMMA TurnCompleteStep == ASSUME SwitchInv, TurnComplete PROVE SwitchInv'
<1> DEFINE e == [b \in DOMAIN binds |-> Completed(binds[b])]
<1>1. /\ \A b \in Live : b \in DOMAIN binds /\ binds[b] \in Entries /\ binds[b].seq \in Nat
      /\ 0 \in 0..MaxTurns
  BY BindFacts, SwitchAssumption DEF SwitchInv, Live
<1>2. \A b \in Live : /\ e[b] \in Entries /\ e[b].sid = binds[b].sid /\ e[b].journal = binds[b].journal
                      /\ e[b].live = binds[b].live /\ e[b].seq = binds[b].seq + 2
  <2>1. \A b \in Live : e[b] = Completed(binds[b])
    BY <1>1
  <2> HIDE DEF e
  <2> QED
    BY <1>1, <2>1, CompletedFacts
<1>3. binds' = [b \in DOMAIN binds |-> IF b \in Live THEN e[b] ELSE binds[b]]
  BY DEF TurnComplete, Completed
<1>4. /\ Journal(Live, 2, {}, Live) /\ Write(Live) /\ Hear(Live, 2, 1, "completion") /\ inbox # <<>>
      /\ rash' = rash /\ bound' = bound /\ switch' = switch /\ inbox' = Tail(inbox)
      /\ sessions' = sessions /\ lastTurn' = lastTurn /\ events' = events /\ restarts' = restarts
      /\ promise' = promise /\ prompts' = prompts
  BY DEF TurnComplete, counters
<1>5. /\ events' \in 0..MaxEvents /\ inbox' \in Seq(Turns) /\ prompts' \subseteq Requests
      /\ promise' \in [Requests -> {"unused", "blocked", "approve", "deny"}]
  BY <1>4 DEF SwitchInv, OtherTypes
<1>6. 2 \in Nat /\ 1 \in 1..2 /\ "completion" \in {"message", "prompt", "completion"}
  OBVIOUS
<1> HIDE DEF e
<1> QED
  BY <1>2, <1>3, <1>4, <1>5, <1>6, EngineSpeaks

-----------------------------------------------------------------------------
(* The steps of a switch.                                                  *)

\* only the journal of the manager, or whether it is subscribed, changes
Same(l) ==
    /\ binds' \in Seq(Entries) /\ Len(binds') = Len(binds)
    /\ \A b \in DOMAIN binds : b # l => binds'[b] = binds[b]
    /\ binds'[l].sid = binds[l].sid /\ binds'[l].seq = binds[l].seq

LEMMA BeginStep ==
    ASSUME SwitchInv, NEW s \in Sessions, NEW resume \in BOOLEAN, BeginSwitch(s, resume),
           sessions' \in Sessions, lastTurn' = lastTurn, events' = events, restarts' = restarts
    PROVE  SwitchInv'
<1>1. /\ switch = Idle /\ Len(binds) < MaxBinds
      /\ switch' = [phase |-> "closing", to |-> s, resume |-> resume]
      /\ up' = up /\ binds' = binds /\ bound' = bound /\ file' = file /\ lost' = lost /\ rash' = rash
      /\ inbox' = inbox /\ promise' = promise /\ cursor' = cursor /\ prompts' = prompts /\ missed' = missed
  BY DEF BeginSwitch, engineVars, pageVars
<1>2. BindTypes' /\ FileTypes' /\ NumbersInv' /\ QuietInv' /\ HeardInv'
  BY <1>1 DEF SwitchInv, BindTypes, OnlyLast, FileTypes, NumbersInv, FileSeqsIncrease, LastNumber,
              QuietInv, HeardInv, Leaving, Live
<1>3. switch.phase = "none" /\ switch'.phase = "closing" /\ switch'.to = s
  BY <1>1 DEF Idle
<1>4. StageInv'
  BY <1>1, <1>3 DEF SwitchInv, StageInv
<1>5. switch' \in [phase : {"none", "closing", "ending", "opening", "attached"}, to : 0..MaxSessions, resume : BOOLEAN]
  <2>1. s \in 0..MaxSessions
    BY SwitchAssumption DEF Sessions
  <2> QED
    BY <1>1, <2>1
<1>6. OtherTypes'
  BY <1>1, <1>5 DEF SwitchInv, OtherTypes
<1> QED
  BY <1>2, <1>4, <1>6 DEF SwitchInv

LEMMA NewSessionStep == ASSUME SwitchInv, NewSession PROVE SwitchInv'
<1>1. sessions + 1 \in Sessions /\ sessions' \in Sessions
  BY SwitchAssumption DEF NewSession, SwitchInv, OtherTypes, Sessions
<1>2. BeginSwitch(sessions + 1, FALSE) /\ lastTurn' = lastTurn /\ events' = events /\ restarts' = restarts
  BY DEF NewSession
<1> QED
  BY <1>1, <1>2, BeginStep

LEMMA OpenSessionStep == ASSUME SwitchInv, NEW s \in Sessions, OpenSession(s) PROVE SwitchInv'
<1>1. BeginSwitch(s, TRUE) /\ sessions' = sessions /\ lastTurn' = lastTurn /\ events' = events /\ restarts' = restarts
  BY DEF OpenSession, counters
<1>2. sessions' \in Sessions
  BY <1>1 DEF SwitchInv, OtherTypes
<1> QED
  BY <1>1, <1>2, BeginStep

\* nobody speaks as the manager's journal, or the object subscribed to the engine, changes
LEMMA SameKeeps ==
    ASSUME SwitchInv, NEW l, l = Len(binds), Same(l), file' = file, bound' \in DOMAIN binds
    PROVE  /\ DOMAIN binds' = DOMAIN binds /\ BindTypes' /\ FileTypes'
           /\ (binds'[l].journal = "open" => binds[l].journal = "open") => NumbersInv'
<1>1. /\ l \in Nat /\ l \in DOMAIN binds /\ DOMAIN binds = 1..l /\ DOMAIN binds' = 1..l /\ Len(binds') = l
      /\ binds' \in Seq(Entries)
  BY BindFacts DEF SwitchInv, Same
<1>2. OnlyLast'
  <2>1. \A b \in DOMAIN binds : b # l => binds[b].journal = "closed"
    BY DEF SwitchInv, BindTypes, OnlyLast
  <2>2. \A b \in DOMAIN binds' : b # l => binds'[b].journal = "closed"
    BY <1>1, <2>1 DEF Same
  <2> QED
    BY <1>1, <2>2 DEF OnlyLast
<1>3. BindTypes'
  BY <1>1, <1>2 DEF BindTypes, SwitchInv
<1>4. FileTypes'
  BY DEF FileTypes, SwitchInv
<1>5. ASSUME binds'[l].journal = "open" => binds[l].journal = "open" PROVE NumbersInv'
  <2>1. FileSeqsIncrease'
    BY DEF SwitchInv, NumbersInv, FileSeqsIncrease
  <2>2. \A s : LastNumber(s)' = LastNumber(s)
    BY DEF LastNumber
  <2>3. \A b \in DOMAIN binds' : binds'[b].journal = "open" => b = l
    BY <1>1, <1>2 DEF OnlyLast
  <2>4. binds[l].journal = "open" => LastNumber(binds[l].sid) <= binds[l].seq
    BY <1>1 DEF SwitchInv, NumbersInv
  <2>5. \A b \in DOMAIN binds' : binds'[b].journal = "open" => LastNumber(binds[l].sid) <= binds'[b].seq /\ binds'[b].sid = binds[l].sid
    BY <1>5, <2>3, <2>4 DEF Same
  <2> QED
    BY <2>1, <2>5 DEF NumbersInv, LastNumber
<1> QED
  BY <1>1, <1>3, <1>4, <1>5

LEMMA EndJournalStep == ASSUME SwitchInv, EndJournal PROVE SwitchInv'
<1> DEFINE l == Len(binds)
           e == [binds[l] EXCEPT !.journal = "ending"]
<1>1. /\ switch.phase = "closing" /\ switch' = [switch EXCEPT !.phase = "ending"]
      /\ rash' = (rash \/ AtWork)
      /\ up' = up /\ bound' = bound /\ file' = file /\ lost' = lost
      /\ inbox' = inbox /\ promise' = promise /\ cursor' = cursor /\ prompts' = prompts /\ missed' = missed
      /\ sessions' = sessions /\ lastTurn' = lastTurn /\ events' = events /\ restarts' = restarts
  BY DEF EndJournal, engineVars, pageVars, counters
<1>2. /\ l \in Nat \ {0} /\ l \in DOMAIN binds /\ DOMAIN binds = 1..l /\ binds \in [1..l -> Entries] /\ binds[l] \in Entries
  BY BindFacts DEF SwitchInv
<1>3. e \in Entries /\ e.sid = binds[l].sid /\ e.seq = binds[l].seq /\ e.live = binds[l].live
      /\ e.journal = "ending" /\ e.armed = binds[l].armed
  BY <1>2 DEF Entries
<1>4. binds' = [binds EXCEPT ![l] = e]
  BY <1>2 DEF EndJournal
<1>5. bound = l /\ switch.to \in Sessions /\ l < MaxBinds /\ binds[bound].live
  BY <1>1 DEF SwitchInv, StageInv
<1> HIDE DEF e, l
<1>6. \A b \in DOMAIN binds : binds'[b] = IF b = l THEN e ELSE binds[b]
  BY <1>4
<1>7. Same(l)
  <2>1. binds' \in [1..l -> Entries]
    BY <1>2, <1>3, <1>4
  <2>2. binds' \in Seq(Entries) /\ Len(binds') = l
    BY <1>2, <2>1
  <2> QED
    BY <1>2, <1>3, <1>6, <2>2 DEF Same, l
<1>8. DOMAIN binds' = DOMAIN binds /\ BindTypes' /\ FileTypes' /\ NumbersInv'
  <2>1. binds'[l].journal = "ending"
    BY <1>2, <1>3, <1>6
  <2> QED
    BY <1>1, <1>2, <1>5, <1>7, <2>1, SameKeeps DEF l
<1>9. StageInv'
  <2>1. switch'.phase = "ending" /\ switch'.to = switch.to
    BY <1>1 DEF SwitchInv, OtherTypes
  <2>2. Len(binds') = l
    BY <1>7 DEF Same, l
  <2>3. binds'[bound'].live /\ binds'[bound'].journal = "ending"
    BY <1>1, <1>2, <1>3, <1>5, <1>6
  <2> QED
    BY <1>1, <1>5, <2>1, <2>2, <2>3 DEF StageInv
<1>10. Live' = Live /\ \A b \in Live : binds'[b].armed = binds[b].armed /\ binds'[b].seq = binds[b].seq
  BY <1>3, <1>6, <1>8 DEF Live
<1>11. QuietInv'
  BY <1>1, <1>10 DEF SwitchInv, QuietInv, AtWork
<1>12. HeardInv'
  BY <1>1, <1>10 DEF SwitchInv, HeardInv
<1>13. OtherTypes'
  <2>1. rash' \in BOOLEAN
    BY <1>1
  <2> QED
    BY <1>1, <2>1 DEF SwitchInv, OtherTypes
<1> QED
  BY <1>8, <1>9, <1>11, <1>12, <1>13 DEF SwitchInv

LEMMA JournalEndedStep == ASSUME SwitchInv, JournalEnded PROVE SwitchInv'
<1> DEFINE l == Len(binds)
           e == [binds[l] EXCEPT !.journal = "closed"]
<1>1. /\ switch.phase = "ending" /\ switch' = [switch EXCEPT !.phase = "opening"]
      /\ rash' = rash /\ up' = up /\ bound' = bound /\ file' = file /\ lost' = lost
      /\ inbox' = inbox /\ promise' = promise /\ cursor' = cursor /\ prompts' = prompts /\ missed' = missed
      /\ sessions' = sessions /\ lastTurn' = lastTurn /\ events' = events /\ restarts' = restarts
  BY DEF JournalEnded, engineVars, pageVars, counters
<1>2. /\ l \in Nat \ {0} /\ l \in DOMAIN binds /\ DOMAIN binds = 1..l /\ binds \in [1..l -> Entries] /\ binds[l] \in Entries
  BY BindFacts DEF SwitchInv
<1>3. e \in Entries /\ e.sid = binds[l].sid /\ e.seq = binds[l].seq /\ e.live = binds[l].live
      /\ e.journal = "closed" /\ e.armed = binds[l].armed
  BY <1>2 DEF Entries
<1>4. binds' = [binds EXCEPT ![l] = e]
  BY <1>2 DEF JournalEnded
<1>5. bound = l /\ switch.to \in Sessions /\ l < MaxBinds /\ binds[bound].live /\ Leaving
  BY <1>1 DEF SwitchInv, StageInv, Leaving
<1> HIDE DEF e, l
<1>6. \A b \in DOMAIN binds : binds'[b] = IF b = l THEN e ELSE binds[b]
  BY <1>4
<1>7. Same(l)
  <2>1. binds' \in [1..l -> Entries]
    BY <1>2, <1>3, <1>4
  <2>2. binds' \in Seq(Entries) /\ Len(binds') = l
    BY <1>2, <2>1
  <2> QED
    BY <1>2, <1>3, <1>6, <2>2 DEF Same, l
<1>8. DOMAIN binds' = DOMAIN binds /\ BindTypes' /\ FileTypes' /\ NumbersInv'
  <2>1. binds'[l].journal = "closed"
    BY <1>2, <1>3, <1>6
  <2> QED
    BY <1>1, <1>2, <1>5, <1>7, <2>1, SameKeeps DEF l
<1>9. StageInv'
  <2>1. switch'.phase = "opening" /\ switch'.to = switch.to
    BY <1>1 DEF SwitchInv, OtherTypes
  <2>2. Len(binds') = l
    BY <1>7 DEF Same, l
  <2>3. binds'[bound'].live /\ binds'[bound'].journal = "closed"
    BY <1>1, <1>2, <1>3, <1>5, <1>6
  <2> QED
    BY <1>1, <1>5, <2>1, <2>2, <2>3 DEF StageInv
<1>10. Live' = Live /\ \A b \in Live : binds'[b].armed = binds[b].armed /\ binds'[b].seq = binds[b].seq
  BY <1>3, <1>6, <1>8 DEF Live
<1>11. QuietInv'
  BY <1>1, <1>5, <1>10 DEF SwitchInv, QuietInv
<1>12. HeardInv'
  BY <1>1, <1>10 DEF SwitchInv, HeardInv
<1>13. OtherTypes'
  BY <1>1 DEF SwitchInv, OtherTypes
<1> QED
  BY <1>8, <1>9, <1>11, <1>12, <1>13 DEF SwitchInv

LEMMA RebindStep == ASSUME SwitchInv, Rebind PROVE SwitchInv'
<1> DEFINE l == Len(binds)
           e == [binds[l] EXCEPT !.live = TRUE]
<1>1. /\ switch.phase = "attached" /\ switch' = Idle
      /\ rash' = rash /\ up' = up /\ bound' = Len(binds) /\ file' = file /\ lost' = lost
      /\ inbox' = inbox /\ promise' = promise /\ cursor' = cursor /\ prompts' = prompts /\ missed' = missed
      /\ sessions' = sessions /\ lastTurn' = lastTurn /\ events' = events /\ restarts' = restarts
  BY DEF Rebind, engineVars, pageVars, counters
<1>2. /\ l \in Nat \ {0} /\ l \in DOMAIN binds /\ DOMAIN binds = 1..l /\ binds \in [1..l -> Entries] /\ binds[l] \in Entries
      /\ \A b \in DOMAIN binds : binds[b] \in Entries
  BY BindFacts DEF SwitchInv
<1>3. e \in Entries /\ e.sid = binds[l].sid /\ e.seq = binds[l].seq /\ e.live = TRUE
      /\ e.journal = binds[l].journal
  BY <1>2 DEF Entries
<1>4. binds' = [binds EXCEPT ![l] = e]
  BY <1>2 DEF Rebind
<1>5. binds[l].journal = "open" /\ bound' = l
  BY <1>1 DEF SwitchInv, StageInv
<1> HIDE DEF e, l
<1>6. \A b \in DOMAIN binds : binds'[b] = IF b = l THEN e ELSE binds[b]
  BY <1>4
<1>7. Same(l)
  <2>1. binds' \in [1..l -> Entries]
    BY <1>2, <1>3, <1>4
  <2>2. binds' \in Seq(Entries) /\ Len(binds') = l
    BY <1>2, <2>1
  <2> QED
    BY <1>2, <1>3, <1>6, <2>2 DEF Same, l
<1>8. DOMAIN binds' = DOMAIN binds /\ BindTypes' /\ FileTypes' /\ NumbersInv'
  BY <1>1, <1>2, <1>5, <1>7, SameKeeps DEF l
<1>9. switch'.phase = "none" /\ switch' = Idle /\ Len(binds') = l /\ binds'[bound'].live /\ binds'[bound'].journal = "open"
  BY <1>1, <1>2, <1>3, <1>5, <1>6, <1>7 DEF Idle, Same, l
<1>10. StageInv'
  BY <1>5, <1>9 DEF StageInv
<1>11. \A b \in Live : b \in Live' /\ binds'[b].seq = binds[b].seq
  BY <1>3, <1>6, <1>8 DEF Live
<1>12. QuietInv'
  BY <1>1, <1>9 DEF SwitchInv, QuietInv, Leaving
<1>13. HeardInv'
  BY <1>1, <1>11 DEF SwitchInv, HeardInv
<1>14. Idle \in [phase : {"none", "closing", "ending", "opening", "attached"}, to : 0..MaxSessions, resume : BOOLEAN]
  BY SwitchAssumption DEF Idle
<1>15. OtherTypes'
  BY <1>1, <1>14 DEF SwitchInv, OtherTypes
<1> QED
  BY <1>8, <1>10, <1>12, <1>13, <1>15 DEF SwitchInv

\* the journal of session s is opened, and n records go on from its last
LEMMA Opened ==
    ASSUME FileTypes, FileSeqsIncrease, NEW s \in Sessions, NEW n \in Nat, NEW open \in SUBSET Turns,
           file' = [file EXCEPT ![s] = [seqs |-> file[s].seqs \o Numbers(LastNumber(s), n), open |-> open]]
    PROVE  /\ FileTypes' /\ FileSeqsIncrease' /\ EndOf(file'[s].seqs) <= LastNumber(s) + n
<1> DEFINE more == file[s].seqs \o Numbers(LastNumber(s), n)
           r == [seqs |-> more, open |-> open]
<1>1. \A q \in Sessions : file[q].seqs \in Seq(Nat) /\ Rises(file[q].seqs)
  BY FileFacts DEF FileTypes
<1>2. LastNumber(s) \in Nat /\ EndOf(file[s].seqs) <= LastNumber(s)
  <2>1. LastNumber(s) = EndOf(file[s].seqs)
    BY FileFacts
  <2> QED
    BY <2>1, LastNumberType
<1>3. more \in Seq(Nat) /\ Rises(more) /\ EndOf(more) <= LastNumber(s) + n
  BY <1>1, <1>2, GoesOn
<1>4. file' = [file EXCEPT ![s] = r] /\ r.seqs = more /\ r.open = open
  OBVIOUS
<1> HIDE DEF more
<1>5. r \in [seqs : Seq(Nat), open : SUBSET Turns]
  BY <1>3
<1> HIDE DEF r
<1>6. FileTypes'
  BY <1>4, <1>5 DEF FileTypes
<1>7. file'[s].seqs = more /\ \A q \in Sessions : q # s => file'[q].seqs = file[q].seqs
  BY <1>4 DEF FileTypes
<1>8. \A q \in Sessions : Rises(file'[q].seqs)
  BY <1>1, <1>3, <1>7
<1>9. EndOf(file'[s].seqs) <= LastNumber(s) + n
  BY <1>3, <1>7
<1>10. FileSeqsIncrease'
  BY <1>8 DEF FileSeqsIncrease, Rises
<1> QED
  BY <1>6, <1>9, <1>10

LEMMA AttachStep == ASSUME SwitchInv, Attach PROVE SwitchInv'
<1> DEFINE l == Len(binds)
           s == switch.to
           n == IF switch.resume THEN 1 ELSE 0
           e == Bind(s, LastNumber(s) + n, "open", FALSE)
<1>1. /\ switch.phase = "opening" /\ switch' = [switch EXCEPT !.phase = "attached"]
      /\ rash' = rash /\ up' = up /\ bound' = bound /\ lost' = lost
      /\ inbox' = inbox /\ promise' = promise /\ cursor' = cursor /\ prompts' = prompts /\ missed' = missed
      /\ sessions' = sessions /\ lastTurn' = lastTurn /\ events' = events /\ restarts' = restarts
  BY DEF Attach, engineVars, pageVars, counters
<1>2. /\ l \in Nat \ {0} /\ l \in DOMAIN binds /\ DOMAIN binds = 1..l /\ binds \in Seq(Entries)
      /\ \A b \in DOMAIN binds : binds[b].journal \in {"open", "ending", "closed"}
  BY BindFacts DEF SwitchInv, BindTypes
<1>3. bound = l /\ s \in Sessions /\ l < MaxBinds /\ binds[bound].live /\ binds[l].journal = "closed"
  BY <1>1 DEF SwitchInv, StageInv
<1>4. n \in Nat /\ LastNumber(s) \in Nat
  BY <1>3, LastNumberType DEF SwitchInv
<1>5. binds' = Append(binds, e)
  BY DEF Attach
<1>6. e \in Entries /\ e.sid = s /\ e.seq = LastNumber(s) + n /\ e.live = FALSE /\ e.journal = "open"
  <2>1. LastNumber(s) + n \in Nat /\ 0 \in 0..MaxTurns
    BY <1>4, SwitchAssumption
  <2> HIDE DEF n, s
  <2> QED
    BY <1>3, <2>1 DEF Entries, Bind
<1>7. FileTypes' /\ FileSeqsIncrease' /\ EndOf(file'[s].seqs) <= LastNumber(s) + n
  <2> DEFINE open == file[s].open
  <2>1. open \in SUBSET Turns
    BY <1>3 DEF SwitchInv, FileTypes
  <2>2. file' = [file EXCEPT ![s] = [seqs |-> file[s].seqs \o Numbers(LastNumber(s), n), open |-> open]]
    <3>1. file' = [file EXCEPT ![s].seqs = @ \o Numbers(LastNumber(s), n)]
      BY DEF Attach
    <3>2. file[s] \in [seqs : Seq(Nat), open : SUBSET Turns]
      BY <1>3 DEF SwitchInv, FileTypes
    <3> DEFINE x == file[s].seqs \o Numbers(LastNumber(s), n)
    <3>3. file' = [file EXCEPT ![s] = [file[s] EXCEPT !.seqs = x]]
      BY <3>1
    <3> HIDE DEF n, s, x
    <3>4. [file[s] EXCEPT !.seqs = x] = [seqs |-> x, open |-> open]
      BY <3>2
    <3> QED
      BY <3>3, <3>4 DEF x
  <2> HIDE DEF n, s, open
  <2> QED
    BY <1>3, <1>4, <2>1, <2>2, Opened DEF SwitchInv, NumbersInv
<1> HIDE DEF e
<1>9. /\ Len(binds') = l + 1 /\ binds' \in Seq(Entries) /\ DOMAIN binds' = 1..(l + 1)
      /\ \A b \in DOMAIN binds : binds'[b] = binds[b]
      /\ binds'[l + 1] = e
  BY <1>2, <1>5, <1>6
<1> HIDE DEF l
<1>10. OnlyLast'
  <2>1. \A b \in DOMAIN binds : binds[b].journal = "closed"
    BY <1>2, <1>3 DEF SwitchInv, BindTypes, OnlyLast, l
  <2>2. \A b \in DOMAIN binds' : b \in DOMAIN binds \/ b = l + 1
    BY <1>2, <1>9
  <2>3. \A b \in DOMAIN binds' : b # l + 1 => binds'[b].journal = "closed"
    BY <1>9, <2>1, <2>2
  <2> QED
    BY <1>9, <2>3 DEF OnlyLast
<1>11. BindTypes'
  BY <1>1, <1>2, <1>3, <1>9, <1>10, SwitchAssumption DEF BindTypes
<1>12. StageInv'
  <2>1. switch'.phase = "attached"
    BY <1>1 DEF SwitchInv, OtherTypes
  <2>2. binds'[bound'] = binds[bound] /\ binds'[Len(binds')] = e /\ Len(binds') = bound' + 1
    BY <1>1, <1>2, <1>3, <1>9
  <2> QED
    BY <1>3, <1>6, <2>1, <2>2 DEF StageInv
<1>13. NumbersInv'
  <2>1. \A b \in DOMAIN binds' : binds'[b].journal = "open" => binds'[b] = e
    BY <1>9, <1>10 DEF OnlyLast
  <2>2. \A b \in DOMAIN binds' : binds'[b].journal = "open" => EndOf(file'[binds'[b].sid].seqs) <= binds'[b].seq
    BY <1>6, <1>7, <2>1
  <2> QED
    BY <1>7, <2>2 DEF NumbersInv, LastNumber, EndOf
<1>14. Live' = Live /\ \A b \in Live : binds'[b] = binds[b]
  <2>1. \A b \in DOMAIN binds : b \in DOMAIN binds'
    BY <1>2, <1>9
  <2>2. \A b \in DOMAIN binds' : b \in DOMAIN binds \/ b = l + 1
    BY <1>2, <1>9
  <2> QED
    BY <1>6, <1>9, <2>1, <2>2 DEF Live
<1>15. QuietInv'
  <2>1. Leaving
    BY <1>3 DEF Leaving
  <2> QED
    BY <1>1, <1>14, <2>1 DEF SwitchInv, QuietInv
<1>16. HeardInv'
  BY <1>1, <1>14 DEF SwitchInv, HeardInv
<1>17. OtherTypes'
  <2>1. switch' \in [phase : {"none", "closing", "ending", "opening", "attached"}, to : 0..MaxSessions, resume : BOOLEAN]
    BY <1>1, SMTT(30) DEF SwitchInv, OtherTypes
  <2> QED
    BY <1>1, <2>1 DEF SwitchInv, OtherTypes
<1> QED
  BY <1>7, <1>11, <1>12, <1>13, <1>15, <1>16, <1>17 DEF SwitchInv

LEMMA RestartStep == ASSUME SwitchInv, Restart PROVE SwitchInv'
<1> DEFINE s == binds[Len(binds)].sid
           n == 2 * Cardinality(file[s].open) + 1
           e == Bind(s, LastNumber(s) + n, "open", TRUE)
<1>1. /\ ~up /\ restarts < MaxRestarts /\ restarts' = restarts + 1 /\ up' = TRUE
      /\ binds' = <<e>> /\ bound' = 1 /\ switch' = Idle /\ inbox' = <<>>
      /\ promise' = [r \in Requests |-> IF promise[r] = "blocked" THEN "deny" ELSE promise[r]]
      /\ cursor' = IF LastNumber(s) + n > cursor THEN LastNumber(s) + n ELSE cursor
      /\ prompts' = prompts /\ missed' = missed /\ lost' = lost /\ rash' = rash
      /\ sessions' = sessions /\ lastTurn' = lastTurn /\ events' = events
  BY DEF Restart
<1>2. s \in Sessions /\ file[s] \in [seqs : Seq(Nat), open : SUBSET Turns]
  BY BindFacts DEF SwitchInv, FileTypes
<1>3. n \in Nat
  <2>1. IsFiniteSet(Turns)
    BY SwitchAssumption, FS_Interval DEF Turns
  <2>2. IsFiniteSet(file[s].open)
    BY <1>2, <2>1, FS_Subset
  <2>3. Cardinality(file[s].open) \in Nat
    BY <2>2, FS_CardinalityType
  <2> QED
    BY <2>3
<1>4. LastNumber(s) \in Nat
  BY <1>2, LastNumberType DEF SwitchInv
<1>5. file' = [file EXCEPT ![s] = [seqs |-> file[s].seqs \o Numbers(LastNumber(s), n), open |-> {}]]
  <2>1. file' = [file EXCEPT ![s].seqs = @ \o Numbers(LastNumber(s), n), ![s].open = {}]
    BY DEF Restart
  <2>2. s \in DOMAIN file
    BY <1>2 DEF SwitchInv, FileTypes
  <2> DEFINE x == file[s].seqs \o Numbers(LastNumber(s), n)
  <2>3. file' = [file EXCEPT ![s] = [file[s] EXCEPT !.seqs = x, !.open = {}]]
    BY <2>1, <2>2
  <2> HIDE DEF n, s, x
  <2> DEFINE y == [file[s] EXCEPT !.seqs = x]
  <2>4. y = [seqs |-> x, open |-> file[s].open]
    BY <1>2
  <2>5. file' = [file EXCEPT ![s] = [y EXCEPT !.open = {}]]
    BY <2>3
  <2> HIDE DEF y
  <2>6. [y EXCEPT !.open = {}] = [seqs |-> x, open |-> {}]
    BY <2>4
  <2> QED
    BY <2>5, <2>6 DEF x
<1> HIDE DEF n, s
<1>6. FileTypes' /\ FileSeqsIncrease' /\ EndOf(file'[s].seqs) <= LastNumber(s) + n
  <2>1. {} \in SUBSET Turns
    OBVIOUS
  <2> QED
    BY <1>2, <1>3, <1>5, <2>1, Opened DEF SwitchInv, NumbersInv
<1>7. e \in Entries /\ e.sid = s /\ e.seq = LastNumber(s) + n /\ e.live = TRUE /\ e.journal = "open"
  <2>1. LastNumber(s) + n \in Nat /\ 0 \in 0..MaxTurns
    BY <1>3, <1>4, SwitchAssumption
  <2> QED
    BY <1>2, <2>1 DEF Entries, Bind
<1>8. LastNumber(s) + n \in Nat
  BY <1>3, <1>4
<1> HIDE DEF e
<1>9. binds' \in Seq(Entries) /\ Len(binds') = 1 /\ DOMAIN binds' = {1} /\ binds'[1] = e
  BY <1>1, <1>7
<1>10. BindTypes'
  <2>1. OnlyLast'
    BY <1>9 DEF OnlyLast
  <2> QED
    BY <1>1, <1>9, <2>1, SwitchAssumption DEF BindTypes
<1>11. StageInv'
  BY <1>1, <1>7, <1>9 DEF StageInv, Idle
<1>12. NumbersInv'
  <2>1. \A b \in DOMAIN binds' : EndOf(file'[binds'[b].sid].seqs) <= binds'[b].seq
    BY <1>6, <1>7, <1>9
  <2> QED
    BY <1>6, <2>1 DEF NumbersInv, LastNumber, EndOf
<1>13. QuietInv'
  BY <1>1 DEF SwitchInv, QuietInv
<1>14. restarts' \in 0..MaxRestarts /\ restarts' # 0
  BY <1>1, SwitchAssumption DEF SwitchInv, OtherTypes
<1>15. HeardInv'
  BY <1>14 DEF HeardInv
<1>16. OtherTypes'
  <2>1. Idle \in [phase : {"none", "closing", "ending", "opening", "attached"}, to : 0..MaxSessions, resume : BOOLEAN]
    BY SwitchAssumption DEF Idle
  <2>2. promise' \in [Requests -> {"unused", "blocked", "approve", "deny"}]
    BY <1>1 DEF SwitchInv, OtherTypes
  <2>3. cursor' \in Nat
    BY <1>1, <1>8 DEF SwitchInv, OtherTypes
  <2>4. inbox' \in Seq(Turns)
    BY <1>1
  <2> QED
    <3>1. /\ sessions \in Sessions /\ lastTurn \in 0..MaxTurns /\ events \in 0..MaxEvents /\ prompts \subseteq Requests
          /\ missed \subseteq {"message", "prompt", "completion"} /\ {lost, rash} \subseteq BOOLEAN
      BY DEF SwitchInv, OtherTypes
    <3> QED
      BY <1>1, <1>14, <2>1, <2>2, <2>3, <2>4, <3>1, SMTT(30) DEF OtherTypes
<1> QED
  BY <1>6, <1>10, <1>11, <1>12, <1>13, <1>15, <1>16 DEF SwitchInv

-----------------------------------------------------------------------------
(* The theorems.                                                           *)

LEMMA SwitchInit == Init => SwitchInv
<1> SUFFICES ASSUME Init PROVE SwitchInv
  OBVIOUS
<1> DEFINE e == Bind(1, 1, "open", TRUE)
<1>1. 1 \in Sessions /\ 0 \in 0..MaxTurns /\ 0 \in 0..MaxSessions /\ 0 \in 0..MaxEvents /\ 0 \in 0..MaxRestarts
  BY SwitchAssumption DEF Sessions
<1>2. e \in Entries /\ e.sid = 1 /\ e.seq = 1 /\ e.journal = "open" /\ e.live = TRUE /\ e.armed = {}
  BY <1>1 DEF Entries, Bind
<1>3. binds = <<e>>
  BY DEF Init
<1> HIDE DEF e
<1>4. binds \in Seq(Entries) /\ Len(binds) = 1 /\ DOMAIN binds = {1} /\ binds[1] = e /\ bound = 1
  <2>1. bound = 1
    BY DEF Init
  <2>2. binds \in Seq(Entries) /\ Len(binds) = 1 /\ DOMAIN binds = {1} /\ binds[1] = e
    BY <1>2, <1>3
  <2> QED
    BY <2>1, <2>2
<1>5. BindTypes
  BY <1>4, SwitchAssumption DEF BindTypes, OnlyLast
<1>6. file = [s \in Sessions |-> [seqs |-> IF s = 1 THEN <<1>> ELSE <<>>, open |-> {}]]
  BY DEF Init
<1>7. FileTypes
  BY <1>6 DEF FileTypes
<1>8. switch = Idle /\ Idle.phase = "none"
  BY DEF Init, Idle
<1>9. OtherTypes
  <2>1. Idle \in [phase : {"none", "closing", "ending", "opening", "attached"}, to : 0..MaxSessions, resume : BOOLEAN]
    BY <1>1 DEF Idle
  <2>2. /\ up = TRUE /\ switch = Idle /\ sessions = 1 /\ lastTurn = 0 /\ events = 0 /\ restarts = 0
        /\ inbox = <<>> /\ promise = [r \in Requests |-> "unused"]
        /\ cursor = 1 /\ prompts = {} /\ missed = {} /\ lost = FALSE /\ rash = FALSE
    BY DEF Init
  <2>3. inbox \in Seq(Turns) /\ promise \in [Requests -> {"unused", "blocked", "approve", "deny"}]
    BY <2>2
  <2> QED
    BY <1>1, <2>1, <2>2, <2>3 DEF OtherTypes
<1>10. StageInv
  BY <1>2, <1>4, <1>8 DEF StageInv
<1>11. NumbersInv
  <2>1. \A s \in Sessions : Rises(file[s].seqs)
    <3> SUFFICES ASSUME NEW s \in Sessions PROVE Rises(file[s].seqs)
      OBVIOUS
    <3>1. file[s].seqs = <<1>> \/ file[s].seqs = <<>>
      BY <1>6
    <3>2. Len(<<1>>) = 1 /\ Len(<<>>) = 0
      OBVIOUS
    <3>3. Len(file[s].seqs) = 1 \/ Len(file[s].seqs) = 0
      BY <3>1, <3>2, Zenon
    <3> QED
      BY <3>3 DEF Rises
  <2>2. LastNumber(1) = 1
    BY <1>1, <1>6 DEF LastNumber
  <2> QED
    BY <1>2, <1>4, <2>1, <2>2, FileFacts DEF NumbersInv
<1>12. QuietInv
  BY <1>2, <1>4 DEF Init, QuietInv, Leaving
<1>13. HeardInv
  <2>1. 1 \in Live
    BY <1>2, <1>4 DEF Live
  <2>2. cursor = 1 /\ missed = {}
    BY DEF Init
  <2>3. cursor <= binds[1].seq
    BY <1>2, <1>4, <2>2
  <2> QED
    BY <2>1, <2>2, <2>3 DEF HeardInv
<1> QED
  BY <1>5, <1>7, <1>9, <1>10, <1>11, <1>12, <1>13 DEF SwitchInv

LEMMA SwitchStep == SwitchInv /\ [Next]_vars => SwitchInv'
<1> SUFFICES ASSUME SwitchInv, [Next]_vars PROVE SwitchInv'
  OBVIOUS
<1>1. CASE StartTurn
  BY <1>1, StartTurnStep
<1>2. CASE IgnoreMessage
  BY <1>2, IgnoreMessageStep
<1>3. CASE \E r \in Requests : \E decision \in {"approve", "deny"} : Answer(r, decision)
  BY <1>3, AnswerStep
<1>4. CASE \E b \in DOMAIN binds, r \in Requests : TimeoutPermission(b, r)
  BY <1>4, TimeoutStep
<1>5. CASE AssistantMessage
  BY <1>5, AssistantMessageStep
<1>6. CASE \E r \in Requests : AskPermission(r)
  BY <1>6, AskPermissionStep
<1>7. CASE TurnComplete
  BY <1>7, TurnCompleteStep
<1>8. CASE Switching
  <2>1. CASE NewSession
    BY <2>1, NewSessionStep
  <2>2. CASE \E s \in Sessions : OpenSession(s)
    BY <2>2, OpenSessionStep
  <2>3. CASE EndJournal
    BY <2>3, EndJournalStep
  <2>4. CASE JournalEnded
    BY <2>4, JournalEndedStep
  <2>5. CASE Attach
    BY <2>5, AttachStep
  <2>6. CASE Rebind
    BY <2>6, RebindStep
  <2> QED
    BY <1>8, <2>1, <2>2, <2>3, <2>4, <2>5, <2>6 DEF Switching
<1>9. CASE Restart
  BY <1>9, RestartStep
<1>10. CASE UNCHANGED vars
  <2>1. /\ up' = up /\ binds' = binds /\ bound' = bound /\ switch' = switch /\ file' = file
        /\ inbox' = inbox /\ promise' = promise /\ cursor' = cursor /\ prompts' = prompts /\ missed' = missed
        /\ lost' = lost /\ rash' = rash
        /\ sessions' = sessions /\ lastTurn' = lastTurn /\ events' = events /\ restarts' = restarts
    BY <1>10 DEF vars, engineVars, pageVars, counters
  <2> QED
    BY <2>1 DEF SwitchInv, BindTypes, OnlyLast, FileTypes, OtherTypes, StageInv, NumbersInv, FileSeqsIncrease,
                LastNumber, QuietInv, HeardInv, Leaving, Live
<1> QED
  BY <1>1, <1>2, <1>3, <1>4, <1>5, <1>6, <1>7, <1>8, <1>9, <1>10 DEF Next

THEOREM SwitchInvariant == Spec => []SwitchInv
  BY SwitchInit, SwitchStep, PTL DEF Spec

\* The journals are in order, each number once, whichever objects write to them: a session that is
\* left and opened again in the middle of a turn has two, and only the younger has a stream.
THEOREM JournalsInOrder == Spec => []JournalInvariant
<1>1. SwitchInv => JournalInvariant
  BY TypeParts DEF SwitchInv, NumbersInv, JournalInvariant
<1> QED
  BY <1>1, SwitchInvariant, PTL

\* What the session says while it is quiet, and is left quiet, gets into its journal, and the daemon
\* survives it, however many switches there are.
THEOREM QuietSwitchIsSafe == Spec => []QuietSwitchLosesNothing
<1>1. SwitchInv => QuietSwitchLosesNothing
  BY DEF SwitchInv, QuietInv, QuietSwitchLosesNothing
<1> QED
  BY <1>1, SwitchInvariant, PTL

\* The page shows every message and prompt of the engine, although its cursor is that of another
\* session: one of the objects that say it always has a number above all that were said.
THEOREM EngineSpeaksUp == Spec => []EngineIsHeard
<1>1. SwitchInv => EngineIsHeard
  BY DEF SwitchInv, HeardInv, EngineIsHeard
<1> QED
  BY <1>1, SwitchInvariant, PTL

=============================================================================
