------------------------- MODULE EventDeliveryProofs -------------------------
(****************************************************************************)
(* Theorems about EventDelivery, for any number of browsers, events, broken *)
(* connections and restarts, and for windows of any size.                   *)
(*                                                                          *)
(* The argument.  The journal numbers its events from 1 and gives them ids  *)
(* that grow; the replay window always ends with the newest of them, also   *)
(* after a restart, when the journal is loaded twice (JournalInv).  So what *)
(* a browser is sent - a broadcast, or the answer to a resume - is either   *)
(* an event of the journal as it was, output recovered for a tool, which    *)
(* comes behind an event of the same number unless the page was reloaded    *)
(* since, or the snapshot.  OrderInv looks at what a page would still apply *)
(* of the frames on their way to it: that continues its transcript, and so  *)
(* does what the journal holds beyond the page's number.  A crash takes     *)
(* numbers back, and the events that get them again are hidden from a page  *)
(* that has seen those numbers, which is why the invariant is about the     *)
(* frames a page will apply and not about all of them.  StatusInv: a page   *)
(* of a connected daemon has greeted it and awaits the snapshot, or the     *)
(* last status on its way, else the one shown, is the current one.          *)
(* HolesInv: an event the window still has, and a page neither raced past   *)
(* nor applied, is ahead of the page's number; it is on its way, or the     *)
(* page awaits an answer that will carry it, and nothing of a higher number *)
(* comes before it.  For that, resumes of this connection ask for no more   *)
(* than the page lacks, and those of an earlier one are answered while the  *)
(* page still waits (CommandsInv).                                          *)
(****************************************************************************)
EXTENDS EventDelivery, FiniteSetTheorems, WellFoundedInduction, TLAPS

-----------------------------------------------------------------------------
(* Induction on the numbers below a bound, by the least one that fails.    *)

Below == {pair \in Nat \X Nat : pair[1] < pair[2]}

LEMMA BelowIsWellFounded == IsWellFoundedOn(Below, Nat)
  BY NatLessThanWellFounded, Zenon DEF OpToRel, Below

LEMMA UpTo ==
    ASSUME NEW N \in Nat, NEW T, 0 \in T, \A n \in 0..(N - 1) : n \in T => n + 1 \in T
    PROVE  \A n \in 0..N : n \in T
<1> SUFFICES ASSUME NEW n \in 0..N, n \notin T PROVE FALSE
  OBVIOUS
<1> DEFINE F == {k \in 0..N : k \notin T}
<1>1. F \in SUBSET Nat /\ F # {}
  OBVIOUS
<1>2. PICK least \in F : \A k \in F : ~(<<k, least>> \in Below)
  BY <1>1, BelowIsWellFounded, WFMin
<1>3. least \in 1..N
  BY <1>2
<1>4. least - 1 \notin F
  <2>1. <<least - 1, least>> \in Below
    BY <1>3 DEF Below
  <2> QED
    BY <1>2, <2>1
<1>5. least - 1 \in T /\ least - 1 \in 0..(N - 1)
  BY <1>3, <1>4
<1>6. (least - 1) + 1 \in T /\ (least - 1) + 1 = least
  BY <1>3, <1>5
<1> QED
  BY <1>2, <1>6

-----------------------------------------------------------------------------
(* Sequences.                                                              *)

LEMMA AppendFacts ==
    ASSUME NEW S, NEW s \in Seq(S), NEW e \in S
    PROVE  /\ Append(s, e) \in Seq(S) /\ Append(s, e) # <<>>
           /\ Len(s) \in Nat /\ Len(Append(s, e)) = Len(s) + 1
           /\ DOMAIN s = 1..Len(s) /\ DOMAIN Append(s, e) = 1..(Len(s) + 1)
           /\ \A i \in 1..Len(s) : Append(s, e)[i] = s[i] /\ s[i] \in S
           /\ Append(s, e)[Len(s) + 1] = e
  OBVIOUS

LEMMA TailFacts ==
    ASSUME NEW S, NEW s \in Seq(S), s # <<>>
    PROVE  /\ Tail(s) \in Seq(S) /\ Len(s) \in Nat \ {0} /\ Len(Tail(s)) = Len(s) - 1
           /\ DOMAIN s = 1..Len(s) /\ DOMAIN Tail(s) = 1..(Len(s) - 1)
           /\ \A i \in 1..(Len(s) - 1) : Tail(s)[i] = s[i + 1] /\ i + 1 \in 1..Len(s)
           /\ Head(s) = s[1] /\ Head(s) \in S /\ 1 \in 1..Len(s)
  OBVIOUS

LEMMA ConcatFacts ==
    ASSUME NEW S, NEW s \in Seq(S), NEW t \in Seq(S)
    PROVE  /\ s \o t \in Seq(S)
           /\ Len(s) \in Nat /\ Len(t) \in Nat /\ Len(s \o t) = Len(s) + Len(t)
           /\ DOMAIN s = 1..Len(s) /\ DOMAIN t = 1..Len(t) /\ DOMAIN (s \o t) = 1..(Len(s) + Len(t))
           /\ \A i \in 1..Len(s) : (s \o t)[i] = s[i] /\ s[i] \in S
           /\ \A i \in 1..Len(t) : (s \o t)[Len(s) + i] = t[i] /\ t[i] \in S
  OBVIOUS

LEMMA SameSeq ==
    ASSUME NEW S, NEW p \in Seq(S), NEW q \in Seq(S), Len(p) = Len(q), \A i \in 1..Len(p) : p[i] = q[i]
    PROVE  p = q
  OBVIOUS

LEMMA AppendedOne ==
    ASSUME NEW S, NEW s \in Seq(S), NEW t \in Seq(S)
    PROVE  Len(t) = 1 => s \o t = Append(s, t[1])
<1>1. s \o t \in Seq(S) /\ Len(s) \in Nat /\ Len(t) \in Nat /\ Len(s \o t) = Len(s) + Len(t)
  BY ConcatFacts
<1>2. \A i \in 1..Len(s) : (s \o t)[i] = s[i]
  BY ConcatFacts
<1>3. \A i \in 1..Len(t) : (s \o t)[Len(s) + i] = t[i] /\ t[i] \in S
  BY ConcatFacts
<1> DEFINE m == Len(s)
           n == Len(t)
           p == s \o t
<1>4. p \in Seq(S) /\ m \in Nat /\ n \in Nat /\ Len(p) = m + n
  BY <1>1
<1>5. \A i \in 1..m : p[i] = s[i]
  BY <1>2
<1>6. \A i \in 1..n : p[m + i] = t[i] /\ t[i] \in S
  BY <1>3
<1> HIDE DEF m, n, p
<1>7. ASSUME n = 1 PROVE p = Append(s, t[1])
  <2> DEFINE q == Append(s, t[1])
  <2>1. t[1] \in S
    BY <1>6, <1>7
  <2>2. q \in Seq(S) /\ Len(q) = m + 1 /\ q[m + 1] = t[1] /\ \A i \in 1..m : q[i] = s[i]
    BY <2>1, AppendFacts DEF m
  <2> HIDE DEF q
  <2>3. \A i \in 1..Len(p) : p[i] = q[i]
    <3> SUFFICES ASSUME NEW i \in 1..Len(p) PROVE p[i] = q[i]
      OBVIOUS
    <3>1. i \in 1..m \/ i = m + 1
      BY <1>4, <1>7
    <3> QED
      BY <1>4, <1>5, <1>6, <1>7, <2>2, <3>1
  <2>4. p = q
    BY <1>4, <1>7, <2>2, <2>3, SameSeq
  <2> QED
    BY <2>4 DEF q
<1> QED
  BY <1>7 DEF n, p

LEMMA IndexSplit ==
    ASSUME NEW m \in Nat, NEW n \in Nat, NEW j \in 1..(m + n)
    PROVE  j \in 1..m \/ \E k \in 1..n : j = m + k
<1>1. CASE j <= m
  BY <1>1
<1>2. CASE j > m
  <2>1. j - m \in 1..n /\ j = m + (j - m)
    BY <1>2
  <2> QED
    BY <2>1
<1> QED
  BY <1>1, <1>2

LEMMA SubSeqFacts ==
    ASSUME NEW S, NEW s \in Seq(S), NEW m \in Nat \ {0}, NEW n \in 0..Len(s)
    PROVE  /\ SubSeq(s, m, n) \in Seq(S)
           /\ m <= n => /\ Len(SubSeq(s, m, n)) = n - m + 1
                        /\ \A i \in 1..(n - m + 1) : SubSeq(s, m, n)[i] = s[m + i - 1]
           /\ n < m => Len(SubSeq(s, m, n)) = 0
  OBVIOUS

LEMMA NewestFacts ==
    ASSUME NEW S, NEW s \in Seq(S), NEW n \in Nat \ {0}
    PROVE  /\ Newest(s, n) \in Seq(S)
           /\ Len(s) <= n => Newest(s, n) = s
           /\ Len(s) > n => Len(Newest(s, n)) = n
           /\ Len(Newest(s, n)) \in Nat /\ Len(s) \in Nat /\ Len(Newest(s, n)) <= n
           /\ Len(Newest(s, n)) <= Len(s)
           /\ \A d \in 0..(Len(Newest(s, n)) - 1) :
                 Newest(s, n)[Len(Newest(s, n)) - d] = s[Len(s) - d]
<1>1. CASE Len(s) <= n
  BY <1>1 DEF Newest
<1>2. CASE Len(s) > n
  <2>1. Newest(s, n) = SubSeq(s, Len(s) - n + 1, Len(s)) /\ Len(s) \in Nat
    BY <1>2 DEF Newest
  <2>2. /\ Newest(s, n) \in Seq(S) /\ Len(Newest(s, n)) = n
        /\ \A i \in 1..n : Newest(s, n)[i] = s[(Len(s) - n + 1) + i - 1]
    BY <1>2, <2>1, SubSeqFacts
  <2>3. ASSUME NEW d \in 0..(n - 1) PROVE Newest(s, n)[n - d] = s[Len(s) - d]
    BY <1>2, <2>1, <2>2
  <2> QED
    BY <1>2, <2>1, <2>2, <2>3
<1> QED
  BY <1>1, <1>2

-----------------------------------------------------------------------------
(* The log.                                                                *)

\* The replay window `replay` ends with the last of the first k elements of the journal `list`,
\* holds as many of the first n as it has room for, and nothing else.
WindowOf(replay, list, k, n) ==
    LET l == Len(replay) IN
    /\ l <= MaxReplay /\ (l >= n \/ l = MaxReplay)
    /\ \A d \in 0..(l - 1) : d < k => replay[l - d] = list[k - d]
    /\ \A i \in 1..l : \E j \in 1..n : replay[i] = list[j]

Bounded(l) == l \in Logs /\ Len(l.replay) <= MaxReplay /\ Len(l.window) <= MaxStream

LEMMA WindowStep ==
    ASSUME NEW replay \in Seq(Events), NEW list \in Seq(Events), NEW k \in Nat, NEW n \in Nat,
           NEW m \in {n, n + 1}, k + 1 <= m, m <= Len(list), WindowOf(replay, list, k, n)
    PROVE  WindowOf(Newest(Append(replay, list[k + 1]), MaxReplay), list, k + 1, m)
<1> DEFINE e == list[k + 1]
           s == Append(replay, e)
           w == Newest(s, MaxReplay)
           l == Len(replay)
           v == Len(w)
<1>1. MaxReplay \in Nat \ {0}
  BY WindowAssumption
<1>2. e \in Events
  OBVIOUS
<1>3. /\ s \in Seq(Events) /\ l \in Nat /\ Len(s) = l + 1 /\ s[l + 1] = e
      /\ \A i \in 1..l : s[i] = replay[i]
  BY <1>2, AppendFacts
<1> HIDE DEF s
<1>4. /\ Len(s) <= MaxReplay => w = s
      /\ Len(s) > MaxReplay => v = MaxReplay
      /\ v \in Nat /\ v <= MaxReplay /\ v <= Len(s)
      /\ \A d \in 0..(v - 1) : w[v - d] = s[Len(s) - d]
  BY <1>1, <1>3, NewestFacts
<1> HIDE DEF w, v
<1>5. /\ l <= MaxReplay /\ (l >= n \/ l = MaxReplay)
      /\ \A d \in 0..(l - 1) : d < k => replay[l - d] = list[k - d]
      /\ \A i \in 1..l : \E j \in 1..n : replay[i] = list[j]
  BY DEF WindowOf
<1> HIDE DEF l, e
<1>6. v <= MaxReplay /\ (v >= m \/ v = MaxReplay)
  BY <1>1, <1>3, <1>4, <1>5 DEF v
<1>7. ASSUME NEW d \in 0..(v - 1), d < k + 1 PROVE w[v - d] = list[(k + 1) - d]
  <2>1. w[v - d] = s[(l + 1) - d]
    BY <1>3, <1>4
  <2>2. CASE d = 0
    BY <1>3, <2>1, <2>2 DEF e
  <2>3. CASE d > 0
    <3>1. d - 1 \in 0..(l - 1) /\ d - 1 < k
      BY <1>3, <1>4, <1>7, <2>3
    <3>2. replay[l - (d - 1)] = list[k - (d - 1)]
      BY <1>5, <3>1
    <3>3. (l + 1) - d \in 1..l /\ (l + 1) - d = l - (d - 1) /\ (k + 1) - d = k - (d - 1)
      BY <1>3, <3>1
    <3>4. s[(l + 1) - d] = replay[(l + 1) - d]
      BY <1>3, <3>3
    <3> QED
      BY <2>1, <3>2, <3>3, <3>4
  <2> QED
    BY <2>2, <2>3
<1>8. ASSUME NEW i \in 1..v PROVE \E j \in 1..m : w[i] = list[j]
  <2> DEFINE d == v - i
  <2>1. d \in 0..(v - 1) /\ v - d = i
    BY <1>4
  <2>2. w[i] = s[(l + 1) - d]
    BY <1>3, <1>4, <2>1
  <2>3. CASE d = 0
    <3>1. w[i] = list[k + 1] /\ k + 1 \in 1..m
      BY <1>3, <2>2, <2>3 DEF e
    <3> QED
      BY <3>1
  <2>4. CASE d > 0
    <3>1. (l + 1) - d \in 1..l
      BY <1>3, <1>4, <2>1, <2>4
    <3>2. w[i] = replay[(l + 1) - d]
      BY <1>3, <2>2, <3>1
    <3>3. PICK j \in 1..n : replay[(l + 1) - d] = list[j]
      BY <1>5, <3>1
    <3>4. j \in 1..m
      OBVIOUS
    <3> QED
      BY <3>2, <3>3, <3>4
  <2> QED
    BY <2>1, <2>3, <2>4
<1>9. WindowOf(w, list, k + 1, m)
  BY <1>6, <1>7, <1>8 DEF WindowOf, v
<1> QED
  BY <1>9 DEF w, s, e

\* Another journal that begins with the same n events has the same window.
LEMMA WindowAgrees ==
    ASSUME NEW replay \in Seq(Events), NEW list \in Seq(Events), NEW other \in Seq(Events),
           NEW k \in Nat, NEW n \in Nat, k <= n, n <= Len(list),
           n <= Len(other), \A i \in 1..n : other[i] = list[i],
           WindowOf(replay, list, k, n)
    PROVE  WindowOf(replay, other, k, n)
<1> DEFINE l == Len(replay)
<1>1. /\ l <= MaxReplay /\ (l >= n \/ l = MaxReplay)
      /\ \A d \in 0..(l - 1) : d < k => replay[l - d] = list[k - d]
      /\ \A i \in 1..l : \E j \in 1..n : replay[i] = list[j]
  BY DEF WindowOf
<1>2. ASSUME NEW d \in 0..(l - 1), d < k PROVE replay[l - d] = other[k - d]
  <2>1. k - d \in 1..n
    BY <1>2
  <2> QED
    BY <1>1, <1>2, <2>1
<1>3. \A i \in 1..l : \E j \in 1..n : replay[i] = other[j]
  BY <1>1
<1> QED
  BY <1>1, <1>2, <1>3 DEF WindowOf

LEMMA LoadEventFacts ==
    ASSUME NEW l, Bounded(l), NEW e \in Events
    PROVE  /\ Bounded(LoadEvent(l, e))
           /\ LoadEvent(l, e).seq = IF e.seq > l.seq THEN e.seq ELSE l.seq
           /\ LoadEvent(l, e).replay = Newest(Append(l.replay, e), MaxReplay)
           /\ e.seq > l.seq => AppendEvent(l, e) = LoadEvent(l, e)
<1>1. /\ l.seq \in Nat /\ l.replay \in Seq(Events) /\ l.total \in Nat /\ l.window \in Seq(Ids)
      /\ MaxReplay \in Nat \ {0} /\ MaxStream \in Nat \ {0}
      /\ l = [seq |-> l.seq, replay |-> l.replay, total |-> l.total, window |-> l.window]
  BY WindowAssumption DEF Bounded, Logs
<1>2. e.seq \in Nat /\ e.body \in Seq(Ids) /\ Len(e.body) \in Nat
  BY DEF Events
<1> DEFINE a == Account(l, e)
<1>3. /\ a \in Logs /\ Len(a.window) <= MaxStream
      /\ a.seq = l.seq /\ a.replay = l.replay
  <2>1. CASE e.kind = "stream"
    <3> DEFINE w == Newest(l.window \o e.body, MaxStream)
    <3>1. l.window \o e.body \in Seq(Ids)
      BY <1>1, <1>2
    <3>2. w \in Seq(Ids) /\ Len(w) <= MaxStream
      BY <1>1, <3>1, NewestFacts
    <3>3. a = [seq |-> l.seq, replay |-> l.replay, total |-> l.total + Len(e.body), window |-> w]
      BY <1>1, <2>1 DEF Account, Logs, Bounded
    <3> HIDE DEF w, a
    <3> QED
      BY <1>1, <1>2, <3>2, <3>3 DEF Logs
  <2>2. CASE e.kind # "stream"
    BY <2>2 DEF Account, Bounded
  <2> QED
    BY <2>1, <2>2
<1> HIDE DEF a
<1> DEFINE r == Newest(Append(l.replay, e), MaxReplay)
<1>4. r \in Seq(Events) /\ Len(r) <= MaxReplay
  <2>1. Append(l.replay, e) \in Seq(Events)
    BY <1>1, AppendFacts
  <2> QED
    BY <1>1, <2>1, NewestFacts
<1>5. PushReplay(a, e) = [seq |-> l.seq, replay |-> r, total |-> a.total, window |-> a.window]
  BY <1>3 DEF PushReplay, Logs
<1> HIDE DEF r
<1>6. LoadEvent(l, e) = [seq |-> IF e.seq > l.seq THEN e.seq ELSE l.seq, replay |-> r,
                         total |-> a.total, window |-> a.window]
  BY <1>5 DEF LoadEvent, a
<1>7. AppendEvent(l, e) = [seq |-> e.seq, replay |-> r, total |-> a.total, window |-> a.window]
  BY <1>5 DEF AppendEvent, a
<1>8. a.total \in Nat /\ a.window \in Seq(Ids)
  BY <1>3 DEF Logs
<1>9. Bounded(LoadEvent(l, e))
  BY <1>1, <1>2, <1>3, <1>4, <1>6, <1>8 DEF Bounded, Logs
<1> QED
  BY <1>6, <1>7, <1>9 DEF r

-----------------------------------------------------------------------------
(* load(): the two recursive functions are defined for every sequence.     *)

LEMMA LoadRecursion ==
    ASSUME NEW l, NEW list \in Seq(Events)
    PROVE  \E f : /\ f[0] = l
                  /\ \A n \in 1..Len(list) : f[n] = LoadEvent(f[n - 1], list[n])
                  /\ Load(l, list) = f[Len(list)]
<1> DEFINE N == Len(list)
           Upto(n, g) == g = [i \in 0..n |-> IF i = 0 THEN l ELSE LoadEvent(g[i - 1], list[i])]
           T == {n \in 0..N : \E g : Upto(n, g)}
<1>1. N \in Nat
  OBVIOUS
<1>2. 0 \in T
  <2> DEFINE g == [i \in 0..0 |-> l]
  <2>1. Upto(0, g)
    OBVIOUS
  <2> HIDE DEF g, Upto
  <2> QED
    BY <1>1, <2>1
<1>3. ASSUME NEW n \in 0..(N - 1), n \in T PROVE n + 1 \in T
  <2>1. PICK g : Upto(n, g)
    BY <1>3
  <2> DEFINE h == [i \in 0..(n + 1) |-> IF i = n + 1 THEN LoadEvent(g[n], list[n + 1]) ELSE g[i]]
  <2>2. \A i \in 0..n : h[i] = g[i]
    BY <1>1
  <2>3. ASSUME NEW i \in 0..(n + 1)
        PROVE  h[i] = IF i = 0 THEN l ELSE LoadEvent(h[i - 1], list[i])
    <3>1. CASE i = n + 1
      <4>1. h[i] = LoadEvent(g[n], list[n + 1]) /\ i # 0 /\ i - 1 = n
        BY <1>1, <3>1
      <4>2. h[n] = g[n]
        BY <1>1, <2>2
      <4> HIDE DEF h
      <4> QED
        BY <3>1, <4>1, <4>2
    <3>2. CASE i \in 0..n
      <4>1. h[i] = g[i] /\ (i # 0 => h[i - 1] = g[i - 1])
        BY <1>1, <2>2, <3>2
      <4>2. g[i] = IF i = 0 THEN l ELSE LoadEvent(g[i - 1], list[i])
        BY <2>1, <3>2
      <4> HIDE DEF h
      <4> QED
        BY <4>1, <4>2
    <3> QED
      BY <1>1, <3>1, <3>2
  <2>4. Upto(n + 1, h)
    <3>1. h = [i \in 0..(n + 1) |-> h[i]]
      OBVIOUS
    <3> HIDE DEF h
    <3> QED
      BY <2>3, <3>1
  <2>5. n + 1 \in 0..N
    BY <1>1
  <2> HIDE DEF Upto, h
  <2> QED
    BY <2>4, <2>5
<1>4. N \in T
  <2> HIDE DEF T, N
  <2>1. \A n \in 0..(N - 1) : n \in T => n + 1 \in T
    BY <1>3
  <2>2. \A n \in 0..N : n \in T
    BY <1>1, <1>2, <2>1, UpTo
  <2> QED
    BY <1>1, <2>2
<1> DEFINE f == CHOOSE g : Upto(N, g)
<1>5. Upto(N, f)
  BY <1>4
<1>6. Load(l, list) = f[N]
  BY DEF Load
<1> HIDE DEF f
<1>7. f[0] = l /\ \A n \in 1..N : f[n] = LoadEvent(f[n - 1], list[n])
  BY <1>1, <1>5
<1> QED
  BY <1>6, <1>7

\* eventsSince(): it keeps the events after `since`, all of them, in their order.
LEMMA SinceFacts ==
    ASSUME NEW l, l.replay \in Seq(Events), NEW since \in Nat
    PROVE  /\ EventsSince(l, since) \in Seq(Events)
           /\ \A k \in DOMAIN EventsSince(l, since) :
                 /\ EventsSince(l, since)[k].seq > since
                 /\ \E i \in DOMAIN l.replay : EventsSince(l, since)[k] = l.replay[i]
           /\ \A i \in DOMAIN l.replay : l.replay[i].seq > since =>
                 \E k \in DOMAIN EventsSince(l, since) : EventsSince(l, since)[k] = l.replay[i]
           /\ (\A i, j \in DOMAIN l.replay : i < j => l.replay[i].seq < l.replay[j].seq)
                 => \A i, j \in DOMAIN EventsSince(l, since) :
                       i < j => EventsSince(l, since)[i].seq < EventsSince(l, since)[j].seq
<1> DEFINE s == l.replay
           N == Len(s)
           step(g, i) == IF s[i].seq > since THEN Append(g[i - 1], s[i]) ELSE g[i - 1]
           Upto(n, g) == g = [i \in 0..n |-> IF i = 0 THEN <<>> ELSE step(g, i)]
           T == {n \in 0..N : \E g : Upto(n, g)}
<1>1. N \in Nat /\ s \in Seq(Events) /\ DOMAIN s = 1..N /\ \A i \in 1..N : s[i] \in Events
  OBVIOUS
<1>2. 0 \in T
  <2> DEFINE g == [i \in 0..0 |-> <<>>]
  <2>1. Upto(0, g)
    OBVIOUS
  <2> HIDE DEF g, Upto
  <2> QED
    BY <1>1, <2>1
<1>3. ASSUME NEW n \in 0..(N - 1), n \in T PROVE n + 1 \in T
  <2>1. PICK g : Upto(n, g)
    BY <1>3
  <2> DEFINE h == [i \in 0..(n + 1) |-> IF i = n + 1 THEN step(g, n + 1) ELSE g[i]]
  <2>2. \A i \in 0..n : h[i] = g[i]
    BY <1>1
  <2>3. ASSUME NEW i \in 0..(n + 1)
        PROVE  h[i] = IF i = 0 THEN <<>> ELSE step(h, i)
    <3>1. CASE i = n + 1
      <4>1. h[i] = step(g, n + 1) /\ i # 0 /\ i - 1 = n
        BY <1>1, <3>1
      <4>2. h[n] = g[n]
        BY <1>1, <2>2
      <4> HIDE DEF h
      <4> QED
        BY <3>1, <4>1, <4>2
    <3>2. CASE i \in 0..n
      <4>1. h[i] = g[i] /\ (i # 0 => h[i - 1] = g[i - 1])
        BY <1>1, <2>2, <3>2
      <4>2. g[i] = IF i = 0 THEN <<>> ELSE step(g, i)
        BY <2>1, <3>2
      <4> HIDE DEF h
      <4> QED
        BY <4>1, <4>2
    <3> QED
      BY <1>1, <3>1, <3>2
  <2>4. Upto(n + 1, h)
    <3>1. h = [i \in 0..(n + 1) |-> h[i]]
      OBVIOUS
    <3> HIDE DEF h
    <3> QED
      BY <2>3, <3>1
  <2>5. n + 1 \in 0..N
    BY <1>1
  <2> HIDE DEF Upto, h
  <2> QED
    BY <2>4, <2>5
<1>4. N \in T
  <2> HIDE DEF T, N
  <2>1. \A n \in 0..(N - 1) : n \in T => n + 1 \in T
    BY <1>3
  <2>2. \A n \in 0..N : n \in T
    BY <1>1, <1>2, <2>1, UpTo, SMTT(40)
  <2> QED
    BY <1>1, <2>2
<1> DEFINE f == CHOOSE g : Upto(N, g)
<1>5. Upto(N, f)
  BY <1>4, Zenon
<1>6. EventsSince(l, since) = f[N]
  BY DEF EventsSince
<1> HIDE DEF f
<1>7. f[0] = <<>> /\ \A n \in 1..N : f[n] = step(f, n)
  <2> HIDE DEF step, N, s
  <2> QED
    BY <1>1, <1>5
<1> DEFINE Sorted == \A i, j \in DOMAIN s : i < j => s[i].seq < s[j].seq
           Kept(n) ==
              /\ f[n] \in Seq(Events)
              /\ \A k \in 1..Len(f[n]) : f[n][k].seq > since /\ \E i \in 1..n : f[n][k] = s[i]
              /\ \A i \in 1..n : s[i].seq > since => \E k \in 1..Len(f[n]) : f[n][k] = s[i]
              /\ Sorted => \A i, j \in 1..Len(f[n]) : i < j => f[n][i].seq < f[n][j].seq
           K == {n \in 0..N : Kept(n)}
<1>8. 0 \in K
  <2>1. f[0] = <<>> /\ <<>> \in Seq(Events) /\ Len(<<>>) = 0
    BY <1>7
  <2>2. Kept(0)
    BY <2>1
  <2> HIDE DEF Kept
  <2> QED
    BY <1>1, <2>2
<1>9. ASSUME NEW n \in 0..(N - 1), n \in K PROVE n + 1 \in K
  <2>1. n + 1 \in 1..N /\ s[n + 1] \in Events /\ (n + 1) - 1 = n
    BY <1>1
  <2>2. Kept(n)
    BY <1>9
  <2>3. f[n + 1] = IF s[n + 1].seq > since THEN Append(f[n], s[n + 1]) ELSE f[n]
    BY <1>7, <2>1
  <2> DEFINE old == f[n]
             e == s[n + 1]
  <2>4. CASE ~(s[n + 1].seq > since)
    <3>1. f[n + 1] = f[n]
      BY <2>3, <2>4
    <3>2. \A i \in 1..(n + 1) : i \in 1..n \/ i = n + 1
      BY <1>1
    <3>3. Kept(n + 1)
      BY <1>1, <2>2, <2>4, <3>1, <3>2
    <3> QED
      BY <2>1, <3>3
  <2>5. CASE s[n + 1].seq > since
    <3>1. f[n + 1] = Append(old, e) /\ old \in Seq(Events) /\ e \in Events /\ e.seq > since
      BY <2>1, <2>2, <2>3, <2>5
    <3>2. /\ f[n + 1] \in Seq(Events) /\ Len(old) \in Nat /\ Len(f[n + 1]) = Len(old) + 1
          /\ \A k \in 1..Len(old) : f[n + 1][k] = old[k]
          /\ f[n + 1][Len(old) + 1] = e
      BY <3>1, AppendFacts
    <3>3. \A k \in 1..Len(old) : old[k].seq > since /\ \E i \in 1..n : old[k] = s[i]
      BY <2>2
    <3>4. \A i \in 1..n : s[i].seq > since => \E k \in 1..Len(old) : old[k] = s[i]
      BY <2>2
    <3>5. Sorted => \A i, j \in 1..Len(old) : i < j => old[i].seq < old[j].seq
      BY <2>2
    <3>6. e = s[n + 1]
      OBVIOUS
    <3> HIDE DEF old, e, s, step, Kept
    <3>7. ASSUME NEW k \in 1..Len(f[n + 1])
          PROVE  f[n + 1][k].seq > since /\ \E i \in 1..(n + 1) : f[n + 1][k] = s[i]
      <4>1. CASE k \in 1..Len(old)
        <5>1. f[n + 1][k] = old[k] /\ old[k].seq > since
          BY <3>2, <3>3, <4>1
        <5>2. PICK i \in 1..n : old[k] = s[i]
          BY <3>3, <4>1
        <5>3. i \in 1..(n + 1)
          BY <1>1
        <5> QED
          BY <5>1, <5>2, <5>3
      <4>2. CASE k = Len(old) + 1
        <5>1. n + 1 \in 1..(n + 1)
          BY <1>1
        <5> QED
          BY <3>1, <3>2, <3>6, <4>2, <5>1
      <4> QED
        BY <3>2, <4>1, <4>2
    <3>8. ASSUME NEW i \in 1..(n + 1), s[i].seq > since
          PROVE  \E k \in 1..Len(f[n + 1]) : f[n + 1][k] = s[i]
      <4>1. CASE i \in 1..n
        <5>1. PICK k \in 1..Len(old) : old[k] = s[i]
          BY <3>4, <3>8, <4>1
        <5>2. k \in 1..Len(f[n + 1]) /\ f[n + 1][k] = s[i]
          BY <3>2, <5>1
        <5> QED
          BY <5>2
      <4>2. CASE i = n + 1
        <5>1. Len(old) + 1 \in 1..Len(f[n + 1])
          BY <3>2
        <5> QED
          BY <3>2, <3>6, <4>2, <5>1
      <4> QED
        BY <1>1, <4>1, <4>2
    <3>9. ASSUME Sorted, NEW i \in 1..Len(f[n + 1]), NEW j \in 1..Len(f[n + 1]), i < j
          PROVE  f[n + 1][i].seq < f[n + 1][j].seq
      <4>1. i \in 1..Len(old) /\ f[n + 1][i] = old[i]
        BY <3>2, <3>9
      <4>2. CASE j \in 1..Len(old)
        BY <3>2, <3>5, <3>9, <4>1, <4>2
      <4>3. CASE j = Len(old) + 1
        <5>1. PICK m \in 1..n : old[i] = s[m]
          BY <3>3, <4>1
        <5>2. s[m].seq < s[n + 1].seq
          BY <1>1, <2>1, <3>9, <5>1
        <5> QED
          BY <3>2, <3>6, <4>1, <4>3, <5>1, <5>2
      <4> QED
        BY <3>2, <4>2, <4>3
    <3>10. Kept(n + 1)
      BY <3>2, <3>7, <3>8, <3>9 DEF Kept
    <3> QED
      BY <2>1, <3>10
  <2> QED
    BY <2>4, <2>5
<1>10. N \in K
  <2> HIDE DEF K, N
  <2>1. \A n \in 0..(N - 1) : n \in K => n + 1 \in K
    BY <1>9
  <2>2. \A n \in 0..N : n \in K
    BY <1>1, <1>8, <2>1, UpTo
  <2> QED
    BY <1>1, <2>2
<1>11. Kept(N) /\ f[N] \in Seq(Events)
  BY <1>10
<1>12. DOMAIN f[N] = 1..Len(f[N])
  BY <1>11
<1> HIDE DEF N
<1> QED
  BY <1>1, <1>6, <1>11, <1>12

-----------------------------------------------------------------------------
(* The log after load(), and what a resume is answered from it.            *)

\* Events that continue the journal: the window follows, the number counts them.
LEMMA LoadNew ==
    ASSUME NEW l, Bounded(l), NEW list \in Seq(Events), NEW add \in Seq(Events), NEW n \in Nat,
           WindowOf(l.replay, list, n, n), n + Len(add) <= Len(list),
           \A i \in 1..Len(add) : add[i] = list[n + i] /\ add[i].seq = l.seq + i
    PROVE  /\ Bounded(Load(l, add)) /\ Load(l, add).seq = l.seq + Len(add)
           /\ WindowOf(Load(l, add).replay, list, n + Len(add), n + Len(add))
<1>1. PICK f : /\ f[0] = l
               /\ \A i \in 1..Len(add) : f[i] = LoadEvent(f[i - 1], add[i])
               /\ Load(l, add) = f[Len(add)]
  BY LoadRecursion
<1> DEFINE N == Len(add)
           P(i) == /\ Bounded(f[i]) /\ f[i].seq = l.seq + i
                   /\ WindowOf(f[i].replay, list, n + i, n + i)
           T == {i \in 0..N : P(i)}
<1>2. N \in Nat /\ l.seq \in Nat
  BY DEF Bounded, Logs
<1>6. n + N <= Len(list)
  OBVIOUS
<1>3. 0 \in T
  <2>1. n + 0 = n /\ l.seq + 0 = l.seq
    BY <1>2
  <2>2. P(0)
    BY <1>1, <2>1
  <2> HIDE DEF P
  <2> QED
    BY <1>2, <2>2
<1>4. ASSUME NEW i \in 0..(N - 1), i \in T PROVE i + 1 \in T
  <2>1. i + 1 \in 1..N /\ (i + 1) - 1 = i /\ i \in Nat
    BY <1>2
  <2>2. add[i + 1] \in Events /\ add[i + 1] = list[n + (i + 1)] /\ add[i + 1].seq = l.seq + (i + 1)
    BY <2>1
  <2>3. Bounded(f[i]) /\ f[i].seq = l.seq + i /\ WindowOf(f[i].replay, list, n + i, n + i)
    BY <1>4
  <2>4. f[i + 1] = LoadEvent(f[i], add[i + 1])
    BY <1>1, <2>1
  <2>5. Bounded(f[i + 1]) /\ f[i + 1].seq = l.seq + (i + 1)
    <3>1. /\ Bounded(LoadEvent(f[i], add[i + 1]))
          /\ LoadEvent(f[i], add[i + 1]).seq = IF add[i + 1].seq > f[i].seq THEN add[i + 1].seq ELSE f[i].seq
      BY <2>2, <2>3, LoadEventFacts
    <3>2. l.seq + (i + 1) > l.seq + i
      BY <1>2, <2>1
    <3> QED
      BY <2>2, <2>3, <2>4, <3>1, <3>2
  <2>6. f[i + 1].replay = Newest(Append(f[i].replay, list[(n + i) + 1]), MaxReplay)
    <3>1. n + (i + 1) = (n + i) + 1
      BY <2>1
    <3>2. LoadEvent(f[i], add[i + 1]).replay = Newest(Append(f[i].replay, add[i + 1]), MaxReplay)
      BY <2>2, <2>3, LoadEventFacts
    <3> QED
      BY <2>2, <2>4, <3>1, <3>2
  <2>7. WindowOf(f[i + 1].replay, list, (n + i) + 1, (n + i) + 1)
    <3>1. f[i].replay \in Seq(Events)
      BY <2>3 DEF Bounded, Logs
    <3>2. Len(list) \in Nat
      OBVIOUS
    <3> HIDE DEF N
    <3>3. n + i \in Nat /\ (n + i) + 1 <= Len(list)
      BY <1>2, <1>6, <2>1, <3>2
    <3>4. (n + i) + 1 \in {n + i, (n + i) + 1}
      OBVIOUS
    <3> QED
      BY <2>3, <2>6, <3>1, <3>3, <3>4, WindowStep
  <2>8. P(i + 1)
    <3>1. n + (i + 1) = (n + i) + 1
      BY <2>1
    <3> QED
      BY <2>5, <2>7, <3>1
  <2> HIDE DEF P
  <2> QED
    BY <2>1, <2>8
<1>5. N \in T
  <2> HIDE DEF T, N
  <2>1. \A i \in 0..(N - 1) : i \in T => i + 1 \in T
    BY <1>4
  <2>2. \A i \in 0..N : i \in T
    BY <1>2, <1>3, <2>1, UpTo
  <2> QED
    BY <1>2, <2>2
<1> QED
  BY <1>1, <1>5

\* Events that the log holds already: the window ends with them once more.
LEMMA LoadAgain ==
    ASSUME NEW l, Bounded(l), NEW list \in Seq(Events),
           WindowOf(l.replay, list, Len(list), Len(list)), l.seq = Len(list),
           \A i \in 1..Len(list) : list[i].seq = i
    PROVE  /\ Bounded(Load(l, list)) /\ Load(l, list).seq = Len(list)
           /\ WindowOf(Load(l, list).replay, list, Len(list), Len(list))
<1>1. PICK f : /\ f[0] = l
               /\ \A i \in 1..Len(list) : f[i] = LoadEvent(f[i - 1], list[i])
               /\ Load(l, list) = f[Len(list)]
  BY LoadRecursion
<1> DEFINE N == Len(list)
           P(i) == Bounded(f[i]) /\ f[i].seq = N /\ WindowOf(f[i].replay, list, i, N)
           T == {i \in 0..N : P(i)}
<1>2. N \in Nat
  OBVIOUS
<1>3. 0 \in T
  <2>1. WindowOf(l.replay, list, 0, N)
    <3>1. Len(l.replay) \in Nat
      BY DEF Bounded, Logs
    <3> QED
      BY <1>2, <3>1 DEF WindowOf
  <2>2. P(0)
    BY <1>1, <2>1
  <2> HIDE DEF P
  <2> QED
    BY <1>2, <2>2
<1>4. ASSUME NEW i \in 0..(N - 1), i \in T PROVE i + 1 \in T
  <2>1. i + 1 \in 1..N /\ (i + 1) - 1 = i /\ i \in Nat
    BY <1>2
  <2>2. list[i + 1] \in Events /\ list[i + 1].seq = i + 1
    BY <2>1
  <2>3. Bounded(f[i]) /\ f[i].seq = N /\ WindowOf(f[i].replay, list, i, N)
    BY <1>4
  <2>4. f[i + 1] = LoadEvent(f[i], list[i + 1])
    BY <1>1, <2>1
  <2>5. Bounded(f[i + 1]) /\ f[i + 1].seq = N
    <3>1. /\ Bounded(LoadEvent(f[i], list[i + 1]))
          /\ LoadEvent(f[i], list[i + 1]).seq = IF list[i + 1].seq > f[i].seq THEN list[i + 1].seq ELSE f[i].seq
      BY <2>2, <2>3, LoadEventFacts
    <3>2. ~(i + 1 > N)
      BY <1>2, <2>1
    <3> QED
      BY <2>2, <2>3, <2>4, <3>1, <3>2
  <2>6. f[i + 1].replay = Newest(Append(f[i].replay, list[i + 1]), MaxReplay)
    BY <2>2, <2>3, <2>4, LoadEventFacts, SMTT(40)
  <2>7. WindowOf(f[i + 1].replay, list, i + 1, N)
    <3>1. f[i].replay \in Seq(Events)
      BY <2>3 DEF Bounded, Logs
    <3> QED
      BY <1>2, <2>1, <2>3, <2>6, <3>1, WindowStep
  <2>8. P(i + 1)
    BY <2>5, <2>7
  <2> HIDE DEF P
  <2> QED
    BY <2>1, <2>8
<1>5. N \in T
  <2> HIDE DEF T, N
  <2>1. \A i \in 0..(N - 1) : i \in T => i + 1 \in T
    BY <1>4
  <2>2. \A i \in 0..N : i \in T
    BY <1>2, <1>3, <2>1, UpTo
  <2> QED
    BY <1>2, <2>2
<1> QED
  BY <1>1, <1>5

LEMMA EmptyLogFacts ==
    ASSUME NEW list \in Seq(Events)
    PROVE  Bounded(EmptyLog) /\ EmptyLog.seq = 0 /\ WindowOf(EmptyLog.replay, list, 0, 0)
<1>1. MaxReplay \in Nat \ {0} /\ MaxStream \in Nat \ {0}
  BY WindowAssumption
<1>2. EmptyLog.seq = 0 /\ EmptyLog.replay = <<>> /\ Len(<<>>) = 0
  BY DEF EmptyLog
<1>3. Bounded(EmptyLog)
  BY <1>1 DEF EmptyLog, Bounded, Logs
<1>4. WindowOf(EmptyLog.replay, list, 0, 0)
  BY <1>1, <1>2 DEF WindowOf
<1> QED
  BY <1>2, <1>3, <1>4

\* A daemon that starts: the journal is loaded twice, then the events of the start are pushed.
LEMMA RestartedLog ==
    ASSUME NEW kept \in Seq(Events), NEW pushed \in Seq(Events),
           \A i \in 1..Len(kept) : kept[i].seq = i,
           \A i \in 1..Len(pushed) : pushed[i].seq = Len(kept) + i,
           NEW l, l = Load(Load(Load(EmptyLog, kept), kept), pushed)
    PROVE  /\ Load(Load(EmptyLog, kept), kept).seq = Len(kept)
           /\ Bounded(l) /\ l.seq = Len(kept) + Len(pushed)
           /\ WindowOf(l.replay, kept \o pushed, Len(kept) + Len(pushed), Len(kept) + Len(pushed))
<1> DEFINE once == Load(EmptyLog, kept)
           twice == Load(once, kept)
           list == kept \o pushed
           n == Len(kept)
<1>1. n \in Nat /\ Len(pushed) \in Nat /\ 0 + n = n /\ \A i \in 1..n : 0 + i = i
  OBVIOUS
<1>2. Bounded(once) /\ once.seq = n /\ WindowOf(once.replay, kept, n, n)
  <2>1. Bounded(EmptyLog) /\ EmptyLog.seq = 0 /\ WindowOf(EmptyLog.replay, kept, 0, 0)
    BY EmptyLogFacts
  <2>2. \A i \in 1..Len(kept) : kept[i] = kept[0 + i] /\ kept[i].seq = EmptyLog.seq + i
    BY <1>1, <2>1
  <2>3. 0 \in Nat /\ 0 + Len(kept) <= Len(kept)
    OBVIOUS
  <2>4. /\ Bounded(Load(EmptyLog, kept)) /\ Load(EmptyLog, kept).seq = EmptyLog.seq + Len(kept)
        /\ WindowOf(Load(EmptyLog, kept).replay, kept, 0 + Len(kept), 0 + Len(kept))
    BY <2>1, <2>2, <2>3, LoadNew
  <2> QED
    BY <1>1, <2>1, <2>4
<1> HIDE DEF once
<1>3. Bounded(twice) /\ twice.seq = n /\ WindowOf(twice.replay, kept, n, n)
  BY <1>2, LoadAgain
<1> HIDE DEF twice
<1>4. /\ list \in Seq(Events) /\ Len(list) = n + Len(pushed)
      /\ \A i \in 1..n : list[i] = kept[i]
      /\ \A i \in 1..Len(pushed) : list[n + i] = pushed[i]
  BY ConcatFacts
<1>5. WindowOf(twice.replay, list, n, n)
  <2>1. twice.replay \in Seq(Events)
    BY <1>3 DEF Bounded, Logs
  <2>2. n <= Len(kept)
    BY <1>1
  <2> HIDE DEF list, n
  <2>3. n <= n /\ n <= Len(list)
    BY <1>1, <1>4
  <2> QED
    BY <1>1, <1>3, <1>4, <2>1, <2>2, <2>3, WindowAgrees
<1>6. \A i \in 1..Len(pushed) : pushed[i] = list[n + i] /\ pushed[i].seq = twice.seq + i
  BY <1>3, <1>4
<1> HIDE DEF list, n
<1>7. n + Len(pushed) <= Len(list)
  BY <1>1, <1>4
<1>8. /\ Bounded(Load(twice, pushed)) /\ Load(twice, pushed).seq = twice.seq + Len(pushed)
      /\ WindowOf(Load(twice, pushed).replay, list, n + Len(pushed), n + Len(pushed))
  BY <1>1, <1>3, <1>4, <1>5, <1>6, <1>7, LoadNew
<1>9. Load(twice, pushed) = l /\ Load(Load(EmptyLog, kept), kept) = twice
  BY DEF once, twice
<1> QED
  BY <1>3, <1>8, <1>9 DEF list, n

LEMMA SpliceFacts ==
    ASSUME NEW l, Bounded(l), NEW offset \in Nat
    PROVE  /\ Splice(l, offset) \in Seq(Events) /\ Len(Splice(l, offset)) \in {0, 1}
           /\ Splice(l, offset) # <<>> => Splice(l, offset)[1].seq = l.seq /\ Splice(l, offset)[1].kind = "stream"
<1> DEFINE start == l.total - Len(l.window)
           from == IF offset > start THEN offset ELSE start
           body == SubSeq(l.window, from - start + 1, Len(l.window))
           e == [seq |-> l.seq, kind |-> "stream", offset |-> from, body |-> body]
<1>1. /\ l.seq \in Nat /\ l.total \in Nat /\ l.window \in Seq(Ids) /\ Len(l.window) \in Nat
  BY DEF Bounded, Logs
<1>2. from \in Nat /\ from - start + 1 \in Nat \ {0}
  <2>1. start \in Int
    BY <1>1
  <2> HIDE DEF start
  <2>2. CASE offset > start
    BY <2>1, <2>2
  <2>3. CASE ~(offset > start)
    BY <2>1, <2>3
  <2> QED
    BY <2>2, <2>3
<1>3. body \in Seq(Ids)
  <2>1. Len(l.window) \in 0..Len(l.window)
    BY <1>1
  <2> HIDE DEF from, start
  <2> QED
    BY <1>1, <1>2, <2>1, SubSeqFacts
<1>4. Splice(l, offset) = IF from >= l.total THEN <<>> ELSE <<e>>
  BY DEF Splice
<1> HIDE DEF from, body, start
<1>5. e \in Events /\ e.seq = l.seq /\ e.kind = "stream"
  BY <1>1, <1>2, <1>3 DEF Events, Kinds
<1> HIDE DEF e
<1>6. CASE Splice(l, offset) = <<>>
  BY <1>6
<1>7. CASE Splice(l, offset) = <<e>>
  <2>1. <<e>> \in Seq(Events) /\ Len(<<e>>) = 1 /\ <<e>>[1] = e
    BY <1>5
  <2> QED
    BY <1>5, <1>7, <2>1
<1> QED
  BY <1>4, <1>6, <1>7

-----------------------------------------------------------------------------
(* What the session has pushed.                                            *)

\* A journal numbers its events from 1 without a gap; later events have greater ids, up to `top`.
Journal(list, top) ==
    /\ \A i \in 1..Len(list) : list[i].seq = i /\ Len(list[i].body) = 1 /\ list[i].body[1] <= top
    /\ \A i, j \in 1..Len(list) : i < j => list[i].body[1] < list[j].body[1]

JournalInv ==
    /\ Journal(records, produced)
    /\ log.seq = Len(records)
    /\ WindowOf(log.replay, records, Len(records), Len(records))

LogTypes ==
    /\ Bounded(log)
    /\ records \in Seq(Events) /\ flushed \in 0..Len(records)
    /\ produced \in Nat /\ status \in 0..produced

\* records of the next state are old ones in their place or newly pushed
Grown ==
    /\ produced <= produced'
    /\ \A r \in 1..Len(records') : \/ r \in 1..Len(records) /\ records'[r] = records[r]
                                   \/ records'[r].body[1] > produced

\* no record has been lost, and the journal goes on from where it was
Kept ==
    /\ lost = 0 /\ Len(records) <= Len(records')
    /\ \A r \in 1..Len(records) : r \in 1..Len(records') /\ records'[r] = records[r]

LEMMA JournalAppended ==
    ASSUME NEW list \in Seq(Events), NEW top \in Nat, Journal(list, top),
           NEW e \in Events, e.seq = Len(list) + 1, e.body = <<top + 1>>
    PROVE  Journal(Append(list, e), top + 1)
<1> DEFINE longer == Append(list, e)
           n == Len(list)
<1>1. /\ n \in Nat /\ Len(longer) = n + 1 /\ longer[n + 1] = e
      /\ \A i \in 1..n : longer[i] = list[i] /\ list[i] \in Events
  BY AppendFacts
<1>2. Len(e.body) = 1 /\ e.body[1] = top + 1
  OBVIOUS
<1>3. \A i \in 1..n : list[i].seq = i /\ Len(list[i].body) = 1 /\ list[i].body[1] <= top
  BY DEF Journal
<1>4. \A i, j \in 1..n : i < j => list[i].body[1] < list[j].body[1]
  BY DEF Journal
<1>5. \A i \in 1..n : list[i].body[1] \in Nat
  <2> SUFFICES ASSUME NEW i \in 1..n PROVE list[i].body[1] \in Nat
    OBVIOUS
  <2>1. list[i].body \in Seq(Ids) /\ Len(list[i].body) = 1
    BY <1>1, <1>3 DEF Events
  <2> QED
    BY <2>1 DEF Ids
<1> HIDE DEF longer, n
<1>6. ASSUME NEW i \in 1..(n + 1)
      PROVE  longer[i].seq = i /\ Len(longer[i].body) = 1 /\ longer[i].body[1] <= top + 1
  <2>1. CASE i = n + 1
    <3>1. longer[i] = e /\ e.seq = n + 1
      BY <1>1, <2>1 DEF n
    <3>2. top + 1 <= top + 1
      OBVIOUS
    <3> QED
      BY <1>2, <2>1, <3>1, <3>2
  <2>2. CASE i \in 1..n
    BY <1>1, <1>3, <1>5, <2>2
  <2> QED
    BY <1>1, <2>1, <2>2
<1>7. ASSUME NEW i \in 1..(n + 1), NEW j \in 1..(n + 1), i < j
      PROVE  longer[i].body[1] < longer[j].body[1]
  <2>1. i \in 1..n
    BY <1>1, <1>7
  <2>2. CASE j = n + 1
    BY <1>1, <1>2, <1>3, <1>5, <2>1, <2>2
  <2>3. CASE j \in 1..n
    BY <1>1, <1>4, <1>7, <2>1, <2>3
  <2> QED
    BY <1>1, <2>2, <2>3
<1>8. Journal(longer, top + 1)
  BY <1>1, <1>6, <1>7 DEF Journal
<1> QED
  BY <1>8 DEF longer

LEMMA PushFacts ==
    ASSUME TypeOK, JournalInv, NEW kind \in PushKinds, Push(kind)
    PROVE  \E e \in Events :
              /\ e.kind = kind /\ e.seq = Len(records) + 1 /\ e.body = <<produced + 1>>
              /\ log' = LoadEvent(log, e) /\ records' = Append(records, e) /\ Broadcast(e)
<1> DEFINE e == Stamped(log, kind, produced + 1)
<1>1. /\ log.seq \in Nat /\ log.total \in Nat /\ produced \in Nat /\ kind \in Kinds /\ Bounded(log)
      /\ log.seq = Len(records)
  BY DeliveryAssumption DEF TypeOK, Logs, Bounded, JournalInv
<1>2. /\ e \in Events /\ e.seq = log.seq + 1 /\ e.kind = kind /\ e.body = <<produced + 1>>
  BY <1>1 DEF Stamped, Events, Ids
<1>3. e.seq > log.seq
  BY <1>1, <1>2
<1>4. log' = AppendEvent(log, e) /\ records' = Append(records, e) /\ Broadcast(e)
  BY DEF Push
<1> HIDE DEF e
<1>5. AppendEvent(log, e) = LoadEvent(log, e)
  BY <1>1, <1>2, <1>3, LoadEventFacts
<1> QED
  BY <1>1, <1>2, <1>4, <1>5

LEMMA PushKeepsLog ==
    ASSUME TypeOK, JournalInv, NEW kind \in PushKinds, Push(kind)
    PROVE  LogTypes' /\ JournalInv' /\ Grown
<1>1. PICK e \in Events :
          /\ e.kind = kind /\ e.seq = Len(records) + 1 /\ e.body = <<produced + 1>>
          /\ log' = LoadEvent(log, e) /\ records' = Append(records, e) /\ Broadcast(e)
  BY PushFacts
<1> DEFINE n == Len(records)
<1>2. /\ Bounded(log) /\ records \in Seq(Events) /\ n \in Nat /\ flushed \in 0..n
      /\ produced \in Nat /\ status \in 0..produced
  BY DEF TypeOK, Bounded
<1>3. /\ log.seq = n /\ Journal(records, produced) /\ WindowOf(log.replay, records, n, n)
  BY DEF JournalInv
<1>4. /\ flushed' = flushed /\ produced' = produced + 1
      /\ status' = IF kind = "status" THEN produced' ELSE status
  BY DEF Push
<1>5. /\ records' \in Seq(Events) /\ Len(records') = n + 1 /\ records'[n + 1] = e
      /\ \A i \in 1..n : records'[i] = records[i]
  BY <1>1, <1>2, AppendFacts
<1>6. /\ Bounded(LoadEvent(log, e)) /\ LoadEvent(log, e).seq = n + 1
      /\ LoadEvent(log, e).replay = Newest(Append(log.replay, e), MaxReplay)
  <2>1. n + 1 > n
    BY <1>2
  <2> QED
    BY <1>1, <1>2, <1>3, <2>1, LoadEventFacts
<1>7. LogTypes'
  <2>1. flushed \in 0..(n + 1) /\ produced + 1 \in Nat /\ status' \in 0..(produced + 1)
    BY <1>2, <1>4
  <2> QED
    BY <1>1, <1>4, <1>5, <1>6, <2>1 DEF LogTypes
<1>8. WindowOf(log'.replay, records', n + 1, n + 1)
  <2> HIDE DEF n
  <2>1. log.replay \in Seq(Events)
    BY <1>2 DEF Bounded, Logs
  <2>2. n <= n /\ n <= Len(records) /\ n <= Len(records')
    BY <1>2, <1>5 DEF n
  <2>3. WindowOf(log.replay, records', n, n)
    BY <1>2, <1>3, <1>5, <2>1, <2>2, WindowAgrees
  <2>4. n + 1 \in {n, n + 1} /\ n + 1 <= n + 1 /\ n + 1 <= Len(records')
    BY <1>2, <1>5
  <2>5. WindowOf(Newest(Append(log.replay, records'[n + 1]), MaxReplay), records', n + 1, n + 1)
    BY <1>2, <1>5, <2>1, <2>3, <2>4, WindowStep
  <2> QED
    BY <1>1, <1>5, <1>6, <2>5
<1>9. Journal(records', produced')
  BY <1>1, <1>2, <1>3, <1>4, JournalAppended
<1>10. JournalInv'
  BY <1>1, <1>5, <1>6, <1>8, <1>9 DEF JournalInv
<1>11. Grown
  <2>1. e.body[1] > produced /\ produced <= produced'
    BY <1>1, <1>2, <1>4
  <2> HIDE DEF n
  <2>2. \A r \in 1..(n + 1) : r \in 1..n \/ r = n + 1
    BY <1>2
  <2> QED
    BY <1>5, <2>1, <2>2 DEF Grown, n
<1> QED
  BY <1>7, <1>10, <1>11

LEMMA StartKindsFacts ==
    ASSUME NEW kinds \in StartKinds
    PROVE  /\ Len(kinds) \in {1, 3} /\ DOMAIN kinds = 1..Len(kinds)
           /\ \A i \in 1..Len(kinds) : kinds[i] \in Kinds
<1>1. CASE kinds = <<"status">>
  BY <1>1 DEF Kinds
<1>2. CASE kinds = <<"text", "text", "status">>
  <2>1. Len(kinds) = 3 /\ DOMAIN kinds = 1..3
    BY <1>2
  <2>2. kinds[1] = "text" /\ kinds[2] = "text" /\ kinds[3] = "status"
    BY <1>2
  <2>3. \A i \in 1..3 : i = 1 \/ i = 2 \/ i = 3
    OBVIOUS
  <2> QED
    BY <2>1, <2>2, <2>3 DEF Kinds
<1> QED
  BY <1>1, <1>2 DEF StartKinds

LEMMA JournalRestarted ==
    ASSUME NEW list \in Seq(Events), NEW top \in Nat, Journal(list, top), NEW n \in 0..Len(list),
           NEW m \in Nat, NEW longer \in Seq(Events), Len(longer) = n + m,
           \A i \in 1..n : longer[i] = list[i],
           \A i \in 1..m : longer[n + i].seq = n + i /\ longer[n + i].body = <<top + i>>
    PROVE  /\ Journal(longer, top + m)
           /\ \A r \in 1..Len(longer) : \/ r \in 1..Len(list) /\ longer[r] = list[r]
                                        \/ longer[r].body[1] > top
<1>1. n \in Nat /\ m \in Nat /\ Len(longer) = n + m
  OBVIOUS
<1>2. /\ \A i \in 1..Len(list) : list[i].seq = i /\ Len(list[i].body) = 1 /\ list[i].body[1] <= top
      /\ \A i, j \in 1..Len(list) : i < j => list[i].body[1] < list[j].body[1]
  BY DEF Journal
<1>3. \A i \in 1..n : i \in 1..Len(list) /\ longer[i] = list[i]
  OBVIOUS
<1>4. \A i \in 1..n : list[i].body[1] \in Nat
  <2> SUFFICES ASSUME NEW i \in 1..n PROVE list[i].body[1] \in Nat
    OBVIOUS
  <2>1. list[i] \in Events /\ Len(list[i].body) = 1
    BY <1>2, <1>3
  <2>2. list[i].body \in Seq(Nat)
    BY <2>1 DEF Events, Ids
  <2> QED
    BY <2>1, <2>2
<1>5. \A i \in 1..m : /\ longer[n + i].seq = n + i /\ Len(longer[n + i].body) = 1
                      /\ longer[n + i].body[1] = top + i
  <2> SUFFICES ASSUME NEW i \in 1..m
               PROVE  /\ longer[n + i].seq = n + i /\ Len(longer[n + i].body) = 1
                      /\ longer[n + i].body[1] = top + i
    OBVIOUS
  <2>1. longer[n + i].seq = n + i /\ longer[n + i].body = <<top + i>>
    OBVIOUS
  <2> QED
    BY <2>1
<1>6. ASSUME NEW i \in 1..(n + m)
      PROVE  \/ i \in 1..n
             \/ \E k \in 1..m : i = n + k
  <2>1. i \in 1..n \/ (i - n \in 1..m /\ i = n + (i - n))
    BY <1>1
  <2> QED
    BY <2>1
<1>7. ASSUME NEW i \in 1..(n + m)
      PROVE  longer[i].seq = i /\ Len(longer[i].body) = 1 /\ longer[i].body[1] <= top + m
  <2>1. CASE i \in 1..n
    <3>1. longer[i] = list[i] /\ list[i].seq = i /\ Len(list[i].body) = 1 /\ list[i].body[1] <= top
      BY <1>2, <1>3, <2>1
    <3>2. list[i].body[1] \in Nat
      BY <1>4, <2>1
    <3> QED
      BY <1>1, <3>1, <3>2
  <2>2. CASE \E k \in 1..m : i = n + k
    <3>1. PICK k \in 1..m : i = n + k
      BY <2>2
    <3>2. top + k <= top + m
      BY <1>1
    <3> QED
      BY <1>5, <3>1, <3>2
  <2> QED
    BY <1>6, <2>1, <2>2
<1>8. ASSUME NEW i \in 1..(n + m), NEW j \in 1..(n + m), i < j
      PROVE  longer[i].body[1] < longer[j].body[1]
  <2>1. CASE j \in 1..n
    <3>1. i \in 1..n
      BY <1>1, <1>8, <2>1
    <3> QED
      BY <1>2, <1>3, <1>8, <2>1, <3>1
  <2>2. CASE \E k \in 1..m : j = n + k
    <3>1. PICK k \in 1..m : j = n + k
      BY <2>2
    <3>2. longer[j].body[1] = top + k
      BY <1>5, <3>1
    <3>3. CASE i \in 1..n
      <4>1. longer[i] = list[i] /\ list[i].body[1] <= top /\ list[i].body[1] \in Nat
        BY <1>2, <1>3, <1>4, <3>3
      <4>2. k \in Nat \ {0}
        BY <1>1
      <4> QED
        BY <3>2, <4>1, <4>2
    <3>4. CASE \E h \in 1..m : i = n + h
      <4>1. PICK h \in 1..m : i = n + h
        BY <3>4
      <4>2. top + h < top + k
        BY <1>1, <1>8, <3>1, <4>1
      <4> QED
        BY <1>5, <3>2, <4>1, <4>2
    <3> QED
      BY <1>6, <3>3, <3>4
  <2> QED
    BY <1>6, <2>1, <2>2
<1>9. Journal(longer, top + m)
  BY <1>1, <1>7, <1>8 DEF Journal
<1>10. ASSUME NEW r \in 1..Len(longer)
       PROVE  (r \in 1..Len(list) /\ longer[r] = list[r]) \/ longer[r].body[1] > top
  <2>1. CASE r \in 1..n
    BY <1>3, <2>1
  <2>2. CASE \E k \in 1..m : r = n + k
    <3>1. PICK k \in 1..m : r = n + k
      BY <2>2
    <3>2. top + k > top
      BY <1>1
    <3> QED
      BY <1>5, <3>1, <3>2
  <2> QED
    BY <1>1, <1>6, <2>1, <2>2
<1> QED
  BY <1>9, <1>10

LEMMA RestartKeepsLog ==
    ASSUME TypeOK, JournalInv, Restart
    PROVE  LogTypes' /\ JournalInv' /\ Grown /\ (lost' = 0 => Kept)
<1>1. /\ Bounded(log) /\ records \in Seq(Events) /\ Len(records) \in Nat /\ flushed \in 0..Len(records)
      /\ produced \in Nat /\ Journal(records, produced)
  BY DEF TypeOK, Bounded, JournalInv
<1>2. PICK n \in flushed..Len(records), kinds \in StartKinds :
        /\ produced' = produced + Len(kinds)
        /\ flushed' = n /\ lost' = lost + Len(records) - n
        /\ LET kept == SubSeq(records, 1, n)
               loaded == Load(Load(EmptyLog, kept), kept)
               pushed == [i \in DOMAIN kinds |-> [seq |-> loaded.seq + i, kind |-> kinds[i],
                                                 offset |-> 0, body |-> <<produced + i>>]]
           IN  /\ log' = Load(loaded, pushed)
               /\ records' = kept \o pushed
  BY DEF Restart
<1> DEFINE kept == SubSeq(records, 1, n)
           loaded == Load(Load(EmptyLog, kept), kept)
           pushed == [i \in DOMAIN kinds |-> [seq |-> loaded.seq + i, kind |-> kinds[i],
                                             offset |-> 0, body |-> <<produced + i>>]]
           m == Len(kinds)
<1>3. /\ m \in {1, 3} /\ DOMAIN kinds = 1..m /\ \A i \in 1..m : kinds[i] \in Kinds
  BY StartKindsFacts
<1>4. /\ n \in 0..Len(records) /\ kept \in Seq(Events) /\ Len(kept) = n
      /\ \A i \in 1..n : kept[i] = records[i] /\ kept[i].seq = i
  <2>1. n \in 0..Len(records) /\ n \in Nat
    BY <1>1
  <2>2. /\ SubSeq(records, 1, n) \in Seq(Events)
        /\ 1 <= n => /\ Len(SubSeq(records, 1, n)) = n - 1 + 1
                     /\ \A i \in 1..(n - 1 + 1) : SubSeq(records, 1, n)[i] = records[1 + i - 1]
        /\ n < 1 => Len(SubSeq(records, 1, n)) = 0
    BY <1>1, <2>1, SubSeqFacts
  <2>3. Len(kept) = n
    BY <2>1, <2>2
  <2>4. \A i \in 1..n : kept[i] = records[i]
    BY <2>1, <2>2
  <2>5. \A i \in 1..n : i \in 1..Len(records)
    BY <2>1
  <2> HIDE DEF kept
  <2>6. \A i \in 1..n : records[i].seq = i
    BY <1>1, <2>5 DEF Journal
  <2> QED
    BY <2>1, <2>2, <2>3, <2>4, <2>6 DEF kept
<1>5. loaded.seq = n
  <2>1. <<>> \in Seq(Events) /\ Len(<<>>) = 0 /\ \A i \in 1..0 : FALSE
    OBVIOUS
  <2>2. \A i \in 1..Len(<<>>) : <<>>[i].seq = Len(kept) + i
    BY <2>1
  <2> HIDE DEF kept
  <2> QED
    BY <1>4, <2>1, <2>2, RestartedLog
<1> HIDE DEF kept, loaded
<1>6. /\ pushed \in Seq(Events) /\ Len(pushed) = m
      /\ \A i \in 1..m : pushed[i].seq = n + i /\ pushed[i].body = <<produced + i>>
  <2>1. \A i \in 1..m : i \in Nat /\ n + i \in Nat /\ produced + i \in Nat /\ <<produced + i>> \in Seq(Ids)
    BY <1>1, <1>4 DEF Ids
  <2>2. \A i \in 1..m : [seq |-> loaded.seq + i, kind |-> kinds[i], offset |-> 0, body |-> <<produced + i>>]
                           \in Events
    BY <1>3, <1>5, <2>1 DEF Events
  <2>3. m \in Nat
    BY <1>3
  <2> HIDE DEF m
  <2>4. pushed \in [1..m -> Events]
    BY <1>3, <2>2
  <2>5. \A i \in 1..m : pushed[i] = [seq |-> n + i, kind |-> kinds[i], offset |-> 0, body |-> <<produced + i>>]
    BY <1>3, <1>5
  <2> HIDE DEF pushed
  <2>6. pushed \in Seq(Events) /\ Len(pushed) = m
    BY <2>3, <2>4
  <2> QED
    BY <2>5, <2>6
<1>7. /\ log' = Load(loaded, pushed) /\ records' = kept \o pushed
      /\ produced' = produced + m /\ status' = produced' /\ flushed' = n
  <2>1. status' = produced'
    BY DEF Restart
  <2> QED
    BY <1>2, <2>1 DEF kept, loaded
<1> HIDE DEF pushed, m
<1>8. Bounded(log') /\ log'.seq = n + m /\ WindowOf(log'.replay, records', n + m, n + m)
  <2>1. log' = Load(Load(Load(EmptyLog, kept), kept), pushed)
    BY <1>7 DEF loaded
  <2>2. \A i \in 1..Len(kept) : kept[i].seq = i
    BY <1>4
  <2>3. \A i \in 1..Len(pushed) : pushed[i].seq = Len(kept) + i
    BY <1>4, <1>6
  <2>4. kept \in Seq(Events) /\ pushed \in Seq(Events)
    BY <1>4, <1>6
  <2>5. /\ Bounded(log') /\ log'.seq = Len(kept) + Len(pushed)
        /\ WindowOf(log'.replay, kept \o pushed, Len(kept) + Len(pushed), Len(kept) + Len(pushed))
    BY <2>1, <2>2, <2>3, <2>4, RestartedLog
  <2> QED
    BY <1>4, <1>6, <1>7, <2>5
<1>9. /\ records' \in Seq(Events) /\ Len(records') = n + m
      /\ \A i \in 1..n : records'[i] = records[i]
      /\ \A i \in 1..m : records'[n + i] = pushed[i]
  <2>1. kept \in Seq(Events) /\ pushed \in Seq(Events) /\ Len(kept) = n /\ Len(pushed) = m
    BY <1>4, <1>6
  <2>2. /\ kept \o pushed \in Seq(Events) /\ Len(kept \o pushed) = n + m
        /\ \A i \in 1..n : (kept \o pushed)[i] = kept[i]
        /\ \A i \in 1..m : (kept \o pushed)[n + i] = pushed[i]
    <3>1. kept \in Seq(Events) /\ pushed \in Seq(Events)
      BY <2>1
    <3>2. kept \o pushed \in Seq(Events)
      BY <3>1, ConcatFacts
    <3>3. Len(kept \o pushed) = Len(kept) + Len(pushed)
      BY <3>1, ConcatFacts
    <3>4. \A i \in 1..Len(kept) : (kept \o pushed)[i] = kept[i]
      BY <3>1, ConcatFacts
    <3>5. \A i \in 1..Len(pushed) : (kept \o pushed)[Len(kept) + i] = pushed[i]
      BY <3>1, ConcatFacts
    <3> QED
      BY <2>1, <3>2, <3>3, <3>4, <3>5
  <2> QED
    BY <1>4, <1>7, <2>2
<1>10. /\ Journal(records', produced')
       /\ \A r \in 1..Len(records') : \/ r \in 1..Len(records) /\ records'[r] = records[r]
                                      \/ records'[r].body[1] > produced
  <2>1. n \in 0..Len(records) /\ m \in Nat
    BY <1>3, <1>4 DEF m
  <2>2. \A i \in 1..m : records'[n + i].seq = n + i /\ records'[n + i].body = <<produced + i>>
    BY <1>6, <1>9
  <2>3. /\ Journal(records', produced + m)
        /\ \A r \in 1..Len(records') : \/ r \in 1..Len(records) /\ records'[r] = records[r]
                                       \/ records'[r].body[1] > produced
    BY <1>1, <1>9, <2>1, <2>2, JournalRestarted
  <2> QED
    BY <1>7, <2>3
<1>11. m \in Nat /\ produced <= produced' /\ produced' \in Nat /\ n \in 0..(n + m)
  <2>1. m \in Nat /\ n \in Nat
    BY <1>1, <1>3, <1>4 DEF m
  <2> QED
    BY <1>1, <1>7, <2>1
<1>12. ASSUME lost' = 0 PROVE Kept
  <2>1. lost \in Nat /\ m \in Nat /\ n \in 0..Len(records)
    BY <1>3, <1>4 DEF TypeOK, m
  <2>2. n = Len(records) /\ lost = 0
    BY <1>1, <1>2, <1>12, <2>1
  <2> QED
    BY <1>1, <1>9, <2>1, <2>2 DEF Kept
<1> QED
  BY <1>7, <1>8, <1>9, <1>10, <1>11, <1>12 DEF LogTypes, JournalInv, Grown

LEMMA OtherSteps ==
    ASSUME [Next]_vars
    PROVE  UNCHANGED logVars \/ (\E kind \in PushKinds : Push(kind)) \/ Restart
  BY DEF Next, DaemonStep, BrowserStep, NetworkStep, vars, ReceiveHello, ReceiveResume, AnswerResume,
         DaemonRegistered, BrowserConnect, SayHello, OnRegistered, OnPeerOnline, OnAck, OnEvent,
         BrowserDrop, RelayLoses, LinkDrop, DaemonReconnect

LEMMA StepKeepsLog ==
    ASSUME TypeOK, JournalInv, [Next]_vars
    PROVE  LogTypes' /\ JournalInv' /\ Grown
<1>1. CASE UNCHANGED logVars
  <2>1. LogTypes /\ \A r \in 1..Len(records) : r \in 1..Len(records) /\ records[r] = records[r]
    BY DEF TypeOK, LogTypes, Bounded
  <2>2. produced <= produced
    BY <2>1 DEF LogTypes
  <2> QED
    BY <1>1, <2>1, <2>2 DEF logVars, LogTypes, JournalInv, Grown
<1>2. CASE \E kind \in PushKinds : Push(kind)
  BY <1>2, PushKeepsLog
<1>3. CASE Restart
  BY <1>3, RestartKeepsLog
<1> QED
  BY <1>1, <1>2, <1>3, OtherSteps

-----------------------------------------------------------------------------
(* What a resume is answered with.                                         *)

LEMMA RecoveredFacts ==
    ASSUME TypeOK, NEW since \in Nat, NEW offset \in Nat
    PROVE  /\ Recovered(since, offset) \in Seq(Events) /\ Len(Recovered(since, offset)) \in {0, 1}
           /\ Recovered(since, offset) # <<>> => /\ Recovered(since, offset)[1].seq = log.seq
                                                 /\ Recovered(since, offset)[1].kind = "stream"
<1>1. Bounded(log)
  BY DEF TypeOK, Bounded
<1>2. /\ Splice(log, offset) \in Seq(Events) /\ Len(Splice(log, offset)) \in {0, 1}
      /\ Splice(log, offset) # <<>> => /\ Splice(log, offset)[1].seq = log.seq
                                       /\ Splice(log, offset)[1].kind = "stream"
  BY <1>1, SpliceFacts
<1>3. Recovered(since, offset) = Splice(log, offset) \/ Recovered(since, offset) = <<>>
  BY DEF Recovered
<1>4. CASE Recovered(since, offset) = <<>>
  BY <1>4
<1> QED
  BY <1>2, <1>3, <1>4

LEMMA SnapshotFacts ==
    ASSUME TypeOK
    PROVE  /\ Snapshot \in Events /\ Snapshot.kind = "status" /\ Snapshot.seq = log.seq
           /\ Len(Snapshot.body) = 1 /\ Snapshot.body[1] = status
<1>1. log.seq \in Nat /\ status \in Nat
  BY DEF TypeOK, Logs
<1>2. <<status>> \in Seq(Ids)
  BY <1>1 DEF Ids
<1> QED
  BY <1>1, <1>2 DEF Snapshot, Events, Kinds

\* The window holds the last record, if there is one.
LEMMA WindowEnds ==
    ASSUME TypeOK, JournalInv, Len(records) > 0
    PROVE  Len(log.replay) \in 1..Len(log.replay) /\ log.replay[Len(log.replay)].seq = log.seq
<1> DEFINE n == Len(records)
           l == Len(log.replay)
<1>1. n \in Nat /\ l \in Nat /\ MaxReplay \in Nat \ {0}
  BY WindowAssumption DEF TypeOK, Logs
<1>2. /\ l >= n \/ l = MaxReplay
      /\ \A d \in 0..(l - 1) : d < n => log.replay[l - d] = records[n - d]
  BY DEF JournalInv, WindowOf
<1>3. n > 0 /\ n \in 1..n /\ records[n].seq = n /\ log.seq = n
  BY <1>1 DEF JournalInv, Journal
<1> HIDE DEF n, l
<1>4. l >= 1
  BY <1>1, <1>2, <1>3
<1>5. 0 \in 0..(l - 1) /\ 0 < n /\ l - 0 = l /\ n - 0 = n
  BY <1>1, <1>3, <1>4
<1>6. log.replay[l] = records[n]
  BY <1>2, <1>5
<1> QED
  BY <1>1, <1>3, <1>4, <1>6 DEF l

\* The answer ends with the status.  Before it come records of after `since`, and perhaps recovered
\* output under the last number; every such event of the window is there, in its order if the
\* window holds each once.
Answers(a, since, offset) ==
    /\ a \in Seq(Events) /\ Len(a) \in Nat \ {0} /\ a[Len(a)] = Snapshot
    /\ \A k \in 1..(Len(a) - 1) :
          \/ \E r \in 1..Len(records) : a[k] = records[r] /\ since < r
          \/ /\ Recovered(since, offset) # <<>> /\ a[k].seq = log.seq /\ a[k].kind = "stream"
             /\ log.seq > since => \E i \in 1..(k - 1) : a[i].seq = log.seq
    /\ \A i \in 1..Len(log.replay) : log.replay[i].seq > since =>
          \E k \in 1..(Len(a) - 1) : a[k] = log.replay[i]
    /\ (\A i, j \in 1..Len(log.replay) : i < j => log.replay[i].seq < log.replay[j].seq) =>
          \A i \in 1..Len(log.replay), k \in 1..(Len(a) - 1) :
             since < log.replay[i].seq /\ log.replay[i].seq <= a[k].seq =>
                \E h \in 1..k : a[h] = log.replay[i]

LEMMA AnswerFacts ==
    ASSUME TypeOK, JournalInv, NEW since \in Nat, NEW offset \in Nat
    PROVE  Answers(Backfill(since, offset), since, offset)
<1> DEFINE ev == EventsSince(log, since)
           rc == Recovered(since, offset)
           w == log.replay
           a == Backfill(since, offset)
           E == Len(ev)
           R == Len(rc)
<1>1. /\ w \in Seq(Events) /\ Len(w) \in Nat /\ DOMAIN w = 1..Len(w)
      /\ log.seq \in Nat /\ log.seq = Len(records)
  BY DEF TypeOK, Logs, JournalInv
<1>2. /\ ev \in Seq(Events)
      /\ \A k \in DOMAIN ev : ev[k].seq > since /\ \E i \in DOMAIN w : ev[k] = w[i]
      /\ \A i \in DOMAIN w : w[i].seq > since => \E k \in DOMAIN ev : ev[k] = w[i]
      /\ (\A i, j \in DOMAIN w : i < j => w[i].seq < w[j].seq)
            => \A i, j \in DOMAIN ev : i < j => ev[i].seq < ev[j].seq
  BY <1>1, SinceFacts
<1>3. rc \in Seq(Events) /\ R \in {0, 1} /\ (rc # <<>> => rc[1].seq = log.seq /\ rc[1].kind = "stream")
  BY RecoveredFacts
<1>4. Snapshot \in Events /\ <<Snapshot>> \in Seq(Events) /\ Len(<<Snapshot>>) = 1 /\ <<Snapshot>>[1] = Snapshot
  BY SnapshotFacts
<1>5. a = (ev \o rc) \o <<Snapshot>>
  <2>1. a = ev \o rc \o <<Snapshot>>
    BY DEF Backfill
  <2> QED
    BY <2>1
<1> HIDE DEF ev, rc, a
<1>6. /\ E \in Nat /\ DOMAIN ev = 1..E /\ (R = 0 \/ R = 1)
  BY <1>2, <1>3
<1>7. /\ ev \o rc \in Seq(Events) /\ Len(ev \o rc) = E + R
      /\ \A k \in 1..E : (ev \o rc)[k] = ev[k]
      /\ R = 1 => (ev \o rc)[E + 1] = rc[1]
  <2>1. ev \o rc \in Seq(Events)
    BY <1>2, <1>3, ConcatFacts
  <2>2. Len(ev \o rc) = Len(ev) + Len(rc)
    BY <1>2, <1>3, ConcatFacts
  <2>3. \A k \in 1..Len(ev) : (ev \o rc)[k] = ev[k]
    BY <1>2, <1>3, ConcatFacts
  <2>4. \A k \in 1..Len(rc) : (ev \o rc)[Len(ev) + k] = rc[k]
    BY <1>2, <1>3, ConcatFacts
  <2> QED
    BY <2>1, <2>2, <2>3, <2>4
<1>8. /\ a \in Seq(Events) /\ Len(a) = E + R + 1 /\ a[E + R + 1] = Snapshot
      /\ \A k \in 1..E : a[k] = ev[k]
      /\ R = 1 => a[E + 1] = rc[1]
  <2> DEFINE c == ev \o rc
  <2>1. c \in Seq(Events) /\ Len(c) = E + R /\ (\A k \in 1..E : c[k] = ev[k]) /\ (R = 1 => c[E + 1] = rc[1])
    BY <1>7
  <2>2. a = Append(c, Snapshot)
    BY <1>4, <1>5, <2>1
  <2> HIDE DEF c
  <2>3. /\ a \in Seq(Events) /\ Len(a) = Len(c) + 1 /\ a[Len(c) + 1] = Snapshot
        /\ \A i \in 1..Len(c) : a[i] = c[i]
    BY <1>4, <2>1, <2>2, AppendFacts
  <2>4. /\ \A k \in 1..E : k \in 1..Len(c)
        /\ R = 1 => E + 1 \in 1..Len(c)
    BY <1>6, <2>1
  <2> QED
    BY <2>1, <2>3, <2>4
<1>9. E + R \in Nat /\ Len(a) - 1 = E + R /\ Len(a) \in Nat \ {0}
  BY <1>6, <1>8
<1>10. \A i \in 1..Len(w) : w[i].seq > since => \E k \in 1..E : a[k] = w[i]
  <2> SUFFICES ASSUME NEW i \in 1..Len(w), w[i].seq > since PROVE \E k \in 1..E : a[k] = w[i]
    OBVIOUS
  <2>1. i \in DOMAIN w
    BY <1>1
  <2> HIDE DEF w, E
  <2>2. PICK k \in DOMAIN ev : ev[k] = w[i]
    BY <1>2, <2>1
  <2> QED
    BY <1>6, <1>8, <2>2
<1>11. ASSUME NEW k \in 1..(E + R)
       PROVE  \/ \E r \in 1..Len(records) : a[k] = records[r] /\ since < r
              \/ /\ rc # <<>> /\ a[k].seq = log.seq /\ a[k].kind = "stream"
                 /\ log.seq > since => \E i \in 1..(k - 1) : a[i].seq = log.seq
  <2>1. CASE k \in 1..E
    <3>1. a[k] = ev[k] /\ ev[k].seq > since
      BY <1>2, <1>6, <1>8, <2>1
    <3>2. PICK i \in 1..Len(w) : ev[k] = w[i]
      BY <1>1, <1>2, <1>6, <2>1
    <3>3. PICK r \in 1..Len(records) : w[i] = records[r]
      BY DEF JournalInv, WindowOf
    <3>4. records[r].seq = r
      BY DEF JournalInv, Journal
    <3>5. since < r
      BY <3>1, <3>2, <3>3, <3>4
    <3> QED
      BY <3>1, <3>2, <3>3, <3>5
  <2>2. CASE k = E + 1 /\ R = 1
    <3>1. rc # <<>> /\ a[k].seq = log.seq /\ a[k].kind = "stream"
      <4>1. Len(<<>>) # 1
        OBVIOUS
      <4>2. rc # <<>>
        BY <2>2, <4>1
      <4> QED
        BY <1>3, <1>8, <2>2, <4>2
    <3>2. ASSUME log.seq > since PROVE \E i \in 1..(k - 1) : a[i].seq = log.seq
      <4>1. Len(records) > 0
        BY <1>1, <3>2
      <4>2. Len(w) \in 1..Len(w) /\ w[Len(w)].seq = log.seq
        BY <4>1, WindowEnds
      <4>3. PICK i \in 1..E : a[i] = w[Len(w)]
        BY <1>10, <3>2, <4>2
      <4>4. i \in 1..(k - 1)
        BY <1>6, <2>2
      <4> QED
        BY <4>2, <4>3, <4>4
    <3> QED
      BY <3>1, <3>2
  <2> HIDE DEF E, R
  <2>3. k \in 1..E \/ (k = E + 1 /\ R = 1)
    BY <1>6
  <2> QED
    BY <2>1, <2>2, <2>3
<1>12. ASSUME \A i, j \in 1..Len(w) : i < j => w[i].seq < w[j].seq,
              NEW i \in 1..Len(w), NEW k \in 1..(E + R), since < w[i].seq, w[i].seq <= a[k].seq
       PROVE  \E h \in 1..k : a[h] = w[i]
  <2>1. PICK h \in 1..E : a[h] = w[i]
    BY <1>10, <1>12
  <2>2. CASE h <= k
    BY <2>1, <2>2
  <2>3. CASE h > k
    <3>1. k \in 1..E
      BY <1>6, <2>3
    <3>2. ev[k].seq < ev[h].seq
      BY <1>1, <1>2, <1>6, <1>12, <2>3, <3>1
    <3>3. a[k] = ev[k] /\ a[h] = ev[h]
      BY <1>8, <3>1
    <3>4. ev[k].seq \in Nat /\ ev[h].seq \in Nat
      <4>1. ev[k] \in Events /\ ev[h] \in Events
        BY <1>2, <3>1
      <4> QED
        BY <4>1 DEF Events
    <3> QED
      BY <1>12, <2>1, <3>2, <3>3, <3>4
  <2> QED
    BY <2>2, <2>3
<1>13. \A i \in 1..Len(w) : w[i].seq > since => \E k \in 1..(E + R) : a[k] = w[i]
  <2>1. \A k \in 1..E : k \in 1..(E + R)
    BY <1>6
  <2> QED
    BY <1>10, <2>1
<1> HIDE DEF E, R, w
<1>14. a[Len(a)] = Snapshot
  BY <1>8
<1>15. /\ a \in Seq(Events) /\ Len(a) \in Nat \ {0}
       /\ \A k \in 1..(Len(a) - 1) :
             \/ \E r \in 1..Len(records) : a[k] = records[r] /\ since < r
             \/ /\ rc # <<>> /\ a[k].seq = log.seq /\ a[k].kind = "stream"
                /\ log.seq > since => \E i \in 1..(k - 1) : a[i].seq = log.seq
       /\ \A i \in 1..Len(w) : w[i].seq > since => \E k \in 1..(Len(a) - 1) : a[k] = w[i]
  BY <1>8, <1>9, <1>11, <1>13
<1>16. (\A i, j \in 1..Len(w) : i < j => w[i].seq < w[j].seq) =>
          \A i \in 1..Len(w), k \in 1..(Len(a) - 1) :
             since < w[i].seq /\ w[i].seq <= a[k].seq => \E h \in 1..k : a[h] = w[i]
  BY <1>9, <1>12
<1>17. Answers(a, since, offset)
  BY <1>14, <1>15, <1>16 DEF Answers, w, rc
<1> QED
  BY <1>17 DEF a

-----------------------------------------------------------------------------
(* Types.                                                                  *)

IsEvent(f) == f.type = "event"
IsStatus(f) == f.type = "event" /\ f.event.kind = "status"
IsSnapshot(f) == f.type = "event" /\ f.via = "snapshot"
Greets(f) == f.type \in {"registered", "peer_online"}

\* Every status on its way carries an id.
Bodied(q) == \A j \in 1..Len(q) : IsStatus(q[j]) => Len(q[j].event.body) = 1
BodiesInv == \A b \in Browsers : Bodied(inbox[b])

NetTypes ==
    /\ link \in {"none", "stale", "registering", "up"}
    /\ verifying \in [Browsers -> Seq(Resumes)] /\ toDaemon \in [Browsers -> Seq(Commands)]
    /\ inbox \in [Browsers -> Seq(Frames)]
    /\ registered \subseteq Browsers /\ awaiting \subseteq registered
    /\ \A b \in Browsers \ registered : inbox[b] = <<>>

PageTypes ==
    /\ highestSeq \in [Browsers -> Nat] /\ toolOffset \in [Browsers -> Nat]
    /\ seen \in [Browsers -> Seq(Ids)] /\ shownStatus \in [Browsers -> Ids]

CountTypes ==
    /\ drops \in Nat /\ restarts \in Nat /\ lost \in Nat
    /\ raced \cup doubled \cup misled \subseteq Browsers

LEMMA TypeParts == TypeOK <=> LogTypes /\ NetTypes /\ PageTypes /\ CountTypes
  BY DEF TypeOK, LogTypes, Bounded, NetTypes, PageTypes, CountTypes

LEMMA PlainTypes ==
    /\ \A t \in {"registered", "peer_online", "ack"} : Plain(t) \in Frames /\ ~IsEvent(Plain(t))
    /\ Hello \in Commands
    /\ \A since, offset \in Nat : Resume(since, offset) \in Commands
    /\ \A c \in Commands : c.type = "resume" => c \in Resumes
    /\ Resumes \subseteq Commands
<1>1. \A t \in {"registered", "peer_online", "ack"} : Plain(t) \in Frames /\ ~IsEvent(Plain(t))
  BY DEF Plain, Frames, IsEvent
<1>2. Hello \in Commands
  BY DEF Hello, Commands
<1>3. \A since, offset \in Nat : Resume(since, offset) \in Commands
  BY DEF Resume, Commands, Resumes
<1>4. (\A c \in Commands : c.type = "resume" => c \in Resumes) /\ Resumes \subseteq Commands
  BY DEF Commands
<1> QED
  BY <1>1, <1>2, <1>3, <1>4

LEMMA EventFrameTypes ==
    ASSUME NEW e \in Events, NEW via \in {"live", "answer", "snapshot", "stale"}
    PROVE  /\ EventFrame(e, via) \in Frames /\ IsEvent(EventFrame(e, via))
           /\ EventFrame(e, via).event = e /\ EventFrame(e, via).via = via
  BY DEF EventFrame, Frames, IsEvent

LEMMA FrameTypes ==
    ASSUME NEW f \in Frames
    PROVE  /\ f.type \in {"registered", "peer_online", "ack", "event"}
           /\ IsEvent(f) => f.event \in Events /\ f.via \in {"live", "answer", "snapshot", "stale"}
  BY DEF Frames, IsEvent

LEMMA Sent ==
    ASSUME NetTypes, NEW b \in Browsers, NEW frames \in Seq(Frames), SendTo(b, frames)
    PROVE  /\ inbox' \in [Browsers -> Seq(Frames)]
           /\ \A c \in Browsers : inbox'[c] = IF c = b /\ Reaches(b) THEN inbox[c] \o frames ELSE inbox[c]
           /\ \A c \in Browsers \ registered : inbox'[c] = <<>>
<1>1. inbox \in [Browsers -> Seq(Frames)] /\ \A c \in Browsers \ registered : inbox[c] = <<>>
  BY DEF NetTypes
<1>2. inbox[b] \o frames \in Seq(Frames)
  BY <1>1, ConcatFacts
<1>3. inbox' = IF Reaches(b) THEN [inbox EXCEPT ![b] = inbox[b] \o frames] ELSE inbox
  BY DEF SendTo
<1>4. Reaches(b) => b \in registered
  BY DEF Reaches
<1> QED
  BY <1>1, <1>2, <1>3, <1>4

LEMMA Read ==
    ASSUME NetTypes, NEW b \in Browsers, inbox[b] # <<>>, inbox' = [inbox EXCEPT ![b] = Tail(@)]
    PROVE  /\ inbox' \in [Browsers -> Seq(Frames)]
           /\ \A c \in Browsers : inbox'[c] = IF c = b THEN Tail(inbox[c]) ELSE inbox[c]
           /\ \A c \in Browsers \ registered : inbox'[c] = <<>>
           /\ b \in registered /\ Head(inbox[b]) \in Frames
<1>1. inbox \in [Browsers -> Seq(Frames)] /\ \A c \in Browsers \ registered : inbox[c] = <<>>
  BY DEF NetTypes
<1>2. Tail(inbox[b]) \in Seq(Frames) /\ Head(inbox[b]) \in Frames /\ b \in registered
  BY <1>1, TailFacts
<1> QED
  BY <1>1, <1>2

LEMMA OutliveTypes ==
    ASSUME NEW s \in Seq(Commands), NEW n \in 0..Len(s)
    PROVE  /\ Outlive(s, n) \in Seq(Commands) /\ Len(Outlive(s, n)) = n
           /\ \A i \in 1..n : Outlive(s, n)[i] = [s[i] EXCEPT !.fresh = FALSE]
           /\ s \in Seq(Resumes) => Outlive(s, n) \in Seq(Resumes)
<1>1. \A i \in 1..n : i \in 1..Len(s) /\ s[i] \in Commands
  OBVIOUS
<1>2. \A c \in Resumes : [c EXCEPT !.fresh = FALSE] \in Resumes
  BY DEF Resumes
<1>3. \A c \in Commands : [c EXCEPT !.fresh = FALSE] \in Commands
  BY <1>2 DEF Commands
<1>4. n \in Nat
  OBVIOUS
<1>5. Outlive(s, n) = [i \in 1..n |-> [s[i] EXCEPT !.fresh = FALSE]]
  BY DEF Outlive
<1>6. Outlive(s, n) \in [1..n -> Commands]
  BY <1>1, <1>3, <1>5
<1>7. s \in Seq(Resumes) => Outlive(s, n) \in [1..n -> Resumes]
  BY <1>1, <1>2, <1>5
<1>8. \A T : Outlive(s, n) \in [1..n -> T] => Outlive(s, n) \in Seq(T) /\ Len(Outlive(s, n)) = n
  BY <1>4
<1>9. \A i \in 1..n : Outlive(s, n)[i] = [s[i] EXCEPT !.fresh = FALSE]
  BY <1>5, SMTT(40)
<1> QED
  BY <1>6, <1>7, <1>8, <1>9

\* The answer, frame by frame.
LEMMA AnswerFrames ==
    ASSUME TypeOK, JournalInv, NEW b \in Browsers, AnswerResume(b)
    PROVE  /\ verifying[b] # <<>> /\ Head(verifying[b]) \in Resumes
           /\ \E a \in Seq(Events), frames \in Seq(Frames) :
                 /\ Answers(a, Head(verifying[b]).since, Head(verifying[b]).offset)
                 /\ SendTo(b, frames) /\ Len(frames) = Len(a)
                 /\ \A k \in 1..Len(a) : /\ IsEvent(frames[k]) /\ frames[k].event = a[k]
                                         /\ IsSnapshot(frames[k]) <=> Head(verifying[b]).fresh /\ k = Len(a)
                                         /\ frames[k].via = "stale" <=> ~Head(verifying[b]).fresh
<1> DEFINE cmd == Head(verifying[b])
           a == Backfill(cmd.since, cmd.offset)
           via(i) == IF ~cmd.fresh THEN "stale" ELSE IF i < Len(a) THEN "answer" ELSE "snapshot"
           frames == [i \in DOMAIN a |-> EventFrame(a[i], via(i))]
<1>1. verifying[b] # <<>> /\ verifying[b] \in Seq(Resumes) /\ SendTo(b, frames)
  BY DEF AnswerResume, TypeOK
<1>2. cmd \in Resumes
  BY <1>1, TailFacts
<1>3. cmd.since \in Nat /\ cmd.offset \in Nat
  BY <1>2 DEF Resumes
<1> HIDE DEF cmd
<1>4. a \in Seq(Events) /\ Len(a) \in Nat \ {0}
  <2>1. Answers(a, cmd.since, cmd.offset)
    BY <1>3, AnswerFacts
  <2> HIDE DEF a
  <2> QED
    BY <2>1 DEF Answers
<1> HIDE DEF a
<1>5. DOMAIN a = 1..Len(a) /\ \A i \in 1..Len(a) : a[i] \in Events
  BY <1>4
<1>6. \A i \in 1..Len(a) : via(i) \in {"live", "answer", "snapshot", "stale"}
  OBVIOUS
<1>7. \A i \in 1..Len(a) : /\ via(i) = "snapshot" <=> cmd.fresh /\ i = Len(a)
                           /\ via(i) = "stale" <=> ~cmd.fresh
  BY <1>4
<1> HIDE DEF via
<1>8. \A i \in 1..Len(a) : /\ EventFrame(a[i], via(i)) \in Frames /\ IsEvent(EventFrame(a[i], via(i)))
                           /\ EventFrame(a[i], via(i)).event = a[i] /\ EventFrame(a[i], via(i)).via = via(i)
  BY <1>5, <1>6, EventFrameTypes
<1>9. frames \in [1..Len(a) -> Frames] /\ \A i \in 1..Len(a) : frames[i] = EventFrame(a[i], via(i))
  BY <1>5, <1>8
<1> HIDE DEF frames
<1>10. frames \in Seq(Frames) /\ Len(frames) = Len(a)
  BY <1>4, <1>9
<1>11. \A k \in 1..Len(a) : /\ IsEvent(frames[k]) /\ frames[k].event = a[k]
                            /\ IsSnapshot(frames[k]) <=> cmd.fresh /\ k = Len(a)
                            /\ frames[k].via = "stale" <=> ~cmd.fresh
  <2> SUFFICES ASSUME NEW k \in 1..Len(a)
               PROVE  /\ IsEvent(frames[k]) /\ frames[k].event = a[k]
                      /\ IsSnapshot(frames[k]) <=> cmd.fresh /\ k = Len(a)
                      /\ frames[k].via = "stale" <=> ~cmd.fresh
    OBVIOUS
  <2>1. IsEvent(frames[k]) /\ frames[k].event = a[k] /\ frames[k].via = via(k)
    BY <1>8, <1>9
  <2> QED
    BY <1>7, <2>1 DEF IsSnapshot, IsEvent
<1>12. Answers(a, cmd.since, cmd.offset)
  BY <1>3, AnswerFacts DEF a
<1> QED
  BY <1>1, <1>2, <1>4, <1>10, <1>11, <1>12, Zenon DEF cmd, frames

LEMMA ApplyTypes ==
    ASSUME PageTypes, NEW b \in Browsers, NEW e \in Events, e.kind = "status" => Len(e.body) = 1, Apply(b, e)
    PROVE  PageTypes'
<1>1. e.seq \in Nat /\ e.offset + Len(e.body) \in Nat /\ e.body \in Seq(Ids)
  BY DEF Events
<1>2. e.kind = "status" => e.body[1] \in Ids
  BY <1>1
<1>3. /\ highestSeq[b] \in Nat /\ toolOffset[b] \in Nat /\ seen[b] \in Seq(Ids)
      /\ highestSeq \in [Browsers -> Nat] /\ toolOffset \in [Browsers -> Nat]
      /\ seen \in [Browsers -> Seq(Ids)] /\ shownStatus \in [Browsers -> Ids]
  BY DEF PageTypes
<1>4. CASE e.kind # "status" /\ e.seq <= highestSeq[b]
  BY <1>4 DEF Apply, pageVars, PageTypes
<1>5. CASE ~(e.kind # "status" /\ e.seq <= highestSeq[b])
  <2>1. highestSeq' \in [Browsers -> Nat]
    BY <1>1, <1>3, <1>5 DEF Apply
  <2>2. toolOffset' \in [Browsers -> Nat]
    <3> DEFINE next == e.offset + Len(e.body)
    <3>1. toolOffset' = [toolOffset EXCEPT ![b] = IF e.kind = "stream" /\ next > @ THEN next ELSE @]
      BY <1>5 DEF Apply
    <3>2. next \in Nat
      BY <1>1
    <3> HIDE DEF next
    <3> QED
      BY <1>3, <3>1, <3>2
  <2>3. CASE e.kind = "status"
    <3>1. shownStatus' \in [Browsers -> Ids] /\ seen' = seen
      BY <1>2, <1>3, <1>5, <2>3 DEF Apply
    <3> QED
      BY <1>3, <2>1, <2>2, <3>1 DEF PageTypes
  <2>4. CASE e.kind # "status"
    <3>1. seen[b] \o e.body \in Seq(Ids)
      BY <1>1, <1>3, ConcatFacts
    <3>2. seen' = [seen EXCEPT ![b] = seen[b] \o e.body] /\ shownStatus' = shownStatus
      BY <1>5, <2>4 DEF Apply
    <3> QED
      BY <1>3, <2>1, <2>2, <3>1, <3>2 DEF PageTypes
  <2> QED
    BY <2>3, <2>4
<1> QED
  BY <1>4, <1>5

LEMMA BroadcastTypes ==
    ASSUME NetTypes, NEW e \in Events, Broadcast(e)
    PROVE  /\ inbox' \in [Browsers -> Seq(Frames)]
           /\ \A c \in Browsers : inbox'[c] = IF Reaches(c) THEN Append(inbox[c], EventFrame(e, "live"))
                                              ELSE inbox[c]
           /\ \A c \in Browsers \ registered : inbox'[c] = <<>>
<1>1. inbox \in [Browsers -> Seq(Frames)] /\ \A c \in Browsers \ registered : inbox[c] = <<>>
  BY DEF NetTypes
<1>2. EventFrame(e, "live") \in Frames
  BY EventFrameTypes
<1>3. \A c \in Browsers : Append(inbox[c], EventFrame(e, "live")) \in Seq(Frames)
  BY <1>1, <1>2, AppendFacts
<1>4. inbox' = [b \in Browsers |-> IF Reaches(b) THEN Append(inbox[b], EventFrame(e, "live")) ELSE inbox[b]]
  BY DEF Broadcast
<1>5. \A c \in Browsers : Reaches(c) => c \in registered
  BY DEF Reaches
<1> QED
  BY <1>1, <1>3, <1>4, <1>5

LEMMA StepKeepsNetTypes ==
    ASSUME TypeOK, JournalInv, BodiesInv, [Next]_vars
    PROVE  NetTypes' /\ PageTypes' /\ CountTypes'
<1>1. NetTypes /\ PageTypes /\ CountTypes
  BY TypeParts
<1>2. CASE UNCHANGED vars
  BY <1>1, <1>2 DEF vars, netVars, pageVars, history, NetTypes, PageTypes, CountTypes
<1>3. ASSUME NEW kind \in PushKinds, Push(kind) PROVE NetTypes' /\ PageTypes' /\ CountTypes'
  <2>1. PICK e \in Events : Broadcast(e)
    BY <1>3, PushFacts
  <2>2. inbox' \in [Browsers -> Seq(Frames)] /\ \A c \in Browsers \ registered : inbox'[c] = <<>>
    BY <1>1, <2>1, BroadcastTypes
  <2>3. UNCHANGED <<link, verifying, toDaemon, registered, pageVars, drops, restarts, lost, history>>
    BY <1>3 DEF Push
  <2> QED
    BY <1>1, <2>2, <2>3 DEF pageVars, history, NetTypes, PageTypes, CountTypes
<1>4. ASSUME NEW b \in Browsers, ReceiveHello(b) PROVE NetTypes' /\ PageTypes' /\ CountTypes'
  <2>1. <<Plain("ack")>> \in Seq(Frames) /\ SendTo(b, <<Plain("ack")>>)
    BY <1>4, PlainTypes DEF ReceiveHello
  <2>2. inbox' \in [Browsers -> Seq(Frames)] /\ \A c \in Browsers \ registered : inbox'[c] = <<>>
    BY <1>1, <2>1, Sent
  <2>3. Tail(toDaemon[b]) \in Seq(Commands)
    BY <1>1, <1>4, TailFacts DEF NetTypes, ReceiveHello
  <2>4. toDaemon' \in [Browsers -> Seq(Commands)]
    BY <1>1, <1>4, <2>3 DEF NetTypes, ReceiveHello
  <2>5. UNCHANGED <<link, verifying, registered, pageVars, drops, restarts, lost, history>>
    BY <1>4 DEF ReceiveHello
  <2> QED
    BY <1>1, <2>2, <2>4, <2>5 DEF pageVars, history, NetTypes, PageTypes, CountTypes
<1>5. ASSUME NEW b \in Browsers, ReceiveResume(b) PROVE NetTypes' /\ PageTypes' /\ CountTypes'
  <2>1. Tail(toDaemon[b]) \in Seq(Commands) /\ Head(toDaemon[b]) \in Commands
    BY <1>1, <1>5, TailFacts DEF NetTypes, ReceiveResume
  <2>2. Head(toDaemon[b]) \in Resumes
    BY <1>5, <2>1, PlainTypes DEF ReceiveResume
  <2>3. Append(verifying[b], Head(toDaemon[b])) \in Seq(Resumes)
    BY <1>1, <2>2, AppendFacts DEF NetTypes
  <2>4. toDaemon' \in [Browsers -> Seq(Commands)] /\ verifying' \in [Browsers -> Seq(Resumes)]
    BY <1>1, <1>5, <2>1, <2>3 DEF NetTypes, ReceiveResume
  <2>5. UNCHANGED <<link, inbox, registered, pageVars, drops, restarts, lost, history>>
    BY <1>5 DEF ReceiveResume
  <2> QED
    BY <1>1, <2>4, <2>5 DEF pageVars, history, NetTypes, PageTypes, CountTypes
<1>6. ASSUME NEW b \in Browsers, AnswerResume(b) PROVE NetTypes' /\ PageTypes' /\ CountTypes'
  <2>1. PICK frames \in Seq(Frames) : SendTo(b, frames)
    BY <1>6, AnswerFrames
  <2>2. inbox' \in [Browsers -> Seq(Frames)] /\ \A c \in Browsers \ registered : inbox'[c] = <<>>
    BY <1>1, <2>1, Sent
  <2>3. Tail(verifying[b]) \in Seq(Resumes)
    BY <1>1, <1>6, TailFacts DEF NetTypes, AnswerResume
  <2>4. verifying' \in [Browsers -> Seq(Resumes)]
    BY <1>1, <1>6, <2>3 DEF NetTypes, AnswerResume
  <2>5. /\ UNCHANGED <<link, toDaemon, registered, pageVars, drops, restarts, lost, awaiting, raced>>
        /\ misled' \subseteq misled \cup {b} /\ doubled' \subseteq doubled \cup {b}
    BY <1>6 DEF AnswerResume
  <2> QED
    BY <1>1, <2>2, <2>4, <2>5 DEF pageVars, history, NetTypes, PageTypes, CountTypes
<1>7. ASSUME NEW b \in Browsers, BrowserConnect(b) PROVE NetTypes' /\ PageTypes' /\ CountTypes'
  <2>1. <<Plain("registered")>> \in Seq(Frames)
    BY PlainTypes
  <2>2. /\ inbox' = [inbox EXCEPT ![b] = <<Plain("registered")>>] /\ registered' = registered \cup {b}
        /\ UNCHANGED <<link, verifying, toDaemon, pageVars, drops, restarts, lost, history>>
    BY <1>7 DEF BrowserConnect
  <2> QED
    BY <1>1, <2>1, <2>2 DEF pageVars, history, NetTypes, PageTypes, CountTypes
<1>8. ASSUME NEW b \in Browsers, NEW type, SayHello(b, type) PROVE NetTypes' /\ PageTypes' /\ CountTypes'
  <2>1. /\ inbox' \in [Browsers -> Seq(Frames)] /\ b \in registered
        /\ \A c \in Browsers \ registered : inbox'[c] = <<>>
    BY <1>1, <1>8, Read DEF SayHello, Reading
  <2>2. Append(toDaemon[b], Hello) \in Seq(Commands)
    BY <1>1, PlainTypes, AppendFacts DEF NetTypes
  <2>3. toDaemon' \in [Browsers -> Seq(Commands)]
    BY <1>1, <1>8, <2>2 DEF NetTypes, SayHello
  <2>4. /\ UNCHANGED <<link, verifying, registered, pageVars, drops, restarts, lost, raced, doubled, misled>>
        /\ awaiting' = awaiting \cup {b}
    BY <1>8 DEF SayHello
  <2> QED
    BY <1>1, <2>1, <2>3, <2>4 DEF pageVars, NetTypes, PageTypes, CountTypes
<1>9. ASSUME NEW b \in Browsers, OnAck(b) PROVE NetTypes' /\ PageTypes' /\ CountTypes'
  <2>1. inbox' \in [Browsers -> Seq(Frames)] /\ \A c \in Browsers \ registered : inbox'[c] = <<>>
    BY <1>1, <1>9, Read DEF OnAck, Reading
  <2>2. Resume(highestSeq[b], toolOffset[b]) \in Commands
    BY <1>1, PlainTypes DEF PageTypes
  <2>3. Append(toDaemon[b], Resume(highestSeq[b], toolOffset[b])) \in Seq(Commands)
    BY <1>1, <2>2, AppendFacts DEF NetTypes
  <2>4. toDaemon' \in [Browsers -> Seq(Commands)]
    BY <1>1, <1>9, <2>3 DEF NetTypes, OnAck
  <2>5. UNCHANGED <<link, verifying, registered, pageVars, drops, restarts, lost, history>>
    BY <1>9 DEF OnAck
  <2> QED
    BY <1>1, <2>1, <2>4, <2>5 DEF pageVars, history, NetTypes, PageTypes, CountTypes
<1>10. ASSUME NEW b \in Browsers, OnEvent(b) PROVE NetTypes' /\ PageTypes' /\ CountTypes'
  <2> DEFINE f == Head(inbox[b])
  <2>1. inbox[b] # <<>> /\ f.type = "event" /\ inbox' = [inbox EXCEPT ![b] = Tail(@)] /\ Apply(b, f.event)
    BY <1>10 DEF OnEvent, Reading
  <2>2. /\ inbox' \in [Browsers -> Seq(Frames)] /\ f \in Frames
        /\ \A c \in Browsers \ registered : inbox'[c] = <<>>
    BY <1>1, <2>1, Read
  <2>3. f.event \in Events
    BY <2>1, <2>2, FrameTypes DEF IsEvent
  <2>4. f.event.kind = "status" => Len(f.event.body) = 1
    <3>1. 1 \in 1..Len(inbox[b]) /\ f = inbox[b][1]
      BY <1>1, <2>1, TailFacts DEF NetTypes
    <3> QED
      BY <2>1, <3>1 DEF BodiesInv, Bodied, IsStatus
  <2>5. PageTypes'
    <3> HIDE DEF f
    <3> QED
      BY <1>1, <2>1, <2>3, <2>4, ApplyTypes
  <2>6. /\ UNCHANGED <<link, verifying, toDaemon, registered, drops, restarts, lost, doubled, misled>>
        /\ awaiting' \subseteq awaiting /\ raced' \subseteq raced \cup awaiting
    BY <1>10 DEF OnEvent
  <2> QED
    BY <1>1, <2>2, <2>5, <2>6 DEF NetTypes, CountTypes
<1>11. ASSUME NEW b \in Browsers, BrowserDrop(b) PROVE NetTypes' /\ PageTypes' /\ CountTypes'
  <2>1. PICK n \in 0..Len(toDaemon[b]) : toDaemon' = [toDaemon EXCEPT ![b] = Outlive(@, n)]
    BY <1>11 DEF BrowserDrop
  <2>2. toDaemon[b] \in Seq(Commands) /\ verifying[b] \in Seq(Resumes)
    BY <1>1 DEF NetTypes
  <2>3. Outlive(toDaemon[b], n) \in Seq(Commands)
    BY <2>2, OutliveTypes
  <2>4. Outlive(verifying[b], Len(verifying[b])) \in Seq(Resumes)
    <3>1. verifying[b] \in Seq(Commands) /\ Len(verifying[b]) \in 0..Len(verifying[b])
      BY <2>2, PlainTypes
    <3> QED
      BY <2>2, <3>1, OutliveTypes
  <2>5. /\ toDaemon' \in [Browsers -> Seq(Commands)] /\ verifying' \in [Browsers -> Seq(Resumes)]
        /\ inbox' = [inbox EXCEPT ![b] = <<>>] /\ registered' = registered \ {b} /\ awaiting' = awaiting \ {b}
        /\ link' = link /\ drops' = drops + 1 /\ restarts' = restarts /\ lost' = lost
        /\ raced' \subseteq raced /\ doubled' \subseteq doubled /\ misled' \subseteq misled
    BY <1>1, <1>11, <2>1, <2>3, <2>4 DEF BrowserDrop, NetTypes
  <2>6. <<>> \in Seq(Frames) /\ <<>> \in Seq(Ids) /\ 0 \in Ids /\ 0 \in Nat
    BY DEF Ids
  <2>7. PageTypes'
    <3>1. CASE UNCHANGED pageVars
      BY <1>1, <3>1 DEF pageVars, PageTypes
    <3>2. CASE /\ highestSeq' = [highestSeq EXCEPT ![b] = 0] /\ toolOffset' = [toolOffset EXCEPT ![b] = 0]
               /\ seen' = [seen EXCEPT ![b] = <<>>] /\ shownStatus' = [shownStatus EXCEPT ![b] = 0]
      <4>1. highestSeq' \in [Browsers -> Nat] /\ toolOffset' \in [Browsers -> Nat]
        BY <1>1, <2>6, <3>2 DEF PageTypes
      <4>2. seen' \in [Browsers -> Seq(Ids)] /\ shownStatus' \in [Browsers -> Ids]
        BY <1>1, <2>6, <3>2 DEF PageTypes
      <4> QED
        BY <4>1, <4>2 DEF PageTypes
    <3> QED
      BY <1>11, <3>1, <3>2 DEF BrowserDrop
  <2>8. NetTypes'
    BY <1>1, <2>5, <2>6 DEF NetTypes
  <2> QED
    BY <1>1, <2>5, <2>7, <2>8 DEF CountTypes
<1>12. ASSUME NEW b \in Browsers, RelayLoses(b) PROVE NetTypes' /\ PageTypes' /\ CountTypes'
  <2>1. Tail(toDaemon[b]) \in Seq(Commands)
    BY <1>1, <1>12, TailFacts DEF NetTypes, RelayLoses
  <2> QED
    BY <1>1, <1>12, <2>1 DEF RelayLoses, pageVars, history, NetTypes, PageTypes, CountTypes
<1>13. CASE LinkDrop
  BY <1>1, <1>13 DEF LinkDrop, pageVars, history, NetTypes, PageTypes, CountTypes
<1>14. CASE DaemonReconnect
  <2>1. \A b \in Browsers : Append(inbox[b], Plain("peer_online")) \in Seq(Frames)
    BY <1>1, PlainTypes, AppendFacts DEF NetTypes
  <2> QED
    BY <1>1, <1>14, <2>1 DEF DaemonReconnect, pageVars, history, NetTypes, PageTypes, CountTypes
<1>15. CASE DaemonRegistered
  BY <1>1, <1>15 DEF DaemonRegistered, pageVars, history, NetTypes, PageTypes, CountTypes
<1>16. CASE Restart
  <2>1. PICK n \in flushed..Len(records), kinds \in StartKinds : lost' = lost + Len(records) - n
    BY <1>16 DEF Restart
  <2>2. lost' \in Nat
    BY <1>1, <2>1 DEF TypeOK, CountTypes
  <2>3. <<>> \in Seq(Resumes)
    OBVIOUS
  <2>4. verifying' \in [Browsers -> Seq(Resumes)]
    BY <1>16, <2>3 DEF Restart
  <2>5. /\ link' \in {"none", "stale"} /\ restarts' = restarts + 1
        /\ UNCHANGED <<toDaemon, inbox, registered, pageVars, drops, history>>
    BY <1>16 DEF Restart
  <2> QED
    BY <1>1, <2>2, <2>4, <2>5 DEF pageVars, history, NetTypes, PageTypes, CountTypes
<1> QED
  BY <1>2, <1>3, <1>4, <1>5, <1>6, <1>7, <1>8, <1>9, <1>10, <1>11, <1>12, <1>13, <1>14, <1>15, <1>16
  DEF Next, DaemonStep, BrowserStep, NetworkStep, OnRegistered, OnPeerOnline

-----------------------------------------------------------------------------
(* What a step is to one page.                                             *)

Untouched(b) ==
    /\ highestSeq'[b] = highestSeq[b] /\ seen'[b] = seen[b] /\ shownStatus'[b] = shownStatus[b]
    /\ b \in awaiting' <=> b \in awaiting
    /\ b \in registered' <=> b \in registered
    /\ b \in raced' <=> b \in raced
    /\ b \in doubled => b \in doubled'
    /\ b \in misled => b \in misled'

\* Nothing reaches it; what the session pushes meanwhile is pushed while it is cut off.
Quiet(b) ==
    /\ Untouched(b)
    /\ inbox'[b] = inbox[b]
    /\ link' = "registering" /\ b \in registered => link = "registering"
    /\ link' = "up" => link \in {"up", "registering"}
    /\ link' = "up" /\ b \in registered => UNCHANGED logVars

\* It is sent an ack, or told that the daemon is back.
Noted(b) ==
    /\ Untouched(b) /\ UNCHANGED logVars /\ b \in registered
    /\ \/ inbox'[b] = Append(inbox[b], Plain("ack")) /\ link = "up" /\ link' = "up"
       \/ inbox'[b] = Append(inbox[b], Plain("peer_online")) /\ link' = "registering"

\* It is sent an event as it is pushed.
Pushed(b) ==
    /\ Untouched(b) /\ Reaches(b) /\ link' = link
    /\ \E e \in Events :
          /\ inbox'[b] = Append(inbox[b], EventFrame(e, "live"))
          /\ records' = Append(records, e) /\ e.seq = Len(records) + 1 /\ e.body = <<produced + 1>>
          /\ produced' = produced + 1
          /\ status' = IF e.kind = "status" THEN produced + 1 ELSE status

LEMMA StepKinds ==
    ASSUME TypeOK, JournalInv, [Next]_vars, NEW b \in Browsers
    PROVE  \/ Quiet(b) \/ Noted(b) \/ Pushed(b) \/ (AnswerResume(b) /\ Reaches(b))
           \/ SayHello(b, "registered") \/ SayHello(b, "peer_online") \/ OnAck(b) \/ OnEvent(b)
           \/ BrowserConnect(b) \/ BrowserDrop(b)
<1> DEFINE Kinded == \/ Quiet(b) \/ Noted(b) \/ Pushed(b) \/ (AnswerResume(b) /\ Reaches(b))
                     \/ SayHello(b, "registered") \/ SayHello(b, "peer_online") \/ OnAck(b) \/ OnEvent(b)
                     \/ BrowserConnect(b) \/ BrowserDrop(b)
<1>1. NetTypes /\ PageTypes /\ inbox \in [Browsers -> Seq(Frames)]
  BY TypeParts DEF NetTypes
<1>2. CASE UNCHANGED vars
  BY <1>2 DEF vars, logVars, netVars, pageVars, history, Quiet, Untouched
<1>3. ASSUME NEW kind \in PushKinds, Push(kind) PROVE Kinded
  <2>1. PICK e \in Events :
            /\ e.kind = kind /\ e.seq = Len(records) + 1 /\ e.body = <<produced + 1>>
            /\ records' = Append(records, e) /\ Broadcast(e)
    BY <1>3, PushFacts
  <2>2. inbox'[b] = IF Reaches(b) THEN Append(inbox[b], EventFrame(e, "live")) ELSE inbox[b]
    BY <1>1, <2>1, BroadcastTypes
  <2>3. /\ Untouched(b) /\ link' = link /\ produced' = produced + 1
        /\ status' = IF kind = "status" THEN produced + 1 ELSE status
    BY <1>3 DEF Push, Untouched, pageVars, history
  <2>4. CASE Reaches(b)
    BY <2>1, <2>2, <2>3, <2>4 DEF Pushed
  <2>5. CASE ~Reaches(b)
    BY <2>2, <2>3, <2>5 DEF Quiet, Reaches
  <2> QED
    BY <2>4, <2>5
<1>4. ASSUME NEW c \in Browsers, ReceiveHello(c) PROVE Kinded
  <2>1. <<Plain("ack")>> \in Seq(Frames) /\ SendTo(c, <<Plain("ack")>>) /\ Plain("ack") \in Frames
    BY <1>4, PlainTypes DEF ReceiveHello
  <2>2. inbox'[b] = IF b = c /\ Reaches(c) THEN inbox[b] \o <<Plain("ack")>> ELSE inbox[b]
    BY <1>1, <2>1, Sent
  <2>3. inbox[b] \o <<Plain("ack")>> = Append(inbox[b], Plain("ack"))
    BY <1>1, <2>1
  <2>4. Untouched(b) /\ UNCHANGED logVars /\ link' = link /\ link = "up"
    BY <1>4 DEF ReceiveHello, Untouched, pageVars, history
  <2>5. CASE b = c /\ Reaches(c)
    BY <2>2, <2>3, <2>4, <2>5 DEF Noted, Reaches
  <2>6. CASE ~(b = c /\ Reaches(c))
    BY <2>2, <2>4, <2>6 DEF Quiet
  <2> QED
    BY <2>5, <2>6
<1>5. ASSUME NEW c \in Browsers, ReceiveResume(c) PROVE Kinded
  BY <1>5 DEF ReceiveResume, Quiet, Untouched, pageVars, history
<1>6. ASSUME NEW c \in Browsers, AnswerResume(c) PROVE Kinded
  <2>1. PICK frames \in Seq(Frames) : SendTo(c, frames)
    BY <1>6, AnswerFrames
  <2>2. inbox'[b] = IF b = c /\ Reaches(c) THEN inbox[b] \o frames ELSE inbox[b]
    BY <1>1, <2>1, Sent
  <2>3. Untouched(b) /\ UNCHANGED logVars /\ link' = link
    BY <1>6 DEF AnswerResume, Untouched, pageVars
  <2>4. CASE b = c /\ Reaches(c)
    BY <1>6, <2>4
  <2>5. CASE ~(b = c /\ Reaches(c))
    BY <2>2, <2>3, <2>5 DEF Quiet
  <2> QED
    BY <2>4, <2>5
<1>7. ASSUME NEW c \in Browsers, BrowserConnect(c) PROVE Kinded
  <2>1. CASE b # c
    BY <1>1, <1>7, <2>1 DEF BrowserConnect, Quiet, Untouched, pageVars, history
  <2> QED
    BY <1>7, <2>1
<1>8. ASSUME NEW c \in Browsers, NEW type \in {"registered", "peer_online"}, SayHello(c, type) PROVE Kinded
  <2>1. CASE b # c
    BY <1>1, <1>8, <2>1 DEF SayHello, Quiet, Untouched, pageVars
  <2> QED
    BY <1>8, <2>1
<1>9. ASSUME NEW c \in Browsers, OnAck(c) PROVE Kinded
  <2>1. CASE b # c
    BY <1>1, <1>9, <2>1 DEF OnAck, Quiet, Untouched, pageVars, history
  <2> QED
    BY <1>9, <2>1
<1>10. ASSUME NEW c \in Browsers, OnEvent(c) PROVE Kinded
  <2>1. CASE b # c
    <3>1. highestSeq'[b] = highestSeq[b] /\ seen'[b] = seen[b] /\ shownStatus'[b] = shownStatus[b]
      BY <1>1, <1>10, <2>1 DEF OnEvent, Apply, pageVars, PageTypes
    <3>2. /\ inbox'[b] = inbox[b] /\ UNCHANGED <<logVars, link, registered, doubled, misled>>
          /\ b \in awaiting' <=> b \in awaiting
          /\ b \in raced' <=> b \in raced
      BY <1>1, <1>10, <2>1 DEF OnEvent
    <3> QED
      BY <3>1, <3>2 DEF Quiet, Untouched
  <2> QED
    BY <1>10, <2>1
<1>11. ASSUME NEW c \in Browsers, BrowserDrop(c) PROVE Kinded
  <2>1. CASE b # c
    <3>1. highestSeq'[b] = highestSeq[b] /\ seen'[b] = seen[b] /\ shownStatus'[b] = shownStatus[b]
      BY <1>1, <1>11, <2>1 DEF BrowserDrop, pageVars, PageTypes
    <3>2. /\ inbox'[b] = inbox[b] /\ UNCHANGED <<logVars, link>>
          /\ b \in awaiting' <=> b \in awaiting
          /\ b \in registered' <=> b \in registered
      BY <1>1, <1>11, <2>1 DEF BrowserDrop
    <3>3. /\ b \in raced' <=> b \in raced
          /\ b \in doubled => b \in doubled'
          /\ b \in misled => b \in misled'
      BY <1>11, <2>1 DEF BrowserDrop
    <3> QED
      BY <3>1, <3>2, <3>3 DEF Quiet, Untouched
  <2> QED
    BY <1>11, <2>1
<1>12. ASSUME NEW c \in Browsers, RelayLoses(c) PROVE Kinded
  BY <1>12 DEF RelayLoses, Quiet, Untouched, pageVars, history
<1>13. CASE LinkDrop
  BY <1>13 DEF LinkDrop, Quiet, Untouched, pageVars, history
<1>14. CASE DaemonReconnect
  <2>1. /\ Untouched(b) /\ UNCHANGED logVars /\ link' = "registering"
        /\ inbox'[b] = IF b \in registered THEN Append(inbox[b], Plain("peer_online")) ELSE inbox[b]
    BY <1>14 DEF DaemonReconnect, Untouched, pageVars, history
  <2>2. CASE b \in registered
    BY <2>1, <2>2 DEF Noted
  <2>3. CASE b \notin registered
    BY <2>1, <2>3 DEF Quiet
  <2> QED
    BY <2>2, <2>3
<1>15. CASE DaemonRegistered
  BY <1>15 DEF DaemonRegistered, Quiet, Untouched, pageVars, history
<1>16. CASE Restart
  BY <1>16 DEF Restart, Quiet, Untouched, pageVars, history
<1> QED
  BY <1>2, <1>3, <1>4, <1>5, <1>6, <1>7, <1>8, <1>9, <1>10, <1>11, <1>12, <1>13, <1>14, <1>15, <1>16
  DEF Next, DaemonStep, BrowserStep, NetworkStep, OnRegistered, OnPeerOnline

-----------------------------------------------------------------------------
(* Every status on its way carries an id.                                  *)

LEMMA StepKeepsBodies ==
    ASSUME TypeOK, JournalInv, BodiesInv, [Next]_vars
    PROVE  BodiesInv'
<1> SUFFICES ASSUME NEW b \in Browsers PROVE Bodied(inbox'[b])
  BY DEF BodiesInv
<1>1. NetTypes /\ inbox[b] \in Seq(Frames) /\ Bodied(inbox[b])
  BY TypeParts DEF NetTypes, BodiesInv
<1>2. ASSUME NEW f \in Frames, IsStatus(f) => Len(f.event.body) = 1, inbox'[b] = Append(inbox[b], f)
      PROVE  Bodied(inbox'[b])
  <2>1. /\ Len(inbox'[b]) = Len(inbox[b]) + 1 /\ Len(inbox[b]) \in Nat
        /\ \A i \in 1..Len(inbox[b]) : inbox'[b][i] = inbox[b][i]
        /\ inbox'[b][Len(inbox[b]) + 1] = f
    BY <1>1, <1>2, AppendFacts
  <2>2. \A j \in 1..Len(inbox'[b]) : j \in 1..Len(inbox[b]) \/ j = Len(inbox[b]) + 1
    BY <2>1
  <2> QED
    BY <1>1, <1>2, <2>1, <2>2 DEF Bodied
<1>3. ASSUME inbox[b] # <<>>, inbox'[b] = Tail(inbox[b])
      PROVE  Bodied(inbox'[b])
  <2>1. /\ Len(inbox'[b]) = Len(inbox[b]) - 1 /\ Len(inbox[b]) \in Nat
        /\ \A i \in 1..(Len(inbox[b]) - 1) : inbox'[b][i] = inbox[b][i + 1] /\ i + 1 \in 1..Len(inbox[b])
    BY <1>1, <1>3, TailFacts
  <2> QED
    BY <1>1, <2>1 DEF Bodied
<1>4. CASE Quiet(b)
  BY <1>1, <1>4 DEF Quiet
<1>5. CASE Noted(b)
  <2>1. /\ Plain("ack") \in Frames /\ ~IsStatus(Plain("ack"))
        /\ Plain("peer_online") \in Frames /\ ~IsStatus(Plain("peer_online"))
    BY PlainTypes DEF IsStatus, IsEvent
  <2> QED
    BY <1>2, <1>5, <2>1 DEF Noted
<1>6. CASE Pushed(b)
  <2>1. PICK e \in Events : inbox'[b] = Append(inbox[b], EventFrame(e, "live")) /\ e.body = <<produced + 1>>
    BY <1>6 DEF Pushed
  <2>2. EventFrame(e, "live") \in Frames /\ EventFrame(e, "live").event = e /\ Len(e.body) = 1
    BY <2>1, EventFrameTypes
  <2> QED
    BY <1>2, <2>1, <2>2
<1>7. CASE AnswerResume(b) /\ Reaches(b)
  <2>1. PICK a \in Seq(Events), frames \in Seq(Frames) :
            /\ Answers(a, Head(verifying[b]).since, Head(verifying[b]).offset)
            /\ SendTo(b, frames) /\ Len(frames) = Len(a)
            /\ \A k \in 1..Len(a) : frames[k].event = a[k]
    BY <1>7, AnswerFrames
  <2>2. \A k \in 1..Len(a) : a[k].kind = "status" => Len(a[k].body) = 1
    <3>1. /\ Len(a) \in Nat \ {0} /\ a[Len(a)] = Snapshot
          /\ \A k \in 1..(Len(a) - 1) : (\E r \in 1..Len(records) : a[k] = records[r]) \/ a[k].kind = "stream"
      BY <2>1 DEF Answers
    <3>2. Len(Snapshot.body) = 1
      BY SnapshotFacts
    <3>3. \A r \in 1..Len(records) : Len(records[r].body) = 1
      BY DEF JournalInv, Journal
    <3>4. \A k \in 1..Len(a) : k = Len(a) \/ k \in 1..(Len(a) - 1)
      BY <3>1
    <3>5. "stream" # "status"
      OBVIOUS
    <3> QED
      BY <3>1, <3>2, <3>3, <3>4, <3>5
  <2>4. inbox'[b] = inbox[b] \o frames
    BY <1>1, <1>7, <2>1, Sent
  <2>5. /\ Len(inbox[b]) \in Nat /\ Len(frames) \in Nat /\ Len(inbox'[b]) = Len(inbox[b]) + Len(frames)
    BY <1>1, <2>4, ConcatFacts
  <2>6. \A i \in 1..Len(inbox[b]) : inbox'[b][i] = inbox[b][i]
    BY <1>1, <2>4, ConcatFacts
  <2>7. \A i \in 1..Len(frames) : inbox'[b][Len(inbox[b]) + i] = frames[i]
    BY <1>1, <2>4, ConcatFacts
  <2> SUFFICES ASSUME NEW j \in 1..Len(inbox'[b]), IsStatus(inbox'[b][j])
               PROVE  Len(inbox'[b][j].event.body) = 1
    BY DEF Bodied
  <2>8. CASE j \in 1..Len(inbox[b])
    BY <1>1, <2>6, <2>8 DEF Bodied
  <2>9. CASE \E k \in 1..Len(frames) : j = Len(inbox[b]) + k
    <3>1. PICK k \in 1..Len(frames) : j = Len(inbox[b]) + k
      BY <2>9
    <3>2. inbox'[b][j].event = a[k]
      BY <2>1, <2>7, <3>1
    <3> QED
      BY <2>1, <2>2, <3>2 DEF IsStatus
  <2>10. j \in 1..Len(inbox[b]) \/ \E k \in 1..Len(frames) : j = Len(inbox[b]) + k
    <3>1. j \in 1..(Len(inbox[b]) + Len(frames))
      BY <2>5
    <3> QED
      BY <2>5, <3>1, IndexSplit
  <2> QED
    BY <2>8, <2>9, <2>10
<1>8. ASSUME NEW type, SayHello(b, type) PROVE Bodied(inbox'[b])
  BY <1>1, <1>3, <1>8, Read DEF SayHello, Reading
<1>9. CASE OnAck(b)
  BY <1>1, <1>3, <1>9, Read DEF OnAck, Reading
<1>10. CASE OnEvent(b)
  BY <1>1, <1>3, <1>10, Read DEF OnEvent, Reading
<1>11. CASE BrowserConnect(b)
  <2>1. inbox'[b] = <<Plain("registered")>> /\ ~IsStatus(Plain("registered"))
    BY <1>1, <1>11, PlainTypes DEF BrowserConnect, NetTypes, IsStatus, IsEvent
  <2> QED
    BY <2>1 DEF Bodied
<1>12. CASE BrowserDrop(b)
  <2>1. inbox'[b] = <<>>
    BY <1>1, <1>12 DEF BrowserDrop, NetTypes
  <2> QED
    BY <2>1 DEF Bodied
<1> QED
  BY <1>4, <1>5, <1>6, <1>7, <1>8, <1>9, <1>10, <1>11, <1>12, StepKinds

-----------------------------------------------------------------------------
(* Queues: what appending and reading does to what lies ahead of a page.   *)

\* The answer of a connected daemon, at the end of the inbox.
LEMMA AnswerSent ==
    ASSUME TypeOK, JournalInv, NEW b \in Browsers, AnswerResume(b), Reaches(b)
    PROVE  \E a \in Seq(Events), frames \in Seq(Frames) :
              /\ Answers(a, Head(verifying[b]).since, Head(verifying[b]).offset)
              /\ inbox'[b] = inbox[b] \o frames /\ Len(frames) = Len(a)
              /\ inbox'[b] \in Seq(Frames) /\ Len(inbox'[b]) = Len(inbox[b]) + Len(frames)
              /\ \A i \in 1..Len(inbox[b]) : inbox'[b][i] = inbox[b][i]
              /\ \A k \in 1..Len(frames) :
                    LET f == inbox'[b][Len(inbox[b]) + k] IN
                    /\ f = frames[k] /\ IsEvent(f) /\ f.event = a[k]
                    /\ IsSnapshot(f) <=> Head(verifying[b]).fresh /\ k = Len(a)
                    /\ f.via = "stale" <=> ~Head(verifying[b]).fresh
<1>1. NetTypes /\ inbox[b] \in Seq(Frames)
  BY TypeParts DEF NetTypes
<1>2. PICK a \in Seq(Events), frames \in Seq(Frames) :
          /\ Answers(a, Head(verifying[b]).since, Head(verifying[b]).offset)
          /\ SendTo(b, frames) /\ Len(frames) = Len(a)
          /\ \A k \in 1..Len(a) : /\ IsEvent(frames[k]) /\ frames[k].event = a[k]
                                  /\ IsSnapshot(frames[k]) <=> Head(verifying[b]).fresh /\ k = Len(a)
                                  /\ frames[k].via = "stale" <=> ~Head(verifying[b]).fresh
  BY AnswerFrames
<1>3. inbox'[b] = inbox[b] \o frames
  BY <1>1, <1>2, Sent
<1>4. inbox'[b] \in Seq(Frames) /\ Len(inbox'[b]) = Len(inbox[b]) + Len(frames)
  BY <1>1, <1>3, ConcatFacts
<1>5. \A i \in 1..Len(inbox[b]) : inbox'[b][i] = inbox[b][i]
  BY <1>1, <1>3, ConcatFacts
<1>6. \A i \in 1..Len(frames) : inbox'[b][Len(inbox[b]) + i] = frames[i]
  BY <1>1, <1>3, ConcatFacts
<1>7. \A k \in 1..Len(frames) :
          LET f == inbox'[b][Len(inbox[b]) + k] IN
          /\ f = frames[k] /\ IsEvent(f) /\ f.event = a[k]
          /\ IsSnapshot(f) <=> Head(verifying[b]).fresh /\ k = Len(a)
          /\ f.via = "stale" <=> ~Head(verifying[b]).fresh
  BY <1>2, <1>6
<1> QED
  BY <1>2, <1>3, <1>4, <1>5, <1>7

Id(q, j) == q[j].event.body[1]

\* When the page of b has read m frames it has greeted the daemon and not had the snapshot yet.
Awaits(q, b, waiting, m) ==
    \/ \E i \in 1..m : Greets(q[i]) /\ \A k \in (i + 1)..m : ~IsSnapshot(q[k])
    \/ b \in waiting /\ \A k \in 1..m : ~IsSnapshot(q[k])

Greeting(q, b, waiting) == Awaits(q, b, waiting, Len(q))

\* The last status the page has or is sent is the current one.
StatusKnown(q, shown, current) ==
    \/ shown = current /\ \A i \in 1..Len(q) : ~IsStatus(q[i])
    \/ \E i \in 1..Len(q) :
          IsStatus(q[i]) /\ Id(q, i) = current /\ \A k \in (i + 1)..Len(q) : ~IsStatus(q[k])

LEMMA AwaitsPrefix ==
    ASSUME NEW q, NEW p, NEW n \in Nat, \A i \in 1..n : p[i] = q[i],
           NEW b, NEW waiting, NEW m \in 0..n
    PROVE  Awaits(p, b, waiting, m) <=> Awaits(q, b, waiting, m)
<1>1. \A i \in 1..m : p[i] = q[i]
  OBVIOUS
<1>2. \A i \in 1..m : \A k \in (i + 1)..m : p[k] = q[k]
  BY <1>1
<1>3. (\A k \in 1..m : ~IsSnapshot(p[k])) <=> \A k \in 1..m : ~IsSnapshot(q[k])
  BY <1>1
<1>4. \A i \in 1..m : /\ Greets(p[i]) <=> Greets(q[i])
                      /\ (\A k \in (i + 1)..m : ~IsSnapshot(p[k])) <=> \A k \in (i + 1)..m : ~IsSnapshot(q[k])
  BY <1>1, <1>2
<1>5. (\E i \in 1..m : Greets(p[i]) /\ \A k \in (i + 1)..m : ~IsSnapshot(p[k]))
         <=> \E i \in 1..m : Greets(q[i]) /\ \A k \in (i + 1)..m : ~IsSnapshot(q[k])
  BY <1>4
<1> QED
  BY <1>3, <1>5 DEF Awaits

LEMMA GreetingAppended ==
    ASSUME NEW q \in Seq(Frames), NEW f \in Frames, NEW b, NEW waiting
    PROVE  /\ Greets(f) => Greeting(Append(q, f), b, waiting)
           /\ ~IsSnapshot(f) /\ Greeting(q, b, waiting) => Greeting(Append(q, f), b, waiting)
<1> DEFINE n == Len(q)
           p == Append(q, f)
<1>1. n \in Nat /\ Len(p) = n + 1 /\ p[n + 1] = f /\ \A i \in 1..n : p[i] = q[i]
  BY AppendFacts
<1> HIDE DEF n, p
<1>2. \A k \in 1..(n + 1) : k \in 1..n \/ k = n + 1
  BY <1>1
<1>3. ASSUME Greets(f) PROVE Awaits(p, b, waiting, n + 1)
  <2>1. n + 1 \in 1..(n + 1) /\ \A k \in ((n + 1) + 1)..(n + 1) : FALSE
    BY <1>1
  <2> QED
    BY <1>1, <1>3, <2>1 DEF Awaits
<1>4. ASSUME ~IsSnapshot(f), Awaits(q, b, waiting, n) PROVE Awaits(p, b, waiting, n + 1)
  <2>1. CASE b \in waiting /\ \A k \in 1..n : ~IsSnapshot(q[k])
    <3>1. \A k \in 1..(n + 1) : ~IsSnapshot(p[k])
      BY <1>1, <1>2, <1>4, <2>1
    <3> QED
      BY <2>1, <3>1 DEF Awaits
  <2>2. CASE \E i \in 1..n : Greets(q[i]) /\ \A k \in (i + 1)..n : ~IsSnapshot(q[k])
    <3>1. PICK i \in 1..n : Greets(q[i]) /\ \A k \in (i + 1)..n : ~IsSnapshot(q[k])
      BY <2>2
    <3>2. \A k \in (i + 1)..(n + 1) : (k \in (i + 1)..n /\ k \in 1..n) \/ k = n + 1
      BY <1>1
    <3>3. Greets(p[i]) /\ \A k \in (i + 1)..(n + 1) : ~IsSnapshot(p[k])
      BY <1>1, <1>4, <3>1, <3>2
    <3>4. i \in 1..(n + 1)
      BY <1>1
    <3> QED
      BY <3>3, <3>4 DEF Awaits
  <2> QED
    BY <1>4, <2>1, <2>2 DEF Awaits
<1> QED
  BY <1>1, <1>3, <1>4 DEF Greeting, n, p

LEMMA AwaitsTail ==
    ASSUME NEW q \in Seq(Frames), q # <<>>, NEW b, NEW waiting, NEW then,
           b \in then <=> (Greets(q[1]) \/ (b \in waiting /\ ~IsSnapshot(q[1]))),
           NEW m \in 0..(Len(q) - 1)
    PROVE  Awaits(Tail(q), b, then, m) <=> Awaits(q, b, waiting, m + 1)
<1> DEFINE n == Len(q)
           p == Tail(q)
<1>1. n \in Nat \ {0} /\ \A i \in 1..(n - 1) : p[i] = q[i + 1]
  BY TailFacts
<1>2. m \in Nat /\ m + 1 \in Nat /\ 1 \in 1..(m + 1)
  BY <1>1
<1>3. \A i \in 1..m : p[i] = q[i + 1]
  BY <1>1
<1> HIDE DEF n, p
<1>4. ASSUME Awaits(p, b, then, m) PROVE Awaits(q, b, waiting, m + 1)
  <2>1. CASE \E i \in 1..m : Greets(p[i]) /\ \A k \in (i + 1)..m : ~IsSnapshot(p[k])
    <3>1. PICK i \in 1..m : Greets(p[i]) /\ \A k \in (i + 1)..m : ~IsSnapshot(p[k])
      BY <2>1
    <3>2. i + 1 \in 1..(m + 1) /\ Greets(q[i + 1])
      BY <1>2, <1>3, <3>1
    <3>3. ASSUME NEW k \in ((i + 1) + 1)..(m + 1) PROVE ~IsSnapshot(q[k])
      <4>1. k - 1 \in (i + 1)..m /\ k - 1 \in 1..m /\ (k - 1) + 1 = k
        BY <1>2
      <4> QED
        BY <1>3, <3>1, <4>1
    <3> QED
      BY <3>2, <3>3 DEF Awaits
  <2>2. CASE b \in then /\ \A k \in 1..m : ~IsSnapshot(p[k])
    <3>1. \A k \in 2..(m + 1) : ~IsSnapshot(q[k])
      <4> SUFFICES ASSUME NEW k \in 2..(m + 1) PROVE ~IsSnapshot(q[k])
        OBVIOUS
      <4>1. k - 1 \in 1..m /\ (k - 1) + 1 = k
        BY <1>2
      <4> QED
        BY <1>3, <2>2, <4>1
    <3>2. CASE Greets(q[1])
      <4>1. \A k \in (1 + 1)..(m + 1) : ~IsSnapshot(q[k])
        BY <3>1
      <4> QED
        BY <1>2, <3>2, <4>1 DEF Awaits
    <3>3. CASE b \in waiting /\ ~IsSnapshot(q[1])
      <4>1. \A k \in 1..(m + 1) : k = 1 \/ k \in 2..(m + 1)
        BY <1>2
      <4> QED
        BY <3>1, <3>3, <4>1 DEF Awaits
    <3> QED
      BY <2>2, <3>2, <3>3
  <2> QED
    BY <1>4, <2>1, <2>2 DEF Awaits
<1>5. ASSUME Awaits(q, b, waiting, m + 1) PROVE Awaits(p, b, then, m)
  <2>1. \A k \in 1..m : k + 1 \in 2..(m + 1) /\ k + 1 \in 1..(m + 1)
    BY <1>2
  <2>2. CASE b \in waiting /\ \A k \in 1..(m + 1) : ~IsSnapshot(q[k])
    <3>1. b \in then /\ \A k \in 1..m : ~IsSnapshot(p[k])
      BY <1>2, <1>3, <2>1, <2>2
    <3> QED
      BY <3>1 DEF Awaits
  <2>3. CASE \E i \in 1..(m + 1) : Greets(q[i]) /\ \A k \in (i + 1)..(m + 1) : ~IsSnapshot(q[k])
    <3>1. PICK i \in 1..(m + 1) : Greets(q[i]) /\ \A k \in (i + 1)..(m + 1) : ~IsSnapshot(q[k])
      BY <2>3
    <3>2. CASE i = 1
      <4>1. b \in then /\ \A k \in 1..m : k + 1 \in (i + 1)..(m + 1)
        BY <1>2, <3>1, <3>2
      <4>2. \A k \in 1..m : ~IsSnapshot(p[k])
        BY <1>3, <3>1, <4>1
      <4> QED
        BY <4>1, <4>2 DEF Awaits
    <3>3. CASE i # 1
      <4>1. i - 1 \in 1..m /\ (i - 1) + 1 = i
        BY <1>2, <3>3
      <4>2. Greets(p[i - 1])
        BY <1>3, <3>1, <4>1
      <4>3. \A k \in ((i - 1) + 1)..m : k \in 1..m /\ k + 1 \in (i + 1)..(m + 1)
        BY <1>2, <4>1
      <4>4. \A k \in ((i - 1) + 1)..m : ~IsSnapshot(p[k])
        BY <1>3, <3>1, <4>3
      <4> QED
        BY <4>1, <4>2, <4>4 DEF Awaits
    <3> QED
      BY <3>2, <3>3
  <2> QED
    BY <1>5, <2>2, <2>3 DEF Awaits
<1> QED
  BY <1>4, <1>5 DEF p

LEMMA SameWait ==
    ASSUME NEW q, NEW b, NEW waiting, NEW then, b \in then <=> b \in waiting, NEW m
    PROVE  Awaits(q, b, then, m) <=> Awaits(q, b, waiting, m)
  BY DEF Awaits

LEMMA StatusAppended ==
    ASSUME NEW q \in Seq(Frames), NEW f \in Frames, NEW shown, NEW current
    PROVE  /\ IsStatus(f) /\ f.event.body[1] = current => StatusKnown(Append(q, f), shown, current)
           /\ ~IsStatus(f) /\ StatusKnown(q, shown, current) => StatusKnown(Append(q, f), shown, current)
<1> DEFINE n == Len(q)
           p == Append(q, f)
<1>1. n \in Nat /\ Len(p) = n + 1 /\ p[n + 1] = f /\ \A i \in 1..n : p[i] = q[i]
  BY AppendFacts
<1> HIDE DEF n, p
<1>2. \A k \in 1..(n + 1) : k \in 1..n \/ k = n + 1
  BY <1>1
<1>3. ASSUME IsStatus(f), f.event.body[1] = current PROVE StatusKnown(p, shown, current)
  <2>1. n + 1 \in 1..(n + 1) /\ \A k \in ((n + 1) + 1)..(n + 1) : FALSE
    BY <1>1
  <2> QED
    BY <1>1, <1>3, <2>1 DEF StatusKnown, Id
<1>4. ASSUME ~IsStatus(f), StatusKnown(q, shown, current) PROVE StatusKnown(p, shown, current)
  <2>1. CASE shown = current /\ \A i \in 1..n : ~IsStatus(q[i])
    <3>1. \A i \in 1..(n + 1) : ~IsStatus(p[i])
      BY <1>1, <1>2, <1>4, <2>1
    <3> QED
      BY <1>1, <2>1, <3>1 DEF StatusKnown
  <2>2. CASE \E i \in 1..n : IsStatus(q[i]) /\ Id(q, i) = current /\ \A k \in (i + 1)..n : ~IsStatus(q[k])
    <3>1. PICK i \in 1..n : IsStatus(q[i]) /\ Id(q, i) = current /\ \A k \in (i + 1)..n : ~IsStatus(q[k])
      BY <2>2
    <3>2. \A k \in (i + 1)..(n + 1) : (k \in (i + 1)..n /\ k \in 1..n) \/ k = n + 1
      BY <1>1
    <3>3. /\ IsStatus(p[i]) /\ Id(p, i) = current /\ i \in 1..(n + 1)
          /\ \A k \in (i + 1)..(n + 1) : ~IsStatus(p[k])
      BY <1>1, <1>4, <3>1, <3>2 DEF Id
    <3> QED
      BY <1>1, <3>3 DEF StatusKnown
  <2> QED
    BY <1>4, <2>1, <2>2 DEF StatusKnown, n
<1> QED
  BY <1>3, <1>4 DEF p

LEMMA StatusTail ==
    ASSUME NEW q \in Seq(Frames), q # <<>>, NEW shown, NEW then, NEW current,
           then = IF IsStatus(q[1]) THEN q[1].event.body[1] ELSE shown,
           StatusKnown(q, shown, current)
    PROVE  StatusKnown(Tail(q), then, current)
<1> DEFINE n == Len(q)
           p == Tail(q)
<1>1. /\ n \in Nat \ {0} /\ Len(p) = n - 1
      /\ \A i \in 1..(n - 1) : p[i] = q[i + 1] /\ i + 1 \in 1..n
  BY TailFacts
<1> HIDE DEF n, p
<1>2. CASE shown = current /\ \A i \in 1..n : ~IsStatus(q[i])
  <2>1. 1 \in 1..n
    BY <1>1
  <2>2. then = current /\ \A i \in 1..(n - 1) : ~IsStatus(p[i])
    BY <1>1, <1>2, <2>1
  <2> QED
    BY <1>1, <2>2 DEF StatusKnown, p
<1>3. CASE \E i \in 1..n : IsStatus(q[i]) /\ Id(q, i) = current /\ \A k \in (i + 1)..n : ~IsStatus(q[k])
  <2>1. PICK i \in 1..n : IsStatus(q[i]) /\ Id(q, i) = current /\ \A k \in (i + 1)..n : ~IsStatus(q[k])
    BY <1>3
  <2>2. CASE i = 1
    <3>1. \A k \in 1..(n - 1) : k + 1 \in (i + 1)..n
      BY <1>1, <2>2
    <3>2. then = current /\ \A k \in 1..(n - 1) : ~IsStatus(p[k])
      BY <1>1, <2>1, <2>2, <3>1 DEF Id
    <3> QED
      BY <1>1, <3>2 DEF StatusKnown, p
  <2>3. CASE i # 1
    <3>1. i - 1 \in 1..(n - 1) /\ (i - 1) + 1 = i
      BY <1>1, <2>3
    <3>2. IsStatus(p[i - 1]) /\ Id(p, i - 1) = current
      BY <1>1, <2>1, <3>1 DEF Id
    <3>3. \A k \in ((i - 1) + 1)..(n - 1) : k \in 1..(n - 1) /\ k + 1 \in (i + 1)..n
      BY <1>1, <3>1
    <3>4. \A k \in ((i - 1) + 1)..(n - 1) : ~IsStatus(p[k])
      BY <1>1, <2>1, <3>3
    <3> QED
      BY <1>1, <3>1, <3>2, <3>4 DEF StatusKnown, p
  <2> QED
    BY <2>2, <2>3
<1> QED
  BY <1>2, <1>3 DEF StatusKnown, n

-----------------------------------------------------------------------------
(* The status.                                                             *)

\* A page that has been sent everything has the current status, or is going to ask for it: it has
\* greeted the daemon and the answer is yet to come.
StatusFollows(b) ==
    b \in registered =>
        /\ link = "registering" => Greeting(inbox[b], b, awaiting)
        /\ link = "up" => \/ Greeting(inbox[b], b, awaiting)
                          \/ StatusKnown(inbox[b], shownStatus[b], status)

StatusInv == \A b \in Browsers : StatusFollows(b)

LEMMA AnswerBringsStatus ==
    ASSUME TypeOK, JournalInv, NEW b \in Browsers, AnswerResume(b), Reaches(b), NEW shown
    PROVE  StatusKnown(inbox'[b], shown, status)
<1>1. PICK a \in Seq(Events), frames \in Seq(Frames) :
          /\ Answers(a, Head(verifying[b]).since, Head(verifying[b]).offset)
          /\ inbox'[b] = inbox[b] \o frames /\ Len(frames) = Len(a)
          /\ inbox'[b] \in Seq(Frames) /\ Len(inbox'[b]) = Len(inbox[b]) + Len(frames)
          /\ \A i \in 1..Len(inbox[b]) : inbox'[b][i] = inbox[b][i]
          /\ \A k \in 1..Len(frames) :
                LET f == inbox'[b][Len(inbox[b]) + k] IN
                /\ f = frames[k] /\ IsEvent(f) /\ f.event = a[k]
                /\ IsSnapshot(f) <=> Head(verifying[b]).fresh /\ k = Len(a)
                /\ f.via = "stale" <=> ~Head(verifying[b]).fresh
  BY AnswerSent
<1> DEFINE n == Len(inbox'[b])
<1>2. Len(a) \in Nat \ {0} /\ a[Len(a)] = Snapshot
  BY <1>1 DEF Answers
<1>3. Snapshot.kind = "status" /\ Snapshot.body[1] = status
  BY SnapshotFacts
<1>4. Len(inbox[b]) \in Nat
  BY TypeParts DEF NetTypes
<1>5. n = Len(inbox[b]) + Len(a) /\ Len(a) \in 1..Len(frames)
  BY <1>1, <1>2
<1>6. IsStatus(inbox'[b][n]) /\ Id(inbox'[b], n) = status
  BY <1>1, <1>2, <1>3, <1>5 DEF IsStatus, IsEvent, Id
<1>7. n \in 1..n /\ \A k \in (n + 1)..n : FALSE
  BY <1>2, <1>4, <1>5
<1> HIDE DEF n
<1> QED
  BY <1>6, <1>7 DEF StatusKnown, n

LEMMA StepKeepsStatus ==
    ASSUME TypeOK, JournalInv, BodiesInv, StatusInv, [Next]_vars
    PROVE  StatusInv'
<1> SUFFICES ASSUME NEW b \in Browsers
             PROVE  b \in registered' =>
                      /\ link' = "registering" => Greeting(inbox'[b], b, awaiting')
                      /\ link' = "up" => \/ Greeting(inbox'[b], b, awaiting')
                                         \/ StatusKnown(inbox'[b], shownStatus'[b], status')
  BY DEF StatusInv, StatusFollows
<1> DEFINE G == Greeting(inbox[b], b, awaiting)
           K == StatusKnown(inbox[b], shownStatus[b], status)
           NewG == Greeting(inbox'[b], b, awaiting')
           NewK == StatusKnown(inbox'[b], shownStatus'[b], status')
           Goal == b \in registered' => /\ link' = "registering" => NewG
                                        /\ link' = "up" => NewG \/ NewK
<1>1. /\ NetTypes /\ PageTypes /\ inbox[b] \in Seq(Frames) /\ inbox \in [Browsers -> Seq(Frames)]
      /\ shownStatus \in [Browsers -> Ids]
  BY TypeParts DEF NetTypes, PageTypes
<1>2. b \in registered => (link = "registering" => G) /\ (link = "up" => G \/ K)
  BY DEF StatusInv, StatusFollows
<1>3. ASSUME Quiet(b) PROVE Goal
  <2>1. NewG <=> G
    BY <1>3, SameWait DEF Quiet, Untouched, Greeting
  <2>2. status' = status => (NewK <=> K)
    BY <1>3 DEF Quiet, Untouched
  <2> HIDE DEF G, K, NewG, NewK
  <2> QED
    BY <1>2, <1>3, <2>1, <2>2 DEF Quiet, Untouched, logVars
<1>4. ASSUME Noted(b) PROVE Goal
  <2>1. /\ Plain("ack") \in Frames /\ Plain("peer_online") \in Frames
        /\ ~IsSnapshot(Plain("ack")) /\ ~IsStatus(Plain("ack")) /\ Greets(Plain("peer_online"))
    BY PlainTypes DEF IsSnapshot, IsEvent, IsStatus, Greets, Plain
  <2>2. /\ b \in awaiting' <=> b \in awaiting
        /\ shownStatus'[b] = shownStatus[b] /\ status' = status /\ b \in registered
    BY <1>4 DEF Noted, Untouched, logVars
  <2>3. CASE inbox'[b] = Append(inbox[b], Plain("ack")) /\ link = "up" /\ link' = "up"
    <3>1. G => NewG
      <4>1. G => Greeting(inbox'[b], b, awaiting)
        BY <1>1, <2>1, <2>3, GreetingAppended
      <4> QED
        BY <2>2, <4>1, SameWait DEF Greeting
    <3>2. K => NewK
      BY <1>1, <2>1, <2>2, <2>3, StatusAppended
    <3> HIDE DEF G, K, NewG, NewK
    <3> QED
      BY <1>2, <2>2, <2>3, <3>1, <3>2
  <2>4. CASE inbox'[b] = Append(inbox[b], Plain("peer_online")) /\ link' = "registering"
    <3>1. Greeting(inbox'[b], b, awaiting)
      BY <1>1, <2>1, <2>4, GreetingAppended
    <3>2. NewG
      BY <2>2, <3>1, SameWait DEF Greeting
    <3> QED
      BY <2>4, <3>2
  <2> QED
    BY <1>4, <2>3, <2>4 DEF Noted
<1>5. ASSUME Pushed(b) PROVE Goal
  <2>1. PICK e \in Events :
            /\ inbox'[b] = Append(inbox[b], EventFrame(e, "live")) /\ e.body = <<produced + 1>>
            /\ status' = IF e.kind = "status" THEN produced + 1 ELSE status
    BY <1>5 DEF Pushed
  <2>2. /\ b \in awaiting' <=> b \in awaiting
        /\ shownStatus'[b] = shownStatus[b] /\ link' = link /\ link = "up" /\ b \in registered
    BY <1>5 DEF Pushed, Untouched, Reaches
  <2> DEFINE f == EventFrame(e, "live")
  <2>3. f \in Frames /\ IsEvent(f) /\ f.event = e /\ f.via = "live"
    BY EventFrameTypes
  <2> HIDE DEF f
  <2>4. ~IsSnapshot(f) /\ (IsStatus(f) <=> e.kind = "status")
    BY <2>3 DEF IsSnapshot, IsStatus, IsEvent
  <2>5. inbox'[b] = Append(inbox[b], f)
    BY <2>1 DEF f
  <2>6. G => NewG
    <3>1. G => Greeting(inbox'[b], b, awaiting)
      BY <1>1, <2>3, <2>4, <2>5, GreetingAppended
    <3> QED
      BY <2>2, <3>1, SameWait DEF Greeting
  <2>7. CASE e.kind = "status"
    <3>1. f.event.body[1] = status'
      BY <2>1, <2>3, <2>7
    <3>2. NewK
      BY <1>1, <2>3, <2>4, <2>5, <2>7, <3>1, StatusAppended
    <3> QED
      BY <2>2, <3>2
  <2>8. CASE e.kind # "status"
    <3>1. K => NewK
      BY <1>1, <2>1, <2>2, <2>3, <2>4, <2>5, <2>8, StatusAppended
    <3> HIDE DEF G, K, NewG, NewK
    <3> QED
      BY <1>2, <2>2, <2>6, <3>1
  <2> QED
    BY <2>7, <2>8
<1>6. ASSUME AnswerResume(b) /\ Reaches(b) PROVE Goal
  <2>1. StatusKnown(inbox'[b], shownStatus'[b], status)
    BY <1>6, AnswerBringsStatus
  <2>2. status' = status /\ link' = link /\ link = "up"
    BY <1>6 DEF AnswerResume, logVars, Reaches
  <2> QED
    BY <2>1, <2>2
<1>7. ASSUME inbox[b] # <<>>, inbox'[b] = Tail(inbox[b]), UNCHANGED <<logVars, link, registered>>,
             b \in awaiting' <=> (Greets(inbox[b][1]) \/ (b \in awaiting /\ ~IsSnapshot(inbox[b][1]))),
             shownStatus'[b] = IF IsStatus(inbox[b][1]) THEN inbox[b][1].event.body[1] ELSE shownStatus[b]
      PROVE  Goal
  <2> DEFINE n == Len(inbox[b])
  <2>1. n \in Nat \ {0} /\ Len(inbox'[b]) = n - 1
    BY <1>1, <1>7, TailFacts
  <2>2. n - 1 \in 0..(n - 1) /\ (n - 1) + 1 = n
    BY <2>1
  <2>3. Awaits(Tail(inbox[b]), b, awaiting', n - 1) <=> Awaits(inbox[b], b, awaiting, (n - 1) + 1)
    BY <1>1, <1>7, <2>2, AwaitsTail
  <2>4. NewG <=> G
    BY <1>7, <2>1, <2>2, <2>3 DEF Greeting
  <2>5. K => NewK
    BY <1>1, <1>7, StatusTail DEF logVars
  <2> HIDE DEF G, K, NewG, NewK
  <2> QED
    BY <1>2, <1>7, <2>4, <2>5
<1>8. ASSUME NEW type \in {"registered", "peer_online"}, SayHello(b, type) PROVE Goal
  <2>1. /\ inbox[b] # <<>> /\ inbox[b][1].type = type /\ inbox'[b] = Tail(inbox[b])
        /\ UNCHANGED <<logVars, link, registered, pageVars>> /\ b \in awaiting'
    BY <1>1, <1>8, TailFacts DEF SayHello, Reading
  <2>2. Greets(inbox[b][1]) /\ ~IsStatus(inbox[b][1])
    BY <2>1 DEF Greets, IsStatus
  <2> HIDE DEF Goal
  <2> QED
    BY <1>7, <2>1, <2>2 DEF pageVars
<1>9. ASSUME OnAck(b) PROVE Goal
  <2>1. /\ inbox[b] # <<>> /\ inbox[b][1].type = "ack" /\ inbox'[b] = Tail(inbox[b])
        /\ UNCHANGED <<logVars, link, registered, pageVars, awaiting>>
    BY <1>1, <1>9, TailFacts DEF OnAck, Reading, history
  <2>2. ~Greets(inbox[b][1]) /\ ~IsStatus(inbox[b][1]) /\ ~IsSnapshot(inbox[b][1])
    BY <2>1 DEF Greets, IsStatus, IsSnapshot
  <2> HIDE DEF Goal
  <2> QED
    BY <1>7, <2>1, <2>2 DEF pageVars
<1>10. ASSUME OnEvent(b) PROVE Goal
  <2> DEFINE f == inbox[b][1]
  <2>1. /\ inbox[b] # <<>> /\ f = Head(inbox[b]) /\ f.type = "event" /\ inbox'[b] = Tail(inbox[b])
        /\ UNCHANGED <<logVars, link, registered>>
    BY <1>1, <1>10, TailFacts DEF OnEvent, Reading
  <2>2. ~Greets(f) /\ (IsStatus(f) <=> f.event.kind = "status") /\ (IsSnapshot(f) <=> f.via = "snapshot")
    BY <2>1 DEF Greets, IsStatus, IsSnapshot
  <2>3. b \in awaiting' <=> (Greets(f) \/ (b \in awaiting /\ ~IsSnapshot(f)))
    BY <1>10, <2>1, <2>2 DEF OnEvent
  <2>4. shownStatus'[b] = IF IsStatus(f) THEN f.event.body[1] ELSE shownStatus[b]
    <3>1. Apply(b, f.event)
      BY <1>10, <2>1 DEF OnEvent
    <3> HIDE DEF f
    <3> QED
      BY <1>1, <2>2, <3>1 DEF Apply, pageVars
  <2> HIDE DEF Goal
  <2> QED
    BY <1>7, <2>1, <2>3, <2>4
<1>11. ASSUME BrowserConnect(b) PROVE Goal
  <2>1. inbox'[b] = <<Plain("registered")>> /\ Greets(Plain("registered")) /\ Len(<<Plain("registered")>>) = 1
    BY <1>1, <1>11 DEF BrowserConnect, Greets, Plain
  <2>2. inbox'[b][1] = Plain("registered") /\ Len(inbox'[b]) = 1
    BY <2>1
  <2>3. 1 \in 1..1 /\ \A k \in (1 + 1)..1 : FALSE
    OBVIOUS
  <2>4. NewG
    BY <2>1, <2>2, <2>3 DEF Greeting, Awaits
  <2> QED
    BY <2>4
<1>12. ASSUME BrowserDrop(b) PROVE Goal
  BY <1>12 DEF BrowserDrop
<1>13. Goal
  <2> HIDE DEF Goal
  <2> QED
    BY <1>3, <1>4, <1>5, <1>6, <1>8, <1>9, <1>10, <1>11, <1>12, StepKinds
<1> QED
  BY <1>13

-----------------------------------------------------------------------------
(* The order of the transcript.                                            *)

\* The page will have seen the number of frame j, or a greater one, when it reads it; h is the
\* highest number it has seen so far.
Late(q, h, j) ==
    \/ q[j].event.seq <= h
    \/ \E i \in 1..(j - 1) : IsEvent(q[i]) /\ q[j].event.seq <= q[i].event.seq

\* It is going to add frame j to its transcript.
Applies(q, h, j) == IsEvent(q[j]) /\ ~IsStatus(q[j]) /\ ~Late(q, h, j)

\* What the page is going to apply continues its transcript s in the order of the journal `list`,
\* and what the journal has beyond the page's number comes later still.
Continues(q, h, s, list, top, j) ==
    /\ Len(q[j].event.body) = 1 /\ Id(q, j) <= top
    /\ \A k \in 1..Len(s) : s[k] < Id(q, j)
    /\ \A i \in 1..(j - 1) : Applies(q, h, i) => Id(q, i) < Id(q, j)
    /\ \A r \in 1..Len(list) : q[j].event.seq < r => Id(q, j) < list[r].body[1]

InOrder(q, h, s, list, top) ==
    /\ \A i, j \in 1..Len(s) : i < j => s[i] < s[j]
    /\ \A k \in 1..Len(s) : s[k] <= top
    /\ \A j \in 1..Len(q) : Applies(q, h, j) => Continues(q, h, s, list, top, j)
    /\ \A r \in 1..Len(list) : h < r => \A k \in 1..Len(s) : s[k] < list[r].body[1]

OrderInv == \A b \in Browsers \ misled : InOrder(inbox[b], highestSeq[b], seen[b], records, produced)

LEMMA EventIds ==
    ASSUME NEW e \in Events, Len(e.body) = 1
    PROVE  e.body[1] \in Nat /\ e.seq \in Nat
<1>1. e.body \in Seq(Nat)
  BY DEF Events, Ids
<1> QED
  BY <1>1 DEF Events

LEMMA OrderGrown ==
    ASSUME NEW q \in Seq(Frames), NEW h \in Nat, NEW s \in Seq(Nat), NEW list \in Seq(Events), NEW top \in Nat,
           InOrder(q, h, s, list, top),
           NEW longer \in Seq(Events), NEW most \in Nat, top <= most, Journal(longer, most),
           \A r \in 1..Len(longer) : \/ r \in 1..Len(list) /\ longer[r] = list[r]
                                     \/ longer[r].body[1] > top
    PROVE  InOrder(q, h, s, longer, most)
<1>1. \A k \in 1..Len(s) : s[k] \in Nat /\ s[k] <= top
  BY DEF InOrder
<1>2. \A r \in 1..Len(longer) : longer[r].body[1] \in Nat
  BY EventIds DEF Journal
<1>3. ASSUME NEW j \in 1..Len(q), Applies(q, h, j) PROVE Continues(q, h, s, longer, most, j)
  <2>1. Continues(q, h, s, list, top, j)
    BY <1>3 DEF InOrder
  <2>2. Id(q, j) \in Nat
    <3>1. q[j].event \in Events
      BY <1>3, FrameTypes DEF Applies
    <3> QED
      BY <2>1, <3>1, EventIds DEF Continues, Id
  <2>3. ASSUME NEW r \in 1..Len(longer), q[j].event.seq < r PROVE Id(q, j) < longer[r].body[1]
    <3>1. CASE r \in 1..Len(list) /\ longer[r] = list[r]
      BY <2>1, <2>3, <3>1 DEF Continues
    <3>2. CASE longer[r].body[1] > top
      BY <1>2, <2>1, <2>2, <3>2 DEF Continues
    <3> QED
      BY <3>1, <3>2
  <2> QED
    BY <2>1, <2>2, <2>3 DEF Continues
<1>4. ASSUME NEW r \in 1..Len(longer), h < r, NEW k \in 1..Len(s) PROVE s[k] < longer[r].body[1]
  <2>1. CASE r \in 1..Len(list) /\ longer[r] = list[r]
    BY <1>4, <2>1 DEF InOrder
  <2>2. CASE longer[r].body[1] > top
    BY <1>1, <1>2, <2>2
  <2> QED
    BY <2>1, <2>2
<1>5. \A k \in 1..Len(s) : s[k] <= most
  BY <1>1
<1> QED
  BY <1>3, <1>4, <1>5 DEF InOrder

LEMMA OrderAppended ==
    ASSUME NEW q \in Seq(Frames), NEW h \in Nat, NEW s \in Seq(Nat), NEW list \in Seq(Events), NEW top \in Nat,
           InOrder(q, h, s, list, top), Journal(list, top),
           NEW p \in Seq(Frames), NEW n \in Nat, n = Len(q), n <= Len(p), \A i \in 1..n : p[i] = q[i],
           \A j \in (n + 1)..Len(p) : IsEvent(p[j]) /\ ~IsStatus(p[j]) =>
              Late(p, h, j) \/ \E r \in 1..Len(list) : p[j].event = list[r]
    PROVE  InOrder(p, h, s, list, top)
<1>1. /\ \A r \in 1..Len(list) : /\ list[r].seq = r /\ Len(list[r].body) = 1 /\ list[r].body[1] <= top
                                 /\ list[r].body[1] \in Nat
      /\ \A i, j \in 1..Len(list) : i < j => list[i].body[1] < list[j].body[1]
  BY EventIds DEF Journal
<1>2. Len(p) \in Nat /\ Len(list) \in Nat
  OBVIOUS
<1>3. ASSUME NEW j \in 1..n PROVE Applies(p, h, j) <=> Applies(q, h, j)
  <2>1. p[j] = q[j] /\ \A i \in 1..(j - 1) : p[i] = q[i]
    OBVIOUS
  <2>2. Late(p, h, j) <=> Late(q, h, j)
    BY <2>1 DEF Late
  <2> QED
    BY <2>1, <2>2 DEF Applies
<1>4. ASSUME NEW j \in (n + 1)..Len(p), Applies(p, h, j)
      PROVE  \E r \in 1..Len(list) : /\ p[j].event = list[r] /\ h < r
                                     /\ \A i \in 1..(j - 1) : IsEvent(p[i]) => p[i].event.seq < r
  <2>1. PICK r \in 1..Len(list) : p[j].event = list[r]
    BY <1>4 DEF Applies
  <2>2. p[j].event.seq = r
    BY <1>1, <2>1
  <2>3. ~(r <= h) /\ \A i \in 1..(j - 1) : IsEvent(p[i]) => ~(r <= p[i].event.seq)
    BY <1>4, <2>2 DEF Applies, Late
  <2>4. \A i \in 1..(j - 1) : IsEvent(p[i]) => p[i].event.seq \in Nat
    <3> SUFFICES ASSUME NEW i \in 1..(j - 1), IsEvent(p[i]) PROVE p[i].event.seq \in Nat
      OBVIOUS
    <3>1. p[i] \in Frames
      BY <1>2
    <3>2. p[i].event \in Events
      BY <3>1, FrameTypes
    <3> QED
      BY <3>2 DEF Events
  <2>5. h < r /\ \A i \in 1..(j - 1) : IsEvent(p[i]) => p[i].event.seq < r
    BY <2>3, <2>4
  <2> QED
    BY <2>1, <2>5
<1>5. ASSUME NEW j \in 1..Len(p), Applies(p, h, j) PROVE Continues(p, h, s, list, top, j)
  <2>1. CASE j \in 1..n
    <3>1. Continues(q, h, s, list, top, j)
      BY <1>3, <1>5, <2>1 DEF InOrder
    <3>2. p[j] = q[j] /\ Id(p, j) = Id(q, j)
      BY <2>1 DEF Id
    <3>3. \A i \in 1..(j - 1) : i \in 1..n /\ Id(p, i) = Id(q, i)
      BY <2>1 DEF Id
    <3> QED
      BY <1>3, <3>1, <3>2, <3>3 DEF Continues
  <2>2. CASE j \in (n + 1)..Len(p)
    <3>1. PICK r \in 1..Len(list) : /\ p[j].event = list[r] /\ h < r
                                    /\ \A i \in 1..(j - 1) : IsEvent(p[i]) => p[i].event.seq < r
      BY <1>4, <1>5, <2>2
    <3>2. Id(p, j) = list[r].body[1] /\ p[j].event.seq = r
      BY <1>1, <3>1 DEF Id
    <3>3. Len(p[j].event.body) = 1 /\ Id(p, j) <= top
      BY <1>1, <3>1, <3>2
    <3>4. \A k \in 1..Len(s) : s[k] < Id(p, j)
      BY <3>1, <3>2 DEF InOrder
    <3>5. \A x \in 1..Len(list) : p[j].event.seq < x => Id(p, j) < list[x].body[1]
      BY <1>1, <3>2
    <3>6. ASSUME NEW i \in 1..(j - 1), Applies(p, h, i) PROVE Id(p, i) < Id(p, j)
      <4>1. p[i].event.seq < r
        BY <3>1, <3>6 DEF Applies
      <4>2. CASE i \in 1..n
        <5>1. Continues(q, h, s, list, top, i)
          BY <1>3, <3>6, <4>2 DEF InOrder
        <5>2. q[i].event.seq < r => Id(q, i) < list[r].body[1]
          BY <5>1 DEF Continues
        <5>3. p[i] = q[i] /\ Id(p, i) = Id(q, i)
          BY <4>2 DEF Id
        <5> QED
          BY <3>2, <4>1, <5>2, <5>3
      <4>3. CASE i \in (n + 1)..Len(p)
        <5>1. PICK x \in 1..Len(list) : p[i].event = list[x]
          BY <1>4, <3>6, <4>3
        <5>2. p[i].event.seq = x /\ Id(p, i) = list[x].body[1]
          BY <1>1, <5>1 DEF Id
        <5> QED
          BY <1>1, <3>2, <4>1, <5>2
      <4>4. i \in 1..n \/ i \in (n + 1)..Len(p)
        BY <1>2
      <4> QED
        BY <4>2, <4>3, <4>4
    <3> QED
      BY <3>3, <3>4, <3>5, <3>6 DEF Continues
  <2>3. j \in 1..n \/ j \in (n + 1)..Len(p)
    BY <1>2
  <2> QED
    BY <2>1, <2>2, <2>3
<1> QED
  BY <1>5 DEF InOrder

LEMMA OrderTail ==
    ASSUME NEW q \in Seq(Frames), q # <<>>, NEW h \in Nat, NEW s \in Seq(Nat),
           NEW list \in Seq(Events), NEW top \in Nat, InOrder(q, h, s, list, top),
           NEW higher \in Nat, h <= higher, IsEvent(q[1]) => q[1].event.seq <= higher,
           NEW then, then = IF Applies(q, h, 1) THEN Append(s, Id(q, 1)) ELSE s
    PROVE  InOrder(Tail(q), higher, then, list, top)
<1> DEFINE n == Len(q)
           p == Tail(q)
<1>1. /\ n \in Nat \ {0} /\ Len(p) = n - 1 /\ 1 \in 1..n
      /\ \A i \in 1..(n - 1) : p[i] = q[i + 1] /\ i + 1 \in 1..n
  BY TailFacts
<1>2. \A i \in 1..n : IsEvent(q[i]) => q[i].event.seq \in Nat
  <2> SUFFICES ASSUME NEW i \in 1..n, IsEvent(q[i]) PROVE q[i].event.seq \in Nat
    OBVIOUS
  <2>1. q[i].event \in Events
    BY FrameTypes
  <2> QED
    BY <2>1 DEF Events
<1> HIDE DEF n, p
<1>3. ASSUME NEW j \in 1..(n - 1), Applies(p, higher, j) PROVE Applies(q, h, j + 1)
  <2>1. p[j] = q[j + 1] /\ j + 1 \in 1..n /\ (j + 1) - 1 = j
    BY <1>1
  <2>2. /\ IsEvent(q[j + 1]) /\ ~IsStatus(q[j + 1]) /\ ~(q[j + 1].event.seq <= higher)
        /\ \A i \in 1..(j - 1) : IsEvent(p[i]) => ~(q[j + 1].event.seq <= p[i].event.seq)
    BY <1>3, <2>1 DEF Applies, Late
  <2>3. q[j + 1].event.seq \in Nat
    BY <1>2, <2>1, <2>2
  <2>4. ~(q[j + 1].event.seq <= h)
    BY <2>2, <2>3
  <2>5. ASSUME NEW i \in 1..j, IsEvent(q[i]), q[j + 1].event.seq <= q[i].event.seq PROVE FALSE
    <3>1. i \in 1..n /\ q[i].event.seq \in Nat
      BY <1>1, <1>2, <2>5
    <3>2. CASE i = 1
      BY <2>2, <2>3, <2>5, <3>1, <3>2
    <3>3. CASE i # 1
      <4>1. i - 1 \in 1..(j - 1) /\ i - 1 \in 1..(n - 1) /\ (i - 1) + 1 = i
        BY <1>1, <3>3
      <4>2. p[i - 1] = q[i]
        BY <1>1, <4>1
      <4> QED
        BY <2>2, <2>5, <4>1, <4>2
    <3> QED
      BY <3>2, <3>3
  <2>6. ~Late(q, h, j + 1)
    BY <2>1, <2>4, <2>5 DEF Late
  <2> QED
    BY <2>2, <2>6 DEF Applies
<1>4. /\ \A i, j \in 1..Len(s) : i < j => s[i] < s[j]
      /\ \A k \in 1..Len(s) : s[k] <= top
      /\ \A j \in 1..n : Applies(q, h, j) => Continues(q, h, s, list, top, j)
      /\ \A r \in 1..Len(list) : h < r => \A k \in 1..Len(s) : s[k] < list[r].body[1]
  BY DEF InOrder, n
<1>5. ASSUME NEW j \in 1..(n - 1), Applies(p, higher, j)
      PROVE  /\ Applies(q, h, j + 1) /\ Continues(q, h, s, list, top, j + 1)
             /\ p[j] = q[j + 1] /\ Id(p, j) = Id(q, j + 1)
             /\ \A i \in 1..(j - 1) : Applies(p, higher, i) => Id(p, i) < Id(p, j)
  <2>1. Applies(q, h, j + 1) /\ j + 1 \in 1..n /\ (j + 1) - 1 = j /\ p[j] = q[j + 1]
    <3>1. Applies(q, h, j + 1)
      BY <1>3, <1>5
    <3>2. j + 1 \in 1..n /\ p[j] = q[j + 1]
      BY <1>1
    <3>3. (j + 1) - 1 = j
      BY <1>1
    <3> QED
      BY <3>1, <3>2, <3>3
  <2>2. Continues(q, h, s, list, top, j + 1) /\ Id(p, j) = Id(q, j + 1)
    BY <1>4, <2>1 DEF Id
  <2>3. ASSUME NEW i \in 1..(j - 1), Applies(p, higher, i) PROVE Id(p, i) < Id(p, j)
    <3>1. i \in 1..(n - 1) /\ i + 1 \in 1..j
      BY <1>1
    <3>2. Applies(q, h, i + 1) /\ Id(p, i) = Id(q, i + 1)
      BY <1>1, <1>3, <2>3, <3>1 DEF Id
    <3> QED
      BY <2>1, <2>2, <3>1, <3>2 DEF Continues
  <2> QED
    BY <2>1, <2>2, <2>3
<1>6. CASE ~Applies(q, h, 1)
  <2>1. then = s
    BY <1>6
  <2>2. ASSUME NEW j \in 1..(n - 1), Applies(p, higher, j) PROVE Continues(p, higher, s, list, top, j)
    BY <1>5, <2>2 DEF Continues
  <2>3. \A r \in 1..Len(list) : higher < r => h < r
    OBVIOUS
  <2> QED
    BY <1>1, <1>4, <2>1, <2>2, <2>3 DEF InOrder, p
<1>7. CASE Applies(q, h, 1)
  <2> DEFINE m == Len(s)
             x == Id(q, 1)
  <2>1. Continues(q, h, s, list, top, 1)
    BY <1>1, <1>4, <1>7
  <2>2. x \in Nat /\ x <= top /\ \A k \in 1..m : s[k] < x
    <3>1. q[1].event \in Events
      BY <1>1, <1>7, FrameTypes DEF Applies, n
    <3> QED
      BY <2>1, <3>1, EventIds DEF Continues, Id
  <2>3. /\ then \in Seq(Nat) /\ m \in Nat /\ Len(then) = m + 1 /\ then[m + 1] = x
        /\ \A i \in 1..m : then[i] = s[i] /\ s[i] \in Nat
    BY <1>7, <2>2, AppendFacts
  <2> HIDE DEF m, x
  <2>4. \A i \in 1..(m + 1) : i \in 1..m \/ i = m + 1
    BY <2>3
  <2>5. ASSUME NEW i \in 1..(m + 1), NEW j \in 1..(m + 1), i < j PROVE then[i] < then[j]
    <3>1. i \in 1..m
      BY <2>3, <2>5
    <3>2. CASE j = m + 1
      BY <2>2, <2>3, <3>1, <3>2
    <3>3. CASE j \in 1..m
      BY <1>4, <2>3, <2>5, <3>1, <3>3 DEF m
    <3> QED
      BY <2>4, <3>2, <3>3
  <2>6. \A k \in 1..(m + 1) : then[k] <= top
    BY <1>4, <2>2, <2>3, <2>4 DEF m
  <2>7. ASSUME NEW j \in 1..(n - 1), Applies(p, higher, j) PROVE Continues(p, higher, then, list, top, j)
    <3>1. Continues(q, h, s, list, top, j + 1) /\ p[j] = q[j + 1] /\ Id(p, j) = Id(q, j + 1)
      BY <1>5, <2>7
    <3>2. x < Id(q, j + 1)
      <4>1. 1 \in 1..((j + 1) - 1)
        BY <1>1
      <4> QED
        BY <1>7, <3>1, <4>1 DEF Continues, x
    <3>3. \A k \in 1..m : s[k] < Id(q, j + 1)
      BY <3>1 DEF Continues, m
    <3>4. \A k \in 1..(m + 1) : then[k] < Id(p, j)
      BY <2>3, <2>4, <3>1, <3>2, <3>3
    <3> QED
      BY <1>5, <2>3, <2>7, <3>1, <3>4 DEF Continues
  <2>8. ASSUME NEW r \in 1..Len(list), higher < r, NEW k \in 1..(m + 1) PROVE then[k] < list[r].body[1]
    <3>1. h < r
      BY <2>8
    <3>2. CASE k \in 1..m
      BY <1>4, <2>3, <3>1, <3>2 DEF m
    <3>3. CASE k = m + 1
      <4>1. q[1].event.seq \in Nat /\ q[1].event.seq <= higher
        BY <1>1, <1>2, <1>7 DEF Applies
      <4>2. q[1].event.seq < r
        BY <2>8, <4>1
      <4> QED
        BY <2>1, <2>3, <3>3, <4>2 DEF Continues, x
    <3> QED
      BY <2>4, <3>2, <3>3
  <2> QED
    BY <1>1, <2>3, <2>5, <2>6, <2>7, <2>8 DEF InOrder, p
<1> QED
  BY <1>6, <1>7

LEMMA AnswerInOrder ==
    ASSUME TypeOK, JournalInv, NEW b \in Browsers, AnswerResume(b), Reaches(b), b \notin misled',
           InOrder(inbox[b], highestSeq[b], seen[b], records, produced)
    PROVE  InOrder(inbox'[b], highestSeq[b], seen[b], records, produced)
<1> DEFINE n == Len(inbox[b])
           since == Head(verifying[b]).since
           offset == Head(verifying[b]).offset
           h == highestSeq[b]
<1>1. PICK a \in Seq(Events), frames \in Seq(Frames) :
          /\ Answers(a, Head(verifying[b]).since, Head(verifying[b]).offset)
          /\ inbox'[b] = inbox[b] \o frames /\ Len(frames) = Len(a)
          /\ inbox'[b] \in Seq(Frames) /\ Len(inbox'[b]) = Len(inbox[b]) + Len(frames)
          /\ \A i \in 1..Len(inbox[b]) : inbox'[b][i] = inbox[b][i]
          /\ \A k \in 1..Len(frames) :
                LET f == inbox'[b][Len(inbox[b]) + k] IN
                /\ f = frames[k] /\ IsEvent(f) /\ f.event = a[k]
                /\ IsSnapshot(f) <=> Head(verifying[b]).fresh /\ k = Len(a)
                /\ f.via = "stale" <=> ~Head(verifying[b]).fresh
  BY AnswerSent
<1>2. /\ inbox[b] \in Seq(Frames) /\ n \in Nat /\ h \in Nat /\ seen[b] \in Seq(Nat)
      /\ records \in Seq(Events) /\ produced \in Nat /\ Journal(records, produced) /\ log.seq \in Nat
  BY TypeParts DEF NetTypes, PageTypes, LogTypes, Bounded, Logs, JournalInv, Ids
<1>3. since \in Nat /\ offset \in Nat
  BY AnswerFrames DEF Resumes
<1>4. Recovered(since, offset) # <<>> => since <= h
  <2>1. CASE h < since /\ Recovered(since, offset) # <<>>
    <3>1. misled' = misled \cup {b}
      BY <2>1 DEF AnswerResume
    <3> QED
      BY <3>1
  <2> QED
    BY <1>2, <1>3, <2>1
<1> HIDE DEF n, since, offset, h
<1>5. /\ Len(a) \in Nat \ {0} /\ a[Len(a)] = Snapshot
      /\ \A k \in 1..(Len(a) - 1) :
            \/ \E r \in 1..Len(records) : a[k] = records[r] /\ since < r
            \/ /\ Recovered(since, offset) # <<>> /\ a[k].seq = log.seq /\ a[k].kind = "stream"
               /\ log.seq > since => \E i \in 1..(k - 1) : a[i].seq = log.seq
  BY <1>1 DEF Answers, since, offset
<1>6. /\ Len(inbox'[b]) = n + Len(a)
      /\ \A k \in 1..Len(a) : IsEvent(inbox'[b][n + k]) /\ inbox'[b][n + k].event = a[k]
  BY <1>1 DEF n
<1>7. ASSUME NEW k \in 1..Len(a), ~IsStatus(inbox'[b][n + k])
      PROVE  Late(inbox'[b], h, n + k) \/ \E r \in 1..Len(records) : inbox'[b][n + k].event = records[r]
  <2>1. k \in 1..(Len(a) - 1)
    <3>1. k # Len(a)
      BY <1>5, <1>6, <1>7, SnapshotFacts DEF IsStatus, IsEvent
    <3> QED
      BY <1>5, <3>1
  <2>2. CASE \E r \in 1..Len(records) : a[k] = records[r]
    BY <1>6, <2>2
  <2>3. CASE /\ Recovered(since, offset) # <<>> /\ a[k].seq = log.seq
             /\ log.seq > since => \E i \in 1..(k - 1) : a[i].seq = log.seq
    <3>1. inbox'[b][n + k].event.seq = log.seq
      BY <1>6, <2>3
    <3>2. CASE log.seq <= since
      BY <1>2, <1>3, <1>4, <2>3, <3>1, <3>2 DEF Late
    <3>3. CASE log.seq > since
      <4>1. PICK i \in 1..(k - 1) : a[i].seq = log.seq
        BY <2>3, <3>3
      <4>2. i \in 1..Len(a) /\ n + i \in 1..((n + k) - 1)
        BY <1>2, <1>5
      <4>3. IsEvent(inbox'[b][n + i]) /\ inbox'[b][n + i].event.seq = log.seq
        BY <1>6, <4>1, <4>2
      <4>4. log.seq <= log.seq
        BY <1>2
      <4> QED
        BY <3>1, <4>2, <4>3, <4>4 DEF Late
    <3> QED
      BY <1>2, <1>3, <3>2, <3>3
  <2> QED
    BY <1>5, <2>1, <2>2, <2>3
<1>8. \A j \in (n + 1)..Len(inbox'[b]) : IsEvent(inbox'[b][j]) /\ ~IsStatus(inbox'[b][j]) =>
          Late(inbox'[b], h, j) \/ \E r \in 1..Len(records) : inbox'[b][j].event = records[r]
  <2> SUFFICES ASSUME NEW j \in (n + 1)..Len(inbox'[b]), ~IsStatus(inbox'[b][j])
               PROVE  Late(inbox'[b], h, j) \/ \E r \in 1..Len(records) : inbox'[b][j].event = records[r]
    OBVIOUS
  <2>1. j - n \in 1..Len(a) /\ n + (j - n) = j
    BY <1>2, <1>5, <1>6
  <2> QED
    BY <1>7, <2>1
<1>9. n <= Len(inbox'[b]) /\ n = Len(inbox[b]) /\ \A i \in 1..n : inbox'[b][i] = inbox[b][i]
  BY <1>1, <1>2, <1>5, <1>6 DEF n
<1>10. InOrder(inbox'[b], h, seen[b], records, produced)
  BY <1>1, <1>2, <1>8, <1>9, OrderAppended DEF h
<1> QED
  BY <1>10 DEF h

LEMMA StepKeepsOrder ==
    ASSUME TypeOK, JournalInv, BodiesInv, OrderInv, [Next]_vars
    PROVE  OrderInv'
<1> SUFFICES ASSUME NEW b \in Browsers, b \notin misled'
             PROVE  InOrder(inbox'[b], highestSeq'[b], seen'[b], records', produced')
  BY DEF OrderInv
<1> DEFINE q == inbox[b]
           h == highestSeq[b]
           s == seen[b]
           Old == InOrder(q, h, s, records, produced)
           Goal == InOrder(inbox'[b], highestSeq'[b], seen'[b], records', produced')
<1>1. /\ q \in Seq(Frames) /\ h \in Nat /\ s \in Seq(Nat) /\ records \in Seq(Events) /\ produced \in Nat
      /\ Journal(records, produced)
      /\ NetTypes /\ PageTypes /\ inbox \in [Browsers -> Seq(Frames)]
      /\ highestSeq \in [Browsers -> Nat] /\ seen \in [Browsers -> Seq(Nat)]
  BY TypeParts DEF NetTypes, PageTypes, LogTypes, JournalInv, Ids
<1>2. b \notin misled => Old
  BY DEF OrderInv
<1>3. /\ records' \in Seq(Events) /\ produced' \in Nat /\ Journal(records', produced') /\ produced <= produced'
      /\ \A r \in 1..Len(records') : \/ r \in 1..Len(records) /\ records'[r] = records[r]
                                     \/ records'[r].body[1] > produced
  BY StepKeepsLog DEF LogTypes, JournalInv, Grown
<1>4. Old => InOrder(q, h, s, records', produced')
  <2> HIDE DEF q, h, s
  <2> QED
    BY <1>1, <1>3, OrderGrown
<1>5. Untouched(b) => /\ highestSeq'[b] = h /\ seen'[b] = s /\ Old
  BY <1>2 DEF Untouched
<1>6. ASSUME Quiet(b) PROVE Goal
  <2>1. inbox'[b] = q /\ Untouched(b)
    BY <1>6 DEF Quiet
  <2> QED
    BY <1>4, <1>5, <2>1
<1>7. ASSUME NEW f \in Frames, inbox'[b] = Append(q, f), Untouched(b),
             IsEvent(f) => \E r \in 1..Len(records') : f.event = records'[r]
      PROVE  Goal
  <2> DEFINE p == inbox'[b]
             n == Len(q)
  <2>1. /\ p \in Seq(Frames) /\ n \in Nat /\ Len(p) = n + 1 /\ p[n + 1] = f
        /\ \A i \in 1..n : p[i] = q[i]
    BY <1>1, <1>7, AppendFacts
  <2>2. InOrder(q, h, s, records', produced')
    BY <1>4, <1>5, <1>7
  <2> HIDE DEF p, n, h, s
  <2>3. \A j \in (n + 1)..Len(p) : IsEvent(p[j]) /\ ~IsStatus(p[j]) =>
            Late(p, h, j) \/ \E r \in 1..Len(records') : p[j].event = records'[r]
    <3>1. \A j \in (n + 1)..Len(p) : p[j] = f
      <4>1. \A j \in (n + 1)..Len(p) : j = n + 1
        BY <2>1
      <4> QED
        BY <2>1, <4>1
    <3> QED
      BY <1>7, <3>1
  <2>4. n = Len(q) /\ n <= Len(p)
    BY <2>1 DEF n
  <2> HIDE DEF q
  <2>5. InOrder(p, h, s, records', produced')
    BY <1>1, <1>3, <2>1, <2>2, <2>3, <2>4, OrderAppended
  <2> QED
    BY <1>5, <1>7, <2>5 DEF p, q, h, s
<1>8. ASSUME Noted(b) PROVE Goal
  <2>1. /\ Plain("ack") \in Frames /\ Plain("peer_online") \in Frames
        /\ ~IsEvent(Plain("ack")) /\ ~IsEvent(Plain("peer_online"))
    BY PlainTypes
  <2> HIDE DEF Goal
  <2> QED
    BY <1>7, <1>8, <2>1 DEF Noted
<1>9. ASSUME Pushed(b) PROVE Goal
  <2>1. PICK e \in Events : /\ inbox'[b] = Append(inbox[b], EventFrame(e, "live"))
                            /\ records' = Append(records, e)
    BY <1>9 DEF Pushed
  <2>2. EventFrame(e, "live") \in Frames /\ EventFrame(e, "live").event = e
    BY EventFrameTypes
  <2>3. \E r \in 1..Len(records') : e = records'[r]
    <3>1. Len(records') = Len(records) + 1 /\ Len(records) \in Nat /\ records'[Len(records) + 1] = e
      BY <1>1, <2>1, AppendFacts
    <3>2. Len(records) + 1 \in 1..Len(records')
      BY <3>1
    <3> QED
      BY <3>1, <3>2
  <2>4. Untouched(b)
    BY <1>9 DEF Pushed
  <2> HIDE DEF Goal
  <2> QED
    BY <1>7, <2>1, <2>2, <2>3, <2>4
<1>10. ASSUME AnswerResume(b), Reaches(b) PROVE Goal
  <2>1. /\ highestSeq' = highestSeq /\ seen' = seen /\ records' = records /\ produced' = produced
        /\ b \notin misled
    BY <1>10 DEF AnswerResume, pageVars, logVars
  <2>2. InOrder(inbox'[b], highestSeq[b], seen[b], records, produced)
    BY <1>2, <1>10, <2>1, AnswerInOrder
  <2> QED
    BY <2>1, <2>2
<1>11. ASSUME q # <<>>, inbox'[b] = Tail(q), records' = records, produced' = produced, misled' = misled,
              highestSeq'[b] \in Nat, h <= highestSeq'[b], IsEvent(q[1]) => q[1].event.seq <= highestSeq'[b],
              seen'[b] = IF Applies(q, h, 1) THEN Append(s, Id(q, 1)) ELSE s
       PROVE  Goal
  <2> HIDE DEF q, h, s
  <2>1. Old
    BY <1>2, <1>11
  <2>2. InOrder(Tail(q), highestSeq'[b], seen'[b], records, produced)
    BY <1>1, <1>11, <2>1, OrderTail
  <2> QED
    BY <1>11, <2>2
<1>12. ASSUME q # <<>>, ~IsEvent(q[1]), inbox'[b] = Tail(q), UNCHANGED <<logVars, pageVars, misled>>
       PROVE  Goal
  <2>1. ~Applies(q, h, 1) /\ h <= h
    BY <1>1, <1>12 DEF Applies
  <2> HIDE DEF Goal
  <2> QED
    BY <1>1, <1>11, <1>12, <2>1 DEF logVars, pageVars
<1>13. ASSUME NEW type \in {"registered", "peer_online"}, SayHello(b, type) PROVE Goal
  <2>1. /\ q # <<>> /\ q[1].type = type /\ inbox'[b] = Tail(q)
        /\ UNCHANGED <<logVars, pageVars, misled>>
    BY <1>1, <1>13, TailFacts DEF SayHello, Reading
  <2>2. ~IsEvent(q[1])
    BY <2>1 DEF IsEvent
  <2> HIDE DEF Goal, q
  <2> QED
    BY <1>12, <2>1, <2>2
<1>14. ASSUME OnAck(b) PROVE Goal
  <2>1. /\ q # <<>> /\ q[1].type = "ack" /\ inbox'[b] = Tail(q)
        /\ UNCHANGED <<logVars, pageVars, misled>>
    BY <1>1, <1>14, TailFacts DEF OnAck, Reading, history
  <2>2. ~IsEvent(q[1])
    BY <2>1 DEF IsEvent
  <2> HIDE DEF Goal, q
  <2> QED
    BY <1>12, <2>1, <2>2
<1>15. ASSUME OnEvent(b) PROVE Goal
  <2> DEFINE f == q[1]
             e == f.event
  <2>1. /\ q # <<>> /\ f = Head(q) /\ f.type = "event" /\ inbox'[b] = Tail(q) /\ f \in Frames
        /\ records' = records /\ produced' = produced /\ misled' = misled /\ Apply(b, e)
    BY <1>1, <1>15, TailFacts DEF OnEvent, Reading, logVars
  <2>2. IsEvent(f) /\ e \in Events /\ e.seq \in Nat /\ (IsStatus(f) <=> e.kind = "status")
    <3>1. IsEvent(f)
      BY <2>1 DEF IsEvent
    <3>2. e \in Events
      BY <2>1, <3>1, FrameTypes
    <3> QED
      BY <2>1, <3>1, <3>2 DEF Events, IsStatus
  <2>3. Late(q, h, 1) <=> e.seq <= h
    <3>1. \A i \in 1..(1 - 1) : FALSE
      OBVIOUS
    <3> QED
      BY <3>1 DEF Late
  <2>4. Applies(q, h, 1) <=> e.kind # "status" /\ ~(e.seq <= h)
    BY <2>2, <2>3 DEF Applies
  <2>5. Old /\ (Applies(q, h, 1) => Len(e.body) = 1)
    <3>1. Old /\ 1 \in 1..Len(q)
      BY <1>1, <1>2, <2>1, TailFacts
    <3> QED
      BY <3>1 DEF InOrder, Continues
  <2>6. CASE e.kind # "status" /\ e.seq <= h
    <3>1. highestSeq'[b] = h /\ seen'[b] = s
      BY <2>1, <2>6 DEF Apply, pageVars
    <3> HIDE DEF Goal, f, e, q
    <3> QED
      BY <1>1, <1>11, <2>1, <2>2, <2>4, <2>6, <3>1 DEF e, f
  <2>7. CASE ~(e.kind # "status" /\ e.seq <= h)
    <3>1. highestSeq'[b] = IF e.seq > h THEN e.seq ELSE h
      BY <1>1, <2>1, <2>7 DEF Apply
    <3>2. highestSeq'[b] \in Nat /\ h <= highestSeq'[b] /\ e.seq <= highestSeq'[b]
      BY <1>1, <2>2, <3>1
    <3>3. seen'[b] = IF Applies(q, h, 1) THEN Append(s, Id(q, 1)) ELSE s
      <4>1. CASE e.kind = "status"
        BY <1>1, <2>1, <2>4, <2>7, <4>1 DEF Apply
      <4>2. CASE e.kind # "status"
        <5>1. Applies(q, h, 1) /\ Len(e.body) = 1
          BY <2>4, <2>5, <2>7, <4>2
        <5>2. seen'[b] = s \o e.body
          BY <1>1, <2>1, <2>7, <4>2 DEF Apply
        <5>3. e.body \in Seq(Nat)
          BY <2>2 DEF Events, Ids
        <5>4. s \o e.body = Append(s, e.body[1])
          <6> HIDE DEF s, e
          <6> QED
            BY <1>1, <5>1, <5>3, AppendedOne
        <5> QED
          BY <5>1, <5>2, <5>4 DEF Id
      <4> QED
        BY <4>1, <4>2
    <3> HIDE DEF Goal, f, e, q
    <3> QED
      BY <1>11, <2>1, <3>2, <3>3 DEF e, f
  <2> QED
    BY <2>6, <2>7
<1>16. ASSUME BrowserConnect(b) PROVE Goal
  <2>1. /\ inbox'[b] = <<Plain("registered")>> /\ UNCHANGED <<logVars, pageVars, misled>>
        /\ ~IsEvent(Plain("registered")) /\ Len(inbox'[b]) = 1 /\ inbox'[b][1] = Plain("registered")
    BY <1>1, <1>16, PlainTypes DEF BrowserConnect, history
  <2>2. Old /\ \A j \in 1..1 : j = 1
    BY <1>2, <2>1
  <2>3. \A j \in 1..Len(inbox'[b]) : ~Applies(inbox'[b], h, j)
    BY <2>1, <2>2 DEF Applies
  <2>4. InOrder(inbox'[b], h, s, records, produced)
    BY <2>2, <2>3 DEF InOrder
  <2> QED
    BY <2>1, <2>4 DEF logVars, pageVars
<1>17. ASSUME BrowserDrop(b) PROVE Goal
  <2>1. inbox'[b] = <<>> /\ Len(<<>>) = 0 /\ records' = records /\ produced' = produced
    BY <1>1, <1>17 DEF BrowserDrop, logVars
  <2>2. CASE UNCHANGED <<pageVars, raced, doubled, misled>>
    <3>1. highestSeq'[b] = h /\ seen'[b] = s /\ Old
      BY <1>2, <2>2 DEF pageVars
    <3> QED
      BY <2>1, <3>1 DEF InOrder
  <2>3. CASE highestSeq' = [highestSeq EXCEPT ![b] = 0] /\ seen' = [seen EXCEPT ![b] = <<>>]
    <3>1. seen'[b] = <<>>
      BY <1>1, <2>3
    <3> QED
      BY <2>1, <3>1 DEF InOrder
  <2> QED
    BY <1>17, <2>2, <2>3 DEF BrowserDrop
<1>18. Goal
  <2> HIDE DEF Goal
  <2> QED
    BY <1>6, <1>8, <1>9, <1>10, <1>13, <1>14, <1>15, <1>16, <1>17, StepKinds
<1> QED
  BY <1>18

-----------------------------------------------------------------------------
(* Commands on their way.                                                  *)

\* v are the resumes being verified, t the frames behind them.  Those of a connection that broke come
\* first, and a fresh resume asks for no more than the page, which has seen h, still lacks.
Ordered(v, t, h) ==
    /\ \A i \in 1..Len(v) : v[i].fresh => v[i].since <= h
    /\ \A i \in 1..Len(t) : t[i].fresh /\ t[i].type = "resume" => t[i].since <= h
    /\ \A i, j \in 1..Len(v) : i < j /\ v[i].fresh => v[j].fresh
    /\ \A i, j \in 1..Len(t) : i < j /\ t[i].fresh => t[j].fresh
    /\ \A i \in 1..Len(v), j \in 1..Len(t) : v[i].fresh => t[j].fresh

Outlived(v, t) == (\E i \in 1..Len(v) : ~v[i].fresh) \/ \E i \in 1..Len(t) : ~t[i].fresh

LEMMA OrderedLater ==
    ASSUME NEW v \in Seq(Resumes), NEW t \in Seq(Commands), NEW h \in Nat, NEW l \in Nat, h <= l, Ordered(v, t, h)
    PROVE  Ordered(v, t, l)
<1>1. ASSUME NEW i \in 1..Len(v), v[i].fresh PROVE v[i].since <= l
  <2>1. v[i] \in Resumes
    OBVIOUS
  <2>2. v[i].since \in Nat /\ v[i].since <= h
    BY <1>1, <2>1 DEF Resumes, Ordered
  <2> QED
    BY <2>2
<1>2. ASSUME NEW i \in 1..Len(t), t[i].fresh, t[i].type = "resume" PROVE t[i].since <= l
  <2>1. t[i] \in Commands
    OBVIOUS
  <2>2. t[i].since \in Nat
    BY <1>2, <2>1 DEF Commands, Resumes
  <2>3. t[i].since <= h
    BY <1>2 DEF Ordered
  <2> QED
    BY <2>2, <2>3
<1>3. /\ \A i, j \in 1..Len(v) : i < j /\ v[i].fresh => v[j].fresh
      /\ \A i, j \in 1..Len(t) : i < j /\ t[i].fresh => t[j].fresh
      /\ \A i \in 1..Len(v), j \in 1..Len(t) : v[i].fresh => t[j].fresh
  BY Zenon DEF Ordered
<1> QED
  BY <1>1, <1>2, <1>3, Zenon DEF Ordered

LEMMA OrderedLoses ==
    ASSUME NEW v \in Seq(Resumes), NEW t \in Seq(Commands), t # <<>>, NEW h, Ordered(v, t, h)
    PROVE  Ordered(v, Tail(t), h) /\ (Outlived(v, Tail(t)) => Outlived(v, t))
<1> DEFINE s == Tail(t)
           n == Len(t) - 1
<1>1. n \in Nat /\ Len(s) = n /\ Len(t) = n + 1 /\ \A i \in 1..n : s[i] = t[i + 1] /\ i + 1 \in 1..Len(t)
  BY TailFacts
<1> HIDE DEF s, n
<1>2. \A i \in 1..n : s[i].fresh /\ s[i].type = "resume" => s[i].since <= h
  BY <1>1 DEF Ordered
<1>3. ASSUME NEW i \in 1..n, NEW j \in 1..n, i < j, s[i].fresh PROVE s[j].fresh
  <2>1. i + 1 < j + 1
    BY <1>1, <1>3
  <2> QED
    BY <1>1, <1>3, <2>1 DEF Ordered
<1>4. \A i \in 1..Len(v), j \in 1..n : v[i].fresh => s[j].fresh
  BY <1>1 DEF Ordered
<1>5. Ordered(v, s, h)
  BY <1>1, <1>2, <1>3, <1>4 DEF Ordered
<1>6. Outlived(v, s) => Outlived(v, t)
  BY <1>1 DEF Outlived
<1> QED
  BY <1>5, <1>6 DEF s

LEMMA OrderedReceived ==
    ASSUME NEW v \in Seq(Resumes), NEW t \in Seq(Commands), t # <<>>, t[1].type = "resume", NEW h, Ordered(v, t, h)
    PROVE  Ordered(Append(v, t[1]), Tail(t), h) /\ (Outlived(Append(v, t[1]), Tail(t)) => Outlived(v, t))
<1> DEFINE n == Len(t) - 1
           s == Tail(t)
           m == Len(v)
           w == Append(v, t[1])
<1>1. /\ n \in Nat /\ Len(s) = n /\ Len(t) = n + 1 /\ 1 \in 1..Len(t) /\ t[1] \in Commands
      /\ \A i \in 1..n : s[i] = t[i + 1] /\ i + 1 \in 1..Len(t)
  BY TailFacts
<1>2. t[1] \in Resumes
  BY <1>1, PlainTypes
<1>3. m \in Nat /\ Len(w) = m + 1 /\ w[m + 1] = t[1] /\ \A i \in 1..m : w[i] = v[i]
  BY <1>2, AppendFacts
<1>4. Ordered(v, s, h) /\ (Outlived(v, s) => Outlived(v, t))
  BY OrderedLoses
<1> HIDE DEF n, s, w, m
<1>5. \A i \in 1..(m + 1) : i \in 1..m \/ i = m + 1
  BY <1>3
<1>6. m = Len(v)
  BY DEF m
<1>7. \A j \in 1..n : t[1].fresh => s[j].fresh
  <2> SUFFICES ASSUME NEW j \in 1..n, t[1].fresh PROVE s[j].fresh
    OBVIOUS
  <2>1. 1 < j + 1 /\ j + 1 \in 1..Len(t)
    BY <1>1
  <2> QED
    BY <1>1, <2>1 DEF Ordered
<1>8. \A i \in 1..m : v[i].fresh => t[1].fresh
  BY <1>1, <1>6 DEF Ordered
<1>9. \A i \in 1..(m + 1) : w[i].fresh => w[i].since <= h
  BY <1>1, <1>3, <1>5, <1>6 DEF Ordered
<1>10. ASSUME NEW i \in 1..(m + 1), NEW j \in 1..(m + 1), i < j, w[i].fresh PROVE w[j].fresh
  <2>1. i \in 1..m
    BY <1>3, <1>10
  <2>2. CASE j \in 1..m
    BY <1>3, <1>6, <1>10, <2>1, <2>2 DEF Ordered
  <2>3. CASE j = m + 1
    BY <1>3, <1>8, <1>10, <2>1, <2>3
  <2> QED
    BY <1>5, <2>2, <2>3
<1>11. \A i \in 1..(m + 1), j \in 1..n : w[i].fresh => s[j].fresh
  <2> SUFFICES ASSUME NEW i \in 1..(m + 1), NEW j \in 1..n, w[i].fresh PROVE s[j].fresh
    OBVIOUS
  <2>1. CASE i \in 1..m
    BY <1>1, <1>3, <1>4, <1>6, <2>1 DEF Ordered
  <2>2. CASE i = m + 1
    BY <1>3, <1>7, <2>2
  <2> QED
    BY <1>5, <2>1, <2>2
<1>12. Ordered(w, s, h)
  BY <1>1, <1>3, <1>4, <1>9, <1>10, <1>11 DEF Ordered
<1>13. Outlived(w, s) => Outlived(v, t)
  <2> SUFFICES ASSUME Outlived(w, s) PROVE Outlived(v, t)
    OBVIOUS
  <2>1. CASE \E i \in 1..Len(s) : ~s[i].fresh
    BY <1>4, <2>1 DEF Outlived
  <2>2. CASE \E i \in 1..Len(w) : ~w[i].fresh
    <3>1. PICK i \in 1..(m + 1) : ~w[i].fresh
      BY <1>3, <2>2
    <3>2. CASE i \in 1..m
      BY <1>3, <1>6, <3>1, <3>2 DEF Outlived
    <3>3. CASE i = m + 1
      BY <1>1, <1>3, <3>1, <3>3 DEF Outlived
    <3> QED
      BY <1>5, <3>2, <3>3
  <2> QED
    BY <2>1, <2>2 DEF Outlived
<1> QED
  BY <1>12, <1>13 DEF w, s

LEMMA OrderedAnswered ==
    ASSUME NEW v \in Seq(Resumes), NEW t, v # <<>>, NEW h, Ordered(v, t, h)
    PROVE  /\ Ordered(Tail(v), t, h) /\ (Outlived(Tail(v), t) => Outlived(v, t))
           /\ v[1].fresh => ~Outlived(v, t) /\ v[1].since <= h
<1> DEFINE n == Len(v) - 1
           s == Tail(v)
<1>1. /\ n \in Nat /\ Len(s) = n /\ Len(v) = n + 1 /\ 1 \in 1..Len(v)
      /\ \A i \in 1..n : s[i] = v[i + 1] /\ i + 1 \in 1..Len(v)
  BY TailFacts
<1> HIDE DEF s, n
<1>2. \A i \in 1..n : s[i].fresh => s[i].since <= h
  BY <1>1 DEF Ordered
<1>3. ASSUME NEW i \in 1..n, NEW j \in 1..n, i < j, s[i].fresh PROVE s[j].fresh
  <2>1. i + 1 < j + 1
    BY <1>1, <1>3
  <2> QED
    BY <1>1, <1>3, <2>1 DEF Ordered
<1>4. \A i \in 1..n, j \in 1..Len(t) : s[i].fresh => t[j].fresh
  BY <1>1 DEF Ordered
<1>5. Ordered(s, t, h)
  BY <1>1, <1>2, <1>3, <1>4 DEF Ordered
<1>6. Outlived(s, t) => Outlived(v, t)
  BY <1>1 DEF Outlived
<1>7. ASSUME v[1].fresh PROVE ~Outlived(v, t) /\ v[1].since <= h
  <2>1. \A i \in 1..Len(v) : v[i].fresh
    <3> SUFFICES ASSUME NEW i \in 1..Len(v), i # 1 PROVE v[i].fresh
      BY <1>7
    <3>1. 1 < i
      BY <1>1
    <3> QED
      BY <1>1, <1>7, <3>1 DEF Ordered
  <2>2. \A j \in 1..Len(t) : t[j].fresh
    BY <1>1, <1>7 DEF Ordered
  <2> QED
    BY <1>1, <1>7, <2>1, <2>2 DEF Ordered, Outlived
<1> QED
  BY <1>5, <1>6, <1>7 DEF s

LEMMA OrderedSent ==
    ASSUME NEW v \in Seq(Resumes), NEW t \in Seq(Commands), NEW h, Ordered(v, t, h),
           NEW c \in Commands, c.fresh, c.type = "resume" => c.since <= h
    PROVE  Ordered(v, Append(t, c), h) /\ (Outlived(v, Append(t, c)) => Outlived(v, t))
<1> DEFINE n == Len(t)
           s == Append(t, c)
<1>1. n \in Nat /\ Len(s) = n + 1 /\ s[n + 1] = c /\ \A i \in 1..n : s[i] = t[i]
  BY AppendFacts
<1>2. n = Len(t)
  OBVIOUS
<1> HIDE DEF s, n
<1>3. \A i \in 1..(n + 1) : i \in 1..n \/ i = n + 1
  BY <1>1
<1>4. \A i \in 1..(n + 1) : s[i].fresh /\ s[i].type = "resume" => s[i].since <= h
  BY <1>1, <1>2, <1>3 DEF Ordered
<1>5. ASSUME NEW i \in 1..(n + 1), NEW j \in 1..(n + 1), i < j, s[i].fresh PROVE s[j].fresh
  <2>1. CASE j = n + 1
    BY <1>1, <2>1
  <2>2. CASE j \in 1..n
    <3>1. i \in 1..n
      BY <1>1, <1>5, <2>2
    <3> QED
      BY <1>1, <1>2, <1>5, <2>2, <3>1 DEF Ordered
  <2> QED
    BY <1>3, <2>1, <2>2
<1>6. \A i \in 1..Len(v), j \in 1..(n + 1) : v[i].fresh => s[j].fresh
  BY <1>1, <1>2, <1>3 DEF Ordered
<1>7. Ordered(v, s, h)
  BY <1>1, <1>4, <1>5, <1>6 DEF Ordered
<1>8. Outlived(v, s) => Outlived(v, t)
  BY <1>1, <1>2, <1>3 DEF Outlived
<1> QED
  BY <1>7, <1>8 DEF s

-----------------------------------------------------------------------------
(* While the answer to a command of a broken connection may yet come, the  *)
(* page has greeted the daemon and awaits the snapshot.                    *)

CommandsOK(b) ==
    /\ Ordered(verifying[b], toDaemon[b], highestSeq[b])
    /\ b \in registered /\ Outlived(verifying[b], toDaemon[b]) => Greeting(inbox[b], b, awaiting)

CommandsInv == \A b \in Browsers : CommandsOK(b)

\* a step that answers none of its resumes leaves a page waiting
LEMMA GreetingKept ==
    ASSUME TypeOK, JournalInv, [Next]_vars, NEW b \in Browsers, b \in registered',
           b \in registered => Greeting(inbox[b], b, awaiting),
           AnswerResume(b) => ~Head(verifying[b]).fresh
    PROVE  Greeting(inbox'[b], b, awaiting')
<1> DEFINE G == Greeting(inbox[b], b, awaiting)
           NewG == Greeting(inbox'[b], b, awaiting')
<1>1. NetTypes /\ PageTypes /\ inbox[b] \in Seq(Frames)
  BY TypeParts DEF NetTypes
<1>2. b \in registered => G
  OBVIOUS
<1>3. ASSUME b \in registered, b \in awaiting' <=> b \in awaiting,
             NEW f \in Frames, inbox'[b] = Append(inbox[b], f), ~IsSnapshot(f)
      PROVE  NewG
  <2>1. Greeting(inbox'[b], b, awaiting)
    BY <1>1, <1>2, <1>3, GreetingAppended
  <2> QED
    BY <1>3, <2>1, SameWait DEF Greeting
<1>4. ASSUME Quiet(b) PROVE NewG
  BY <1>2, <1>4, SameWait DEF Quiet, Untouched, Greeting
<1>5. ASSUME Noted(b) PROVE NewG
  <2>1. /\ Plain("ack") \in Frames /\ Plain("peer_online") \in Frames
        /\ ~IsSnapshot(Plain("ack")) /\ ~IsSnapshot(Plain("peer_online"))
    BY PlainTypes DEF IsSnapshot, IsEvent
  <2>2. b \in registered /\ (b \in awaiting' <=> b \in awaiting)
    BY <1>5 DEF Noted, Untouched
  <2> HIDE DEF NewG
  <2> QED
    BY <1>3, <1>5, <2>1, <2>2 DEF Noted
<1>6. ASSUME Pushed(b) PROVE NewG
  <2>1. PICK e \in Events : inbox'[b] = Append(inbox[b], EventFrame(e, "live"))
    BY <1>6 DEF Pushed
  <2>2. EventFrame(e, "live") \in Frames /\ ~IsSnapshot(EventFrame(e, "live"))
    BY EventFrameTypes DEF IsSnapshot
  <2>3. b \in registered /\ (b \in awaiting' <=> b \in awaiting)
    BY <1>6 DEF Pushed, Reaches, Untouched
  <2> HIDE DEF NewG
  <2> QED
    BY <1>3, <2>1, <2>2, <2>3
<1>7. ASSUME AnswerResume(b) /\ Reaches(b) PROVE NewG
  <2> DEFINE q == inbox[b]
             p == inbox'[b]
  <2>1. PICK a \in Seq(Events), frames \in Seq(Frames) :
            /\ Answers(a, Head(verifying[b]).since, Head(verifying[b]).offset)
            /\ inbox'[b] = inbox[b] \o frames /\ Len(frames) = Len(a)
            /\ inbox'[b] \in Seq(Frames) /\ Len(inbox'[b]) = Len(inbox[b]) + Len(frames)
            /\ \A i \in 1..Len(inbox[b]) : inbox'[b][i] = inbox[b][i]
            /\ \A k \in 1..Len(frames) :
                  LET f == inbox'[b][Len(inbox[b]) + k] IN
                  /\ f = frames[k] /\ IsEvent(f) /\ f.event = a[k]
                  /\ IsSnapshot(f) <=> Head(verifying[b]).fresh /\ k = Len(a)
                  /\ f.via = "stale" <=> ~Head(verifying[b]).fresh
    BY <1>7, AnswerSent
  <2>2. b \in registered /\ awaiting' = awaiting /\ ~Head(verifying[b]).fresh
    BY <1>7 DEF AnswerResume, Reaches
  <2> DEFINE n == Len(q)
             m == Len(frames)
  <2>3. n \in Nat /\ m \in Nat /\ Len(p) = n + m /\ \A i \in 1..n : p[i] = q[i]
    BY <1>1, <2>1
  <2>4. \A k \in 1..m : ~IsSnapshot(p[n + k])
    BY <2>1, <2>2
  <2>5. Awaits(q, b, awaiting, n)
    BY <1>2, <2>2 DEF Greeting
  <2> HIDE DEF n, m, p, q
  <2>6. Awaits(p, b, awaiting, n)
    <3>1. n \in 0..n
      BY <2>3
    <3> QED
      BY <2>3, <2>5, <3>1, AwaitsPrefix
  <2>7. \A k \in (n + 1)..(n + m) : ~IsSnapshot(p[k])
    <3> SUFFICES ASSUME NEW k \in (n + 1)..(n + m) PROVE ~IsSnapshot(p[k])
      OBVIOUS
    <3>1. k - n \in 1..m /\ n + (k - n) = k
      BY <2>3
    <3> QED
      BY <2>4, <3>1
  <2>8. Awaits(p, b, awaiting, n + m)
    <3>1. CASE \E i \in 1..n : Greets(p[i]) /\ \A k \in (i + 1)..n : ~IsSnapshot(p[k])
      <4>1. PICK i \in 1..n : Greets(p[i]) /\ \A k \in (i + 1)..n : ~IsSnapshot(p[k])
        BY <3>1
      <4>2. i \in 1..(n + m) /\ \A k \in (i + 1)..(n + m) : k \in (i + 1)..n \/ k \in (n + 1)..(n + m)
        BY <2>3
      <4> QED
        BY <2>7, <4>1, <4>2 DEF Awaits
    <3>2. CASE b \in awaiting /\ \A k \in 1..n : ~IsSnapshot(p[k])
      <4>1. \A k \in 1..(n + m) : k \in 1..n \/ k \in (n + 1)..(n + m)
        BY <2>3
      <4> QED
        BY <2>7, <3>2, <4>1 DEF Awaits
    <3> QED
      BY <2>6, <3>1, <3>2 DEF Awaits
  <2> QED
    BY <2>2, <2>3, <2>8 DEF Greeting, p
<1>8. ASSUME inbox[b] # <<>>, inbox'[b] = Tail(inbox[b]), b \in registered,
             b \in awaiting' <=> Greets(inbox[b][1]) \/ (b \in awaiting /\ ~IsSnapshot(inbox[b][1]))
      PROVE  NewG
  <2> DEFINE q == inbox[b]
             m == Len(inbox[b]) - 1
  <2>1. m \in 0..(Len(q) - 1) /\ m + 1 = Len(q) /\ Len(Tail(q)) = m
    BY <1>1, <1>8, TailFacts
  <2>2. Awaits(q, b, awaiting, m + 1)
    BY <1>2, <1>8, <2>1 DEF Greeting
  <2> HIDE DEF m, q
  <2>3. q \in Seq(Frames) /\ q # <<>> /\ (b \in awaiting' <=> Greets(q[1]) \/ (b \in awaiting /\ ~IsSnapshot(q[1])))
    BY <1>1, <1>8 DEF q
  <2>4. Awaits(Tail(q), b, awaiting', m)
    BY <2>1, <2>2, <2>3, AwaitsTail
  <2> QED
    BY <1>8, <2>1, <2>4 DEF Greeting, q
<1>9. ASSUME NEW type \in {"registered", "peer_online"}, SayHello(b, type) PROVE NewG
  <2>1. /\ inbox[b] # <<>> /\ inbox[b][1].type = type /\ b \in awaiting' /\ b \in registered
        /\ inbox'[b] = Tail(inbox[b])
    BY <1>1, <1>9, TailFacts DEF SayHello, Reading, NetTypes
  <2>2. Greets(inbox[b][1])
    BY <2>1 DEF Greets
  <2> HIDE DEF NewG
  <2> QED
    BY <1>8, <2>1, <2>2
<1>10. ASSUME OnAck(b) PROVE NewG
  <2>1. /\ inbox[b] # <<>> /\ inbox[b][1].type = "ack" /\ awaiting' = awaiting /\ b \in registered
        /\ inbox'[b] = Tail(inbox[b])
    BY <1>1, <1>10, TailFacts DEF OnAck, Reading, NetTypes, history
  <2>2. ~Greets(inbox[b][1]) /\ ~IsSnapshot(inbox[b][1])
    BY <2>1 DEF Greets, IsSnapshot
  <2> HIDE DEF NewG
  <2> QED
    BY <1>8, <2>1, <2>2
<1>11. ASSUME OnEvent(b) PROVE NewG
  <2>1. /\ inbox[b] # <<>> /\ inbox[b][1].type = "event" /\ b \in registered
        /\ inbox'[b] = Tail(inbox[b])
        /\ awaiting' = IF inbox[b][1].via = "snapshot" THEN awaiting \ {b} ELSE awaiting
    BY <1>1, <1>11, TailFacts DEF OnEvent, Reading, NetTypes
  <2>2. ~Greets(inbox[b][1]) /\ (IsSnapshot(inbox[b][1]) <=> inbox[b][1].via = "snapshot")
    BY <2>1 DEF Greets, IsSnapshot
  <2> HIDE DEF NewG
  <2> QED
    BY <1>8, <2>1, <2>2
<1>12. ASSUME BrowserConnect(b) PROVE NewG
  <2>1. inbox'[b] = <<Plain("registered")>> /\ Len(inbox'[b]) = 1 /\ inbox'[b][1] = Plain("registered")
    BY <1>1, <1>12 DEF BrowserConnect, NetTypes
  <2>2. Greets(inbox'[b][1]) /\ 1 \in 1..1 /\ \A k \in (1 + 1)..1 : FALSE
    BY <2>1 DEF Greets, Plain
  <2> QED
    BY <2>1, <2>2 DEF Greeting, Awaits
<1>13. ASSUME BrowserDrop(b) PROVE NewG
  BY <1>13 DEF BrowserDrop
<1> HIDE DEF NewG
<1>14. NewG
  BY <1>4, <1>5, <1>6, <1>7, <1>9, <1>10, <1>11, <1>12, <1>13, StepKinds
<1> QED
  BY <1>14 DEF NewG

\* what a step does to the commands of one page
LEMMA CommandKinds ==
    ASSUME TypeOK, [Next]_vars, NEW b \in Browsers
    PROVE  \/ verifying'[b] \in {verifying[b], <<>>} /\ toDaemon'[b] = toDaemon[b]
           \/ verifying'[b] = verifying[b] /\ toDaemon[b] # <<>> /\ toDaemon'[b] = Tail(toDaemon[b])
           \/ ReceiveResume(b) \/ AnswerResume(b)
           \/ SayHello(b, "registered") \/ SayHello(b, "peer_online") \/ OnAck(b) \/ BrowserDrop(b)
<1> DEFINE Kinded ==
             \/ verifying'[b] \in {verifying[b], <<>>} /\ toDaemon'[b] = toDaemon[b]
             \/ verifying'[b] = verifying[b] /\ toDaemon[b] # <<>> /\ toDaemon'[b] = Tail(toDaemon[b])
             \/ ReceiveResume(b) \/ AnswerResume(b)
             \/ SayHello(b, "registered") \/ SayHello(b, "peer_online") \/ OnAck(b) \/ BrowserDrop(b)
<1>1. /\ verifying \in [Browsers -> Seq(Resumes)] /\ toDaemon \in [Browsers -> Seq(Commands)]
  BY DEF TypeOK
<1>2. ASSUME UNCHANGED <<verifying, toDaemon>> PROVE Kinded
  BY <1>2
<1>3. ASSUME \/ UNCHANGED vars \/ (\E kind \in PushKinds : Push(kind)) \/ DaemonRegistered
             \/ (\E c \in Browsers : BrowserConnect(c) \/ OnEvent(c)) \/ LinkDrop \/ DaemonReconnect
      PROVE  Kinded
  <2>1. UNCHANGED <<verifying, toDaemon>>
    BY <1>3 DEF vars, netVars, Push, DaemonRegistered, BrowserConnect, OnEvent, LinkDrop, DaemonReconnect
  <2> QED
    BY <1>2, <2>1
<1>4. ASSUME NEW c \in Browsers, ReceiveHello(c) \/ RelayLoses(c) PROVE Kinded
  <2>1. /\ toDaemon[c] # <<>> /\ toDaemon' = [toDaemon EXCEPT ![c] = Tail(@)]
        /\ verifying' = verifying
    BY <1>4 DEF ReceiveHello, RelayLoses
  <2> QED
    BY <1>1, <2>1
<1>5. ASSUME NEW c \in Browsers, ReceiveResume(c) \/ AnswerResume(c) PROVE Kinded
  <2>1. CASE c = b
    BY <1>5, <2>1
  <2>2. CASE c # b
    <3>1. verifying'[b] = verifying[b] /\ toDaemon'[b] = toDaemon[b]
      BY <1>1, <1>5, <2>2 DEF ReceiveResume, AnswerResume
    <3> QED
      BY <3>1
  <2> QED
    BY <2>1, <2>2
<1>6. ASSUME NEW c \in Browsers, SayHello(c, "registered") \/ SayHello(c, "peer_online") \/ OnAck(c) PROVE Kinded
  <2>1. CASE c = b
    BY <1>6, <2>1
  <2>2. CASE c # b
    <3>1. verifying'[b] = verifying[b] /\ toDaemon'[b] = toDaemon[b]
      BY <1>1, <1>6, <2>2 DEF SayHello, OnAck
    <3> QED
      BY <3>1
  <2> QED
    BY <2>1, <2>2
<1>7. ASSUME NEW c \in Browsers, BrowserDrop(c) PROVE Kinded
  <2>1. CASE c = b
    BY <1>7, <2>1
  <2>2. CASE c # b
    <3>1. verifying'[b] = verifying[b] /\ toDaemon'[b] = toDaemon[b]
      BY <1>1, <1>7, <2>2 DEF BrowserDrop
    <3> QED
      BY <3>1
  <2> QED
    BY <2>1, <2>2
<1>8. ASSUME Restart PROVE Kinded
  <2>1. verifying'[b] = <<>> /\ toDaemon' = toDaemon
    BY <1>8 DEF Restart
  <2> QED
    BY <2>1
<1> HIDE DEF Kinded
<1>9. Kinded
  BY <1>3, <1>4, <1>5, <1>6, <1>7, <1>8
  DEF Next, DaemonStep, BrowserStep, NetworkStep, OnRegistered, OnPeerOnline
<1> QED
  BY <1>9 DEF Kinded

LEMMA HighestGrows ==
    ASSUME TypeOK, JournalInv, [Next]_vars, NEW b \in Browsers
    PROVE  BrowserDrop(b) \/ (highestSeq'[b] \in Nat /\ highestSeq[b] <= highestSeq'[b])
<1> DEFINE Grows == BrowserDrop(b) \/ (highestSeq'[b] \in Nat /\ highestSeq[b] <= highestSeq'[b])
<1>1. NetTypes /\ PageTypes /\ inbox[b] \in Seq(Frames) /\ highestSeq \in [Browsers -> Nat]
  BY TypeParts DEF NetTypes, PageTypes
<1>2. ASSUME highestSeq'[b] = highestSeq[b] PROVE Grows
  BY <1>1, <1>2
<1>3. ASSUME \/ Quiet(b) \/ Noted(b) \/ Pushed(b) \/ AnswerResume(b) \/ SayHello(b, "registered")
             \/ SayHello(b, "peer_online") \/ OnAck(b) \/ BrowserConnect(b)
      PROVE  Grows
  <2>1. highestSeq'[b] = highestSeq[b]
    BY <1>3 DEF Quiet, Noted, Pushed, Untouched, AnswerResume, SayHello, OnAck, BrowserConnect, pageVars
  <2> QED
    BY <1>2, <2>1
<1>4. ASSUME OnEvent(b) PROVE Grows
  <2> DEFINE e == Head(inbox[b]).event
  <2>1. Apply(b, e) /\ IsEvent(Head(inbox[b])) /\ Head(inbox[b]) \in Frames
    BY <1>1, <1>4, TailFacts DEF OnEvent, Reading, IsEvent
  <2>2. e.seq \in Nat
    BY <2>1, FrameTypes DEF Events
  <2>3. highestSeq'[b] \in {highestSeq[b], IF e.seq > highestSeq[b] THEN e.seq ELSE highestSeq[b]}
    BY <1>1, <2>1 DEF Apply, pageVars
  <2> QED
    BY <1>1, <2>2, <2>3
<1> HIDE DEF Grows
<1>5. BrowserDrop(b) => Grows
  BY DEF Grows
<1>6. Grows
  BY <1>3, <1>4, <1>5, StepKinds
<1> QED
  BY <1>6 DEF Grows

LEMMA StepKeepsCommands ==
    ASSUME TypeOK, JournalInv, BodiesInv, CommandsInv, [Next]_vars
    PROVE  CommandsInv'
<1> SUFFICES ASSUME NEW b \in Browsers
             PROVE  /\ Ordered(verifying'[b], toDaemon'[b], highestSeq'[b])
                    /\ b \in registered' /\ Outlived(verifying'[b], toDaemon'[b])
                          => Greeting(inbox'[b], b, awaiting')
  BY DEF CommandsInv, CommandsOK
<1> DEFINE v == verifying[b]
           t == toDaemon[b]
           h == highestSeq[b]
           Goal == /\ Ordered(verifying'[b], toDaemon'[b], highestSeq'[b])
                   /\ b \in registered' /\ Outlived(verifying'[b], toDaemon'[b])
                         => Greeting(inbox'[b], b, awaiting')
<1>1. /\ NetTypes /\ PageTypes /\ v \in Seq(Resumes) /\ t \in Seq(Commands) /\ h \in Nat
      /\ verifying \in [Browsers -> Seq(Resumes)] /\ toDaemon \in [Browsers -> Seq(Commands)]
  BY TypeParts DEF NetTypes, PageTypes
<1>2. Ordered(v, t, h) /\ (b \in registered /\ Outlived(v, t) => Greeting(inbox[b], b, awaiting))
  BY DEF CommandsInv, CommandsOK
<1>3. verifying'[b] \in Seq(Resumes) /\ toDaemon'[b] \in Seq(Commands)
  BY StepKeepsNetTypes DEF NetTypes
<1>4. ASSUME Ordered(verifying'[b], toDaemon'[b], h), Outlived(verifying'[b], toDaemon'[b]) => Outlived(v, t),
             ~BrowserDrop(b), AnswerResume(b) => (v[1].fresh => ~Outlived(v, t)) /\ v[1] = Head(verifying[b])
      PROVE  Goal
  <2>1. highestSeq'[b] \in Nat /\ h <= highestSeq'[b]
    BY <1>4, HighestGrows
  <2> HIDE DEF h, v, t
  <2>2. Ordered(verifying'[b], toDaemon'[b], highestSeq'[b])
    BY <1>1, <1>3, <1>4, <2>1, OrderedLater
  <2>3. ASSUME b \in registered', Outlived(verifying'[b], toDaemon'[b]) PROVE Greeting(inbox'[b], b, awaiting')
    BY <1>2, <1>4, <2>3, GreetingKept
  <2> QED
    BY <2>2, <2>3
<1>5. ASSUME BrowserDrop(b) PROVE Goal
  <2>1. b \notin registered'
    BY <1>5 DEF BrowserDrop
  <2>2. PICK n \in 0..Len(t) : toDaemon'[b] = Outlive(t, n)
    BY <1>1, <1>5 DEF BrowserDrop
  <2>3. verifying'[b] = Outlive(v, Len(v))
    BY <1>1, <1>5 DEF BrowserDrop
  <2>4. \A i \in 1..Len(toDaemon'[b]) : ~toDaemon'[b][i].fresh
    <3>1. /\ Len(Outlive(t, n)) = n
          /\ \A i \in 1..n : Outlive(t, n)[i] = [t[i] EXCEPT !.fresh = FALSE]
      BY <1>1, OutliveTypes
    <3>2. \A i \in 1..n : t[i] \in Commands
      BY <1>1
    <3>3. \A i \in 1..n : ~[t[i] EXCEPT !.fresh = FALSE].fresh
      BY <3>2 DEF Commands, Resumes
    <3>4. \A i \in 1..n : ~Outlive(t, n)[i].fresh
      BY <3>1, <3>3
    <3> QED
      BY <2>2, <3>1, <3>4
  <2>5. \A i \in 1..Len(verifying'[b]) : ~verifying'[b][i].fresh
    <3>1. v \in Seq(Commands) /\ Len(v) \in 0..Len(v)
      BY <1>1, PlainTypes
    <3>2. /\ Len(Outlive(v, Len(v))) = Len(v)
          /\ \A i \in 1..Len(v) : Outlive(v, Len(v))[i] = [v[i] EXCEPT !.fresh = FALSE]
      BY <3>1, OutliveTypes
    <3>3. \A i \in 1..Len(v) : v[i] \in Resumes
      BY <1>1
    <3>4. \A i \in 1..Len(v) : ~[v[i] EXCEPT !.fresh = FALSE].fresh
      BY <3>3 DEF Resumes
    <3>5. \A i \in 1..Len(v) : ~Outlive(v, Len(v))[i].fresh
      BY <3>2, <3>4
    <3> QED
      BY <2>3, <3>2, <3>5
  <2> QED
    BY <2>1, <2>4, <2>5 DEF Ordered
<1>6. ASSUME ~BrowserDrop(b), ~AnswerResume(b), verifying'[b] \in {v, <<>>}, toDaemon'[b] = t PROVE Goal
  <2>1. Ordered(verifying'[b], t, h) /\ (Outlived(verifying'[b], t) => Outlived(v, t))
    <3>1. CASE verifying'[b] = v
      BY <1>2, <3>1
    <3>2. CASE verifying'[b] = <<>>
      <4>1. \A i \in 1..Len(<<>>) : FALSE
        OBVIOUS
      <4> QED
        BY <1>2, <3>2, <4>1 DEF Ordered, Outlived
    <3> QED
      BY <1>6, <3>1, <3>2
  <2> HIDE DEF Goal
  <2> QED
    BY <1>4, <1>6, <2>1
<1>7. ASSUME ~BrowserDrop(b), ~AnswerResume(b), verifying'[b] = v, t # <<>>, toDaemon'[b] = Tail(t) PROVE Goal
  <2> HIDE DEF Goal, v, t, h
  <2> QED
    BY <1>1, <1>2, <1>4, <1>7, OrderedLoses
<1>8. ASSUME ~BrowserDrop(b), ~AnswerResume(b), ReceiveResume(b) PROVE Goal
  <2>1. /\ t # <<>> /\ t[1].type = "resume" /\ toDaemon'[b] = Tail(t) /\ verifying'[b] = Append(v, t[1])
    BY <1>1, <1>8, TailFacts DEF ReceiveResume
  <2> HIDE DEF Goal, v, t, h
  <2> QED
    BY <1>1, <1>2, <1>4, <1>8, <2>1, OrderedReceived
<1>9. ASSUME ~BrowserDrop(b), AnswerResume(b) PROVE Goal
  <2>1. /\ v # <<>> /\ toDaemon'[b] = t /\ verifying'[b] = Tail(v) /\ v[1] = Head(verifying[b])
    BY <1>1, <1>9, TailFacts DEF AnswerResume
  <2> HIDE DEF Goal, v, t, h
  <2>2. /\ Ordered(Tail(v), t, h) /\ (Outlived(Tail(v), t) => Outlived(v, t))
        /\ v[1].fresh => ~Outlived(v, t)
    BY <1>1, <1>2, <2>1, OrderedAnswered
  <2> QED
    BY <1>4, <1>9, <2>1, <2>2
<1>10. ASSUME ~BrowserDrop(b), ~AnswerResume(b), NEW c \in Commands, c.fresh, c.type = "resume" => c.since <= h,
              verifying'[b] = v, toDaemon'[b] = Append(t, c)
       PROVE  Goal
  <2> HIDE DEF Goal, v, t, h
  <2> QED
    BY <1>1, <1>2, <1>4, <1>10, OrderedSent
<1>11. ASSUME ~BrowserDrop(b), ~AnswerResume(b), NEW type \in {"registered", "peer_online"}, SayHello(b, type)
       PROVE  Goal
  <2>1. verifying'[b] = v /\ toDaemon'[b] = Append(t, Hello)
    BY <1>1, <1>11 DEF SayHello
  <2>2. Hello \in Commands /\ Hello.fresh /\ Hello.type # "resume"
    BY PlainTypes DEF Hello
  <2> HIDE DEF Goal, v, t, h
  <2> QED
    BY <1>10, <1>11, <2>1, <2>2
<1>12. ASSUME ~BrowserDrop(b), ~AnswerResume(b), OnAck(b) PROVE Goal
  <2> DEFINE c == Resume(h, toolOffset[b])
  <2>1. verifying'[b] = v /\ toDaemon'[b] = Append(t, c)
    BY <1>1, <1>12 DEF OnAck
  <2>2. c \in Commands /\ c.fresh /\ c.since <= h
    <3>1. h \in Nat /\ toolOffset[b] \in Nat
      BY <1>1 DEF PageTypes
    <3>2. c \in Commands
      BY <3>1, PlainTypes
    <3>3. c.fresh /\ c.since = h
      BY DEF Resume
    <3> QED
      BY <3>1, <3>2, <3>3
  <2> HIDE DEF Goal, v, t, h, c
  <2> QED
    BY <1>10, <1>12, <2>1, <2>2
<1> HIDE DEF Goal
<1>13. Goal
  <2>1. CASE BrowserDrop(b)
    BY <1>5, <2>1
  <2>2. CASE AnswerResume(b) /\ ~BrowserDrop(b)
    BY <1>9, <2>2
  <2>3. CASE ~BrowserDrop(b) /\ ~AnswerResume(b)
    BY <1>6, <1>7, <1>8, <1>11, <1>12, <2>3, CommandKinds
  <2> QED
    BY <2>1, <2>2, <2>3
<1> QED
  BY <1>13 DEF Goal

-----------------------------------------------------------------------------
(* Holes.  As long as no crash has lost records, the journal only grows.   *)

LEMMA NothingLost ==
    ASSUME TypeOK, JournalInv, [Next]_vars, lost' = 0
    PROVE  Kept
<1>1. records \in Seq(Events) /\ Len(records) \in Nat /\ lost \in Nat /\ flushed \in 0..Len(records)
  BY DEF TypeOK
<1>2. CASE UNCHANGED <<records, lost>>
  BY <1>1, <1>2 DEF Kept
<1>3. ASSUME NEW kind \in PushKinds, Push(kind) PROVE Kept
  <2>1. PICK e \in Events : records' = Append(records, e)
    BY <1>3, PushFacts
  <2>2. lost' = lost
    BY <1>3 DEF Push
  <2> QED
    BY <1>1, <2>1, <2>2, AppendFacts DEF Kept
<1>4. ASSUME Restart PROVE Kept
  BY <1>4, RestartKeepsLog
<1>5. UNCHANGED <<records, lost>> \/ (\E kind \in PushKinds : Push(kind)) \/ Restart
  BY DEF Next, DaemonStep, BrowserStep, NetworkStep, vars, logVars, ReceiveHello, ReceiveResume, AnswerResume,
         DaemonRegistered, BrowserConnect, SayHello, OnRegistered, OnPeerOnline, OnAck, OnEvent,
         BrowserDrop, RelayLoses, LinkDrop, DaemonReconnect
<1> QED
  BY <1>2, <1>3, <1>4, <1>5

\* Nobody has seen, or is sent, a number that the journal has not reached.
Reached(q, h, n) == h <= n /\ \A j \in 1..Len(q) : IsEvent(q[j]) => q[j].event.seq <= n

NumbersInv == lost = 0 => \A b \in Browsers : Reached(inbox[b], highestSeq[b], Len(records))

LEMMA StepKeepsNumbers ==
    ASSUME TypeOK, JournalInv, NumbersInv, [Next]_vars
    PROVE  NumbersInv'
<1> SUFFICES ASSUME lost' = 0, NEW b \in Browsers
             PROVE  Reached(inbox'[b], highestSeq'[b], Len(records'))
  BY DEF NumbersInv
<1> DEFINE q == inbox[b]
           h == highestSeq[b]
           N == Len(records)
           M == Len(records')
           Goal == Reached(inbox'[b], highestSeq'[b], M)
<1>1. /\ NetTypes /\ PageTypes /\ q \in Seq(Frames) /\ h \in Nat /\ records \in Seq(Events) /\ N \in Nat
      /\ highestSeq \in [Browsers -> Nat] /\ inbox \in [Browsers -> Seq(Frames)]
  BY TypeParts DEF NetTypes, PageTypes, LogTypes
<1>2. Kept /\ N <= M /\ M \in Nat
  <2>1. records' \in Seq(Events)
    BY StepKeepsLog DEF LogTypes
  <2>2. M \in Nat
    BY <2>1
  <2> QED
    BY <2>2, NothingLost DEF Kept
<1>3. Reached(q, h, N)
  BY <1>2 DEF NumbersInv, Kept
<1>4. \A f \in Frames : IsEvent(f) => f.event.seq \in Nat
  BY FrameTypes DEF Events
<1>5. Reached(q, h, M)
  <2>1. h <= M
    BY <1>1, <1>2, <1>3 DEF Reached
  <2>2. ASSUME NEW j \in 1..Len(q), IsEvent(q[j]) PROVE q[j].event.seq <= M
    <3>1. q[j].event.seq \in Nat /\ q[j].event.seq <= N
      BY <1>1, <1>3, <1>4, <2>2 DEF Reached
    <3> QED
      BY <1>1, <1>2, <3>1
  <2> QED
    BY <2>1, <2>2 DEF Reached
<1>6. ASSUME inbox'[b] = q, highestSeq'[b] = h PROVE Goal
  BY <1>5, <1>6
<1>7. ASSUME NEW f \in Frames, inbox'[b] = Append(q, f), highestSeq'[b] = h, IsEvent(f) => f.event.seq <= M
      PROVE  Goal
  <2> DEFINE n == Len(q)
             p == Append(q, f)
  <2>1. n \in Nat /\ Len(p) = n + 1 /\ p[n + 1] = f /\ \A i \in 1..n : p[i] = q[i]
    BY <1>1, AppendFacts
  <2>2. n = Len(q)
    OBVIOUS
  <2> HIDE DEF n, p, M
  <2>3. ASSUME NEW j \in 1..Len(p), IsEvent(p[j]) PROVE p[j].event.seq <= M
    <3>1. CASE j = n + 1
      BY <1>7, <2>1, <2>3, <3>1
    <3>2. CASE j \in 1..n
      BY <1>5, <2>1, <2>2, <2>3, <3>2 DEF Reached
    <3> QED
      BY <2>1, <3>1, <3>2
  <2> QED
    BY <1>5, <1>7, <2>3 DEF Reached, p
<1>8. ASSUME Noted(b) PROVE Goal
  <2>1. /\ Plain("ack") \in Frames /\ Plain("peer_online") \in Frames
        /\ ~IsEvent(Plain("ack")) /\ ~IsEvent(Plain("peer_online"))
    BY PlainTypes
  <2>2. highestSeq'[b] = h
    BY <1>8 DEF Noted, Untouched
  <2> HIDE DEF Goal, h
  <2> QED
    BY <1>7, <1>8, <2>1, <2>2 DEF Noted
<1>9. ASSUME Pushed(b) PROVE Goal
  <2>1. PICK e \in Events : /\ inbox'[b] = Append(inbox[b], EventFrame(e, "live"))
                            /\ records' = Append(records, e) /\ e.seq = N + 1
    BY <1>9 DEF Pushed
  <2>2. EventFrame(e, "live") \in Frames /\ EventFrame(e, "live").event = e
    BY EventFrameTypes
  <2>3. M = N + 1 /\ e.seq <= M
    BY <1>1, <2>1, AppendFacts
  <2>4. highestSeq'[b] = h
    BY <1>9 DEF Pushed, Untouched
  <2> HIDE DEF Goal, h, M
  <2> QED
    BY <1>7, <2>1, <2>2, <2>3, <2>4
<1>10. ASSUME AnswerResume(b), Reaches(b) PROVE Goal
  <2>1. PICK a \in Seq(Events), frames \in Seq(Frames) :
            /\ Answers(a, Head(verifying[b]).since, Head(verifying[b]).offset)
            /\ inbox'[b] = inbox[b] \o frames /\ Len(frames) = Len(a)
            /\ inbox'[b] \in Seq(Frames) /\ Len(inbox'[b]) = Len(inbox[b]) + Len(frames)
            /\ \A i \in 1..Len(inbox[b]) : inbox'[b][i] = inbox[b][i]
            /\ \A k \in 1..Len(frames) :
                  LET f == inbox'[b][Len(inbox[b]) + k] IN
                  /\ f = frames[k] /\ IsEvent(f) /\ f.event = a[k]
                  /\ IsSnapshot(f) <=> Head(verifying[b]).fresh /\ k = Len(a)
                  /\ f.via = "stale" <=> ~Head(verifying[b]).fresh
    BY <1>10, AnswerSent
  <2>2. highestSeq'[b] = h
    BY <1>10 DEF AnswerResume, pageVars
  <2>3. \A k \in 1..Len(a) : a[k].seq <= N
    <3>1. log.seq = N /\ \A r \in 1..N : records[r].seq = r
      BY DEF JournalInv, Journal
    <3>2. a[Len(a)].seq = N
      BY <2>1, <3>1, SnapshotFacts DEF Answers
    <3>3. ASSUME NEW k \in 1..(Len(a) - 1) PROVE a[k].seq <= N
      <4>1. CASE \E r \in 1..N : a[k] = records[r]
        BY <1>1, <3>1, <4>1
      <4>2. CASE a[k].seq = log.seq
        BY <1>1, <3>1, <4>2
      <4> QED
        BY <2>1, <4>1, <4>2 DEF Answers
    <3>4. \A k \in 1..Len(a) : k = Len(a) \/ k \in 1..(Len(a) - 1)
      BY <2>1 DEF Answers
    <3> QED
      BY <1>1, <3>2, <3>3, <3>4
  <2> DEFINE n == Len(q)
             p == inbox'[b]
  <2>4. n \in Nat /\ Len(a) \in Nat /\ Len(p) = n + Len(a) /\ n = Len(q)
    BY <1>1, <2>1
  <2>5. /\ \A i \in 1..n : p[i] = q[i]
        /\ \A k \in 1..Len(a) : p[n + k].event = a[k]
    BY <2>1
  <2>6. \A k \in 1..Len(a) : a[k].seq \in Nat
    <3>1. \A k \in 1..Len(a) : a[k] \in Events
      OBVIOUS
    <3> QED
      BY <3>1 DEF Events
  <2> HIDE DEF n, p, M, N, q
  <2>7. ASSUME NEW j \in 1..Len(p), IsEvent(p[j]) PROVE p[j].event.seq <= M
    <3>1. CASE j \in 1..n
      BY <1>5, <2>4, <2>5, <2>7, <3>1 DEF Reached
    <3>2. CASE \E k \in 1..Len(a) : j = n + k
      <4>1. PICK k \in 1..Len(a) : j = n + k
        BY <3>2
      <4>2. p[j].event.seq = a[k].seq /\ a[k].seq <= N /\ a[k].seq \in Nat
        BY <2>3, <2>5, <2>6, <4>1
      <4> QED
        BY <1>1, <1>2, <4>2
    <3>3. j \in 1..n \/ \E k \in 1..Len(a) : j = n + k
      <4>1. j \in 1..(n + Len(a))
        BY <2>4
      <4> QED
        BY <2>4, <4>1, IndexSplit
    <3> QED
      BY <3>1, <3>2, <3>3
  <2> QED
    BY <1>5, <2>2, <2>7 DEF Reached, p
<1>11. ASSUME q # <<>>, inbox'[b] = Tail(q), highestSeq'[b] = h \/ (IsEvent(q[1]) /\ highestSeq'[b] = q[1].event.seq)
       PROVE  Goal
  <2> DEFINE n == Len(q) - 1
             p == Tail(q)
  <2>1. n \in Nat /\ Len(p) = n /\ 1 \in 1..Len(q) /\ \A i \in 1..n : p[i] = q[i + 1] /\ i + 1 \in 1..Len(q)
    BY <1>1, <1>11, TailFacts
  <2> HIDE DEF n, p, M, q, h
  <2>2. \A j \in 1..Len(p) : IsEvent(p[j]) => p[j].event.seq <= M
    BY <1>5, <2>1 DEF Reached
  <2>3. highestSeq'[b] <= M
    BY <1>5, <1>11, <2>1 DEF Reached
  <2> QED
    BY <1>11, <2>2, <2>3 DEF Reached, p
<1>12. ASSUME SayHello(b, "registered") \/ SayHello(b, "peer_online") \/ OnAck(b) PROVE Goal
  <2>1. q # <<>> /\ inbox'[b] = Tail(q) /\ highestSeq'[b] = h
    BY <1>1, <1>12 DEF SayHello, OnAck, Reading, pageVars
  <2> HIDE DEF Goal, q, h
  <2> QED
    BY <1>11, <2>1
<1>13. ASSUME OnEvent(b) PROVE Goal
  <2>1. /\ q # <<>> /\ inbox'[b] = Tail(q) /\ q[1] = Head(q) /\ IsEvent(q[1]) /\ Apply(b, q[1].event)
    BY <1>1, <1>13, TailFacts DEF OnEvent, Reading, IsEvent
  <2>2. highestSeq'[b] = h \/ highestSeq'[b] = q[1].event.seq
    BY <1>1, <2>1 DEF Apply, pageVars
  <2> HIDE DEF Goal, q, h
  <2> QED
    BY <1>11, <2>1, <2>2
<1>14. ASSUME BrowserConnect(b) PROVE Goal
  <2>1. /\ highestSeq'[b] = h /\ Len(inbox'[b]) = 1 /\ inbox'[b][1] = Plain("registered")
    BY <1>1, <1>14 DEF BrowserConnect, pageVars
  <2>2. \A j \in 1..Len(inbox'[b]) : ~IsEvent(inbox'[b][j])
    BY <2>1, PlainTypes
  <2> QED
    BY <1>5, <2>1, <2>2 DEF Reached
<1>15. ASSUME BrowserDrop(b) PROVE Goal
  <2>1. Len(inbox'[b]) = 0 /\ highestSeq'[b] \in {0, h}
    BY <1>1, <1>15 DEF BrowserDrop, pageVars
  <2>2. \A j \in 1..Len(inbox'[b]) : FALSE
    BY <2>1
  <2> HIDE DEF M
  <2>3. highestSeq'[b] <= M
    BY <1>1, <1>2, <1>5, <2>1 DEF Reached
  <2> QED
    BY <2>2, <2>3 DEF Reached
<1>16. Quiet(b) => inbox'[b] = q /\ highestSeq'[b] = h
  BY DEF Quiet, Untouched
<1> HIDE DEF Goal
<1>17. Goal
  BY <1>6, <1>8, <1>9, <1>10, <1>12, <1>13, <1>14, <1>15, <1>16, StepKinds
<1> QED
  BY <1>17 DEF Goal

-----------------------------------------------------------------------------
(* Records a page may still see.                                           *)

Carried(q, e, m) == \E i \in 1..m : IsEvent(q[i]) /\ q[i].event = e

Expected(q, b, waiting, e) == Greeting(q, b, waiting) \/ Carried(q, e, Len(q))

\* What would move the page past r comes behind e, or races with the answer to its resume.
Guarded(q, b, waiting, e, r) ==
    \A m \in 0..(Len(q) - 1) : IsEvent(q[m + 1]) /\ r <= q[m + 1].event.seq =>
       Carried(q, e, m + 1) \/ (q[m + 1].via \in {"live", "stale"} /\ Awaits(q, b, waiting, m))

LEMMA AwaitsExtended ==
    ASSUME NEW q, NEW p, NEW n \in Nat, NEW l \in Nat, n <= l, \A i \in 1..n : p[i] = q[i],
           \A j \in (n + 1)..l : ~IsSnapshot(p[j]),
           NEW b, NEW waiting, Awaits(q, b, waiting, n), NEW m \in n..l
    PROVE  Awaits(p, b, waiting, m)
<1>1. n \in 0..n /\ \A k \in 1..m : k \in 1..n \/ k \in (n + 1)..l
  OBVIOUS
<1>2. Awaits(p, b, waiting, n)
  BY <1>1, AwaitsPrefix
<1>3. CASE \E i \in 1..n : Greets(p[i]) /\ \A k \in (i + 1)..n : ~IsSnapshot(p[k])
  <2>1. PICK i \in 1..n : Greets(p[i]) /\ \A k \in (i + 1)..n : ~IsSnapshot(p[k])
    BY <1>3
  <2>2. i \in 1..m /\ \A k \in (i + 1)..m : k \in (i + 1)..n \/ k \in (n + 1)..l
    OBVIOUS
  <2> QED
    BY <2>1, <2>2 DEF Awaits
<1>4. CASE b \in waiting /\ \A k \in 1..n : ~IsSnapshot(p[k])
  BY <1>1, <1>4 DEF Awaits
<1> QED
  BY <1>2, <1>3, <1>4 DEF Awaits

LEMMA GuardedExtended ==
    ASSUME NEW q \in Seq(Frames), NEW p \in Seq(Frames), NEW n \in Nat, n = Len(q), n <= Len(p),
           \A i \in 1..n : p[i] = q[i], NEW b, NEW waiting, NEW e, NEW r, Guarded(q, b, waiting, e, r),
           \A j \in (n + 1)..Len(p) : /\ ~IsSnapshot(p[j])
                                      /\ IsEvent(p[j]) => /\ p[j].via \in {"live", "stale"}
                                                          /\ Expected(q, b, waiting, e)
    PROVE  Guarded(p, b, waiting, e, r) /\ (Expected(q, b, waiting, e) => Expected(p, b, waiting, e))
<1> DEFINE l == Len(p)
<1>1. l \in Nat /\ n <= l /\ l = Len(p)
  OBVIOUS
<1> HIDE DEF l
<1>2. ASSUME NEW m \in 0..n, NEW k \in m..l, Carried(q, e, m) PROVE Carried(p, e, k)
  <2>1. PICK i \in 1..m : IsEvent(q[i]) /\ q[i].event = e
    BY <1>2 DEF Carried
  <2>2. i \in 1..n /\ i \in 1..k
    BY <1>1
  <2> QED
    BY <2>1, <2>2 DEF Carried
<1>3. ASSUME Greeting(q, b, waiting), NEW m \in n..l PROVE Awaits(p, b, waiting, m)
  <2>1. Awaits(q, b, waiting, n)
    BY <1>3 DEF Greeting
  <2>2. \A j \in (n + 1)..l : ~IsSnapshot(p[j])
    BY <1>1
  <2> QED
    BY <1>1, <2>1, <2>2, AwaitsExtended
<1>4. ASSUME NEW m \in 0..(l - 1), IsEvent(p[m + 1]), r <= p[m + 1].event.seq
      PROVE  Carried(p, e, m + 1) \/ (p[m + 1].via \in {"live", "stale"} /\ Awaits(p, b, waiting, m))
  <2>1. CASE m \in 0..(n - 1)
    <3>1. m + 1 \in 1..n /\ m \in 0..n /\ m + 1 \in 0..n /\ m + 1 \in (m + 1)..l
      BY <1>1, <2>1
    <3>2. p[m + 1] = q[m + 1]
      BY <3>1
    <3>3. Carried(q, e, m + 1) \/ (q[m + 1].via \in {"live", "stale"} /\ Awaits(q, b, waiting, m))
      BY <1>4, <2>1, <3>2 DEF Guarded
    <3>4. Awaits(q, b, waiting, m) => Awaits(p, b, waiting, m)
      BY <3>1, AwaitsPrefix
    <3> QED
      BY <1>2, <3>1, <3>2, <3>3, <3>4
  <2>2. CASE m \in n..(l - 1)
    <3>1. m + 1 \in (n + 1)..l /\ m \in n..l /\ n \in 0..n /\ m + 1 \in n..l
      BY <1>1, <2>2
    <3>2. p[m + 1].via \in {"live", "stale"} /\ Expected(q, b, waiting, e)
      BY <1>1, <1>4, <3>1
    <3>3. CASE Greeting(q, b, waiting)
      BY <1>3, <3>1, <3>2, <3>3
    <3>4. CASE Carried(q, e, n)
      BY <1>2, <3>1, <3>4
    <3> QED
      BY <3>2, <3>3, <3>4 DEF Expected
  <2>3. m \in 0..(n - 1) \/ m \in n..(l - 1)
    BY <1>1
  <2> QED
    BY <2>1, <2>2, <2>3
<1>5. ASSUME Expected(q, b, waiting, e) PROVE Expected(p, b, waiting, e)
  <2>1. l \in n..l /\ n \in 0..n
    BY <1>1
  <2>2. CASE Greeting(q, b, waiting)
    <3>1. Awaits(p, b, waiting, l)
      BY <1>3, <2>1, <2>2
    <3> QED
      BY <1>1, <3>1 DEF Expected, Greeting
  <2>3. CASE Carried(q, e, n)
    <3>1. Carried(p, e, l)
      BY <1>2, <2>1, <2>3
    <3> QED
      BY <1>1, <3>1 DEF Expected
  <2> QED
    BY <1>5, <2>2, <2>3 DEF Expected
<1>6. Guarded(p, b, waiting, e, r)
  BY <1>1, <1>4 DEF Guarded
<1> QED
  BY <1>5, <1>6

LEMMA GuardedTail ==
    ASSUME NEW q \in Seq(Frames), q # <<>>, NEW b, NEW waiting, NEW then,
           b \in then <=> (Greets(q[1]) \/ (b \in waiting /\ ~IsSnapshot(q[1]))),
           NEW e, NEW r, Guarded(q, b, waiting, e, r), ~(IsEvent(q[1]) /\ q[1].event = e)
    PROVE  /\ Guarded(Tail(q), b, then, e, r)
           /\ Expected(q, b, waiting, e) => Expected(Tail(q), b, then, e)
<1> DEFINE n == Len(q) - 1
           p == Tail(q)
<1>1. /\ n \in Nat /\ Len(p) = n /\ n = Len(q) - 1 /\ Len(q) = n + 1 /\ p = Tail(q)
      /\ \A i \in 1..n : p[i] = q[i + 1]
  BY TailFacts
<1> HIDE DEF n, p
<1>2. ASSUME NEW m \in 0..n, Carried(q, e, m + 1) PROVE Carried(p, e, m)
  <2>1. PICK i \in 1..(m + 1) : IsEvent(q[i]) /\ q[i].event = e
    BY <1>2 DEF Carried
  <2>2. i # 1
    BY <2>1
  <2>3. PICK k \in 1..m : i = k + 1
    <3>1. i - 1 \in 1..m /\ i = (i - 1) + 1
      BY <2>2
    <3> QED
      BY <3>1
  <2>4. k \in 1..n
    BY <1>1
  <2>5. p[k] = q[i]
    BY <1>1, <2>3, <2>4
  <2> QED
    BY <2>1, <2>3, <2>5 DEF Carried
<1>3. \A m \in 0..(Len(q) - 1) : Awaits(p, b, then, m) <=> Awaits(q, b, waiting, m + 1)
  BY <1>1, AwaitsTail
<1>4. ASSUME NEW m \in 0..(n - 1), IsEvent(p[m + 1]), r <= p[m + 1].event.seq
      PROVE  Carried(p, e, m + 1) \/ (p[m + 1].via \in {"live", "stale"} /\ Awaits(p, b, then, m))
  <2>1. m + 1 \in 1..n /\ m + 1 \in 0..n /\ m \in 0..(Len(q) - 1) /\ m + 1 \in 0..(Len(q) - 1)
    BY <1>1
  <2>2. p[m + 1] = q[(m + 1) + 1]
    BY <1>1, <2>1
  <2>3. \/ Carried(q, e, (m + 1) + 1)
        \/ q[(m + 1) + 1].via \in {"live", "stale"} /\ Awaits(q, b, waiting, m + 1)
    BY <1>4, <2>1, <2>2 DEF Guarded
  <2> QED
    BY <1>2, <1>3, <2>1, <2>2, <2>3
<1>5. ASSUME Expected(q, b, waiting, e) PROVE Expected(p, b, then, e)
  <2>1. n \in 0..n /\ n \in 0..(Len(q) - 1)
    BY <1>1
  <2>2. Awaits(q, b, waiting, n + 1) \/ Carried(q, e, n + 1)
    BY <1>1, <1>5 DEF Expected, Greeting
  <2>3. Awaits(p, b, then, n) \/ Carried(p, e, n)
    BY <1>2, <1>3, <2>1, <2>2
  <2> QED
    BY <1>1, <2>3 DEF Expected, Greeting
<1>6. Guarded(p, b, then, e, r)
  BY <1>1, <1>4 DEF Guarded
<1> QED
  BY <1>1, <1>5, <1>6

-----------------------------------------------------------------------------
(* The window that holds no event twice.                                   *)

LEMMA WindowHolds ==
    ASSUME TypeOK, JournalInv, NEW r \in 1..Len(records), r + MaxReplay > Len(records)
    PROVE  \E i \in 1..Len(log.replay) : log.replay[i] = records[r]
<1> DEFINE N == Len(records)
           l == Len(log.replay)
<1>1. /\ records \in Seq(Events) /\ N \in Nat /\ log.replay \in Seq(Events) /\ l \in Nat
      /\ MaxReplay \in Nat
  BY WindowAssumption DEF TypeOK, Logs
<1>2. /\ l >= N \/ l = MaxReplay
      /\ \A d \in 0..(l - 1) : d < N => log.replay[l - d] = records[N - d]
  BY DEF JournalInv, WindowOf
<1> HIDE DEF N, l
<1>3. N - r \in 0..(l - 1) /\ N - r < N /\ N - (N - r) = r /\ l - (N - r) \in 1..l
  BY <1>1, <1>2 DEF N
<1>4. log.replay[l - (N - r)] = records[r]
  BY <1>2, <1>3
<1> QED
  BY <1>3, <1>4 DEF l

LEMMA WindowIncreases ==
    ASSUME TypeOK, JournalInv, ~(Cardinality(ToSet(log.replay)) < Len(log.replay))
    PROVE  \A i, j \in 1..Len(log.replay) : i < j => log.replay[i].seq < log.replay[j].seq
<1> DEFINE N == Len(records)
           w == log.replay
           l == Len(log.replay)
           S == ToSet(log.replay)
<1>1. /\ records \in Seq(Events) /\ N \in Nat /\ w \in Seq(Events) /\ l \in Nat /\ DOMAIN w = 1..l
  BY DEF TypeOK, Logs
<1>2. /\ \A d \in 0..(l - 1) : d < N => w[l - d] = records[N - d]
      /\ \A i \in 1..l : \E j \in 1..N : w[i] = records[j]
      /\ \A i \in 1..N : records[i].seq = i
  BY DEF JournalInv, WindowOf, Journal
<1>3. w \in Surjection(1..l, S)
  <2>1. S = {w[i] : i \in 1..l}
    BY <1>1 DEF ToSet
  <2>2. w \in [1..l -> S]
    BY <1>1, <2>1
  <2> QED
    BY <2>1, <2>2 DEF Surjection
<1>4. ~(Cardinality(S) < l)
  OBVIOUS
<1> HIDE DEF N, w, l, S
<1>5. IsFiniteSet(1..l) /\ Cardinality(1..l) = l
  BY <1>1, FS_Interval
<1>6. Cardinality(S) <= l /\ IsFiniteSet(S) /\ (Cardinality(S) = l => w \in Injection(1..l, S))
  BY <1>3, <1>5, FS_Surjection
<1>7. Cardinality(S) = l
  BY <1>1, <1>4, <1>6, FS_CardinalityType
<1>8. \A i, j \in 1..l : w[i] = w[j] => i = j
  BY <1>6, <1>7 DEF Injection, IsInjective
<1>9. l <= N
  <2> SUFFICES ASSUME N < l PROVE FALSE
    BY <1>1
  <2>1. 1 \in 1..l
    BY <1>1
  <2>2. PICK j \in 1..N : w[1] = records[j]
    BY <1>2, <2>1
  <2>3. N - j \in 0..(l - 1) /\ N - j < N /\ N - (N - j) = j /\ l - (N - j) \in 1..l /\ l - (N - j) # 1
    BY <1>1
  <2>4. w[l - (N - j)] = records[j]
    BY <1>2, <2>3
  <2> QED
    BY <1>8, <2>1, <2>2, <2>3, <2>4
<1>10. \A i \in 1..l : w[i].seq = N - (l - i)
  <2> SUFFICES ASSUME NEW i \in 1..l PROVE w[i].seq = N - (l - i)
    OBVIOUS
  <2>1. l - i \in 0..(l - 1) /\ l - i < N /\ N - (l - i) \in 1..N /\ l - (l - i) = i
    BY <1>1, <1>9
  <2> QED
    BY <1>2, <2>1
<1>11. \A i, j \in 1..l : i < j => w[i].seq < w[j].seq
  BY <1>1, <1>10
<1> QED
  BY <1>11 DEF w, l

-----------------------------------------------------------------------------
(* What the window still holds and a page has not applied is ahead of it.  *)

\* record r belongs to the newest MaxReplay of the list, and s, a transcript, lacks it
Unseen(list, s, r) ==
    /\ r \in 1..Len(list) /\ r + MaxReplay > Len(list) /\ list[r].kind # "status"
    /\ \A k \in 1..Len(s) : s[k] # list[r].body[1]

\* a page on its way to see record r
Ahead(b, r) ==
    /\ highestSeq[b] < r
    /\ Reaches(b) => Expected(inbox[b], b, awaiting, records[r])
    /\ Guarded(inbox[b], b, awaiting, records[r], r)

HolesInv == lost = 0 => \A b \in Browsers \ (raced \cup doubled), r \in 1..Len(records) :
                           Unseen(records, seen[b], r) => Ahead(b, r)

\* one the session has just pushed
LEMMA NewIsAhead ==
    ASSUME TypeOK, JournalInv, NumbersInv, [Next]_vars, lost' = 0, NEW b \in Browsers,
           NEW r \in 1..Len(records'), r > Len(records)
    PROVE  Ahead(b, r)'
<1> DEFINE N == Len(records)
           M == Len(records')
           q == inbox[b]
           h == highestSeq[b]
<1>1. /\ NetTypes /\ PageTypes /\ q \in Seq(Frames) /\ h \in Nat /\ records \in Seq(Events) /\ N \in Nat
  BY TypeParts DEF NetTypes, PageTypes, LogTypes
<1>2. Kept /\ lost = 0
  BY NothingLost DEF Kept
<1>3. Reached(q, h, N)
  BY <1>2 DEF NumbersInv
<1>4. records' # records
  BY <1>1
<1>5. \A j \in 1..Len(q) : IsEvent(q[j]) => ~(r <= q[j].event.seq)
  <2> SUFFICES ASSUME NEW j \in 1..Len(q), IsEvent(q[j]) PROVE ~(r <= q[j].event.seq)
    OBVIOUS
  <2>1. q[j].event \in Events
    BY <1>1, FrameTypes
  <2>2. q[j].event.seq \in Nat /\ q[j].event.seq <= N
    BY <1>3, <2>1 DEF Reached, Events
  <2> QED
    BY <1>1, <2>2
<1>6. h < r
  BY <1>1, <1>3 DEF Reached
<1>7. ASSUME Quiet(b) PROVE Ahead(b, r)'
  <2>1. inbox'[b] = q /\ highestSeq'[b] = h /\ ~Reaches(b)'
    BY <1>4, <1>7 DEF Quiet, Untouched, logVars, Reaches
  <2>2. \A m \in 0..(Len(q) - 1) : m + 1 \in 1..Len(q)
    BY <1>1
  <2> HIDE DEF q, h
  <2>3. Guarded(q, b, awaiting', records'[r], r)
    BY <1>5, <2>2 DEF Guarded
  <2> QED
    BY <1>6, <2>1, <2>3 DEF Ahead
<1>8. ASSUME Pushed(b) PROVE Ahead(b, r)'
  <2>1. PICK e \in Events : /\ inbox'[b] = Append(inbox[b], EventFrame(e, "live"))
                            /\ records' = Append(records, e)
    BY <1>8 DEF Pushed
  <2> DEFINE f == EventFrame(e, "live")
             n == Len(q)
             p == inbox'[b]
  <2>2. f \in Frames /\ IsEvent(f) /\ f.event = e
    BY EventFrameTypes
  <2>3. r = N + 1 /\ records'[r] = e
    BY <1>1, <2>1, AppendFacts
  <2>4. n \in Nat /\ n = Len(q) /\ Len(p) = n + 1 /\ p[n + 1] = f /\ \A i \in 1..n : p[i] = q[i]
    BY <1>1, <2>1, <2>2, AppendFacts
  <2>5. highestSeq'[b] = h
    BY <1>8 DEF Pushed, Untouched
  <2> HIDE DEF f, n, p, q, h, N
  <2>6. Carried(p, e, n + 1)
    <3>1. n + 1 \in 1..(n + 1)
      BY <2>4
    <3> QED
      BY <2>2, <2>4, <3>1 DEF Carried
  <2>7. Guarded(p, b, awaiting', e, r)
    <3>1. \A m \in 0..(Len(p) - 1) : m = n \/ m + 1 \in 1..n
      BY <2>4
    <3> QED
      BY <1>5, <2>4, <2>6, <3>1 DEF Guarded
  <2>8. Expected(p, b, awaiting', e)
    BY <2>4, <2>6 DEF Expected
  <2> QED
    BY <1>6, <2>3, <2>5, <2>7, <2>8 DEF Ahead, p
<1>9. \/ UNCHANGED records
      \/ Quiet(b) \/ Pushed(b)
  BY StepKinds DEF Noted, logVars, AnswerResume, SayHello, OnAck, OnEvent, BrowserConnect, BrowserDrop
<1> QED
  BY <1>4, <1>7, <1>8, <1>9

\* the answer to a resume of this connection carries it
LEMMA AnswerCarries ==
    ASSUME TypeOK, JournalInv, CommandsInv, NEW b \in Browsers \ doubled', AnswerResume(b), Reaches(b),
           Head(verifying[b]).fresh, NEW r \in 1..Len(records), r + MaxReplay > Len(records),
           highestSeq[b] < r, Guarded(inbox[b], b, awaiting, records[r], r)
    PROVE  Expected(inbox'[b], b, awaiting', records[r]) /\ Guarded(inbox'[b], b, awaiting', records[r], r)
<1> DEFINE q == inbox[b]
           p == inbox'[b]
           n == Len(q)
           cmd == Head(verifying[b])
           e == records[r]
<1>1. PICK a \in Seq(Events), frames \in Seq(Frames) :
            /\ Answers(a, Head(verifying[b]).since, Head(verifying[b]).offset)
            /\ inbox'[b] = inbox[b] \o frames /\ Len(frames) = Len(a)
            /\ inbox'[b] \in Seq(Frames) /\ Len(inbox'[b]) = Len(inbox[b]) + Len(frames)
            /\ \A i \in 1..Len(inbox[b]) : inbox'[b][i] = inbox[b][i]
            /\ \A k \in 1..Len(frames) :
                  LET f == inbox'[b][Len(inbox[b]) + k] IN
                  /\ f = frames[k] /\ IsEvent(f) /\ f.event = a[k]
                  /\ IsSnapshot(f) <=> Head(verifying[b]).fresh /\ k = Len(a)
                  /\ f.via = "stale" <=> ~Head(verifying[b]).fresh
  BY AnswerSent
<1>2. /\ q \in Seq(Frames) /\ verifying[b] \in Seq(Resumes) /\ verifying[b] # <<>>
      /\ highestSeq[b] \in Nat /\ records \in Seq(Events) /\ Len(a) \in Nat /\ Len(records) \in Nat
  <2>1. /\ inbox \in [Browsers -> Seq(Frames)] /\ verifying \in [Browsers -> Seq(Resumes)]
        /\ highestSeq \in [Browsers -> Nat] /\ records \in Seq(Events)
    BY DEF TypeOK
  <2>2. verifying[b] # <<>>
    BY DEF AnswerResume
  <2>3. Len(a) \in Nat /\ Len(records) \in Nat
    BY <2>1
  <2> QED
    BY <2>1, <2>2, <2>3
<1>3. cmd = verifying[b][1] /\ cmd \in Resumes /\ cmd.since \in Nat
  <2>1. cmd = verifying[b][1] /\ cmd \in Resumes
    BY <1>2, TailFacts
  <2> QED
    BY <2>1 DEF Resumes
<1>4. cmd.since < r
  <2>1. Ordered(verifying[b], toDaemon[b], highestSeq[b])
    BY DEF CommandsInv, CommandsOK
  <2>2. cmd.since <= highestSeq[b]
    BY <1>2, <1>3, <2>1, OrderedAnswered
  <2> QED
    BY <1>2, <1>3, <2>2
<1>5. e.seq = r
  BY DEF JournalInv, Journal
<1>6. PICK i \in 1..Len(log.replay) : log.replay[i] = e
  BY WindowHolds
<1>7. \A x, y \in 1..Len(log.replay) : x < y => log.replay[x].seq < log.replay[y].seq
  <2>1. ~(Cardinality(ToSet(log.replay)) < Len(log.replay))
    BY DEF AnswerResume
  <2> QED
    BY <2>1, WindowIncreases
<1>8. PICK c \in 1..(Len(a) - 1) : a[c] = e
  <2>1. \A x \in 1..Len(log.replay) : log.replay[x].seq > cmd.since => \E k \in 1..(Len(a) - 1) : a[k] = log.replay[x]
    BY <1>1 DEF Answers
  <2> HIDE DEF cmd, e
  <2> QED
    BY <1>3, <1>4, <1>5, <1>6, <2>1
<1>9. ASSUME NEW k \in 1..(Len(a) - 1), r <= a[k].seq PROVE \E x \in 1..k : a[x] = e
  <2>1. \A x \in 1..Len(log.replay), y \in 1..(Len(a) - 1) :
           cmd.since < log.replay[x].seq /\ log.replay[x].seq <= a[y].seq => \E z \in 1..y : a[z] = log.replay[x]
    BY <1>1, <1>7 DEF Answers
  <2> HIDE DEF cmd, e
  <2>2. e.seq <= a[k].seq /\ cmd.since < e.seq
    BY <1>4, <1>5, <1>9
  <2> QED
    BY <1>6, <2>1, <2>2
<1>10. ASSUME NEW k \in 1..Len(a), r <= a[k].seq PROVE \E x \in 1..k : a[x] = e
  <2>1. CASE k \in 1..(Len(a) - 1)
    BY <1>9, <1>10, <2>1
  <2>2. CASE k = Len(a)
    <3>1. c \in 1..k
      BY <1>2, <2>2
    <3> QED
      BY <1>8, <3>1
  <2> QED
    BY <1>2, <2>1, <2>2
<1>11. /\ n \in Nat /\ n = Len(q) /\ Len(p) = n + Len(a)
       /\ \A x \in 1..n : p[x] = q[x]
       /\ \A k \in 1..Len(a) : IsEvent(p[n + k]) /\ p[n + k].event = a[k]
  BY <1>1, <1>2, SMTT(40)
<1>12. \A m \in 0..(n - 1) : IsEvent(q[m + 1]) /\ r <= q[m + 1].event.seq =>
          Carried(q, e, m + 1) \/ (q[m + 1].via \in {"live", "stale"} /\ Awaits(q, b, awaiting, m))
  BY DEF Guarded
<1>13. awaiting' = awaiting
  BY DEF AnswerResume
<1> HIDE DEF q, p, n, cmd, e
<1>14. ASSUME NEW k \in 1..Len(a), NEW x \in 1..k, a[x] = e PROVE Carried(p, e, n + k)
  <2>1. n + x \in 1..(n + k) /\ x \in 1..Len(a)
    BY <1>2, <1>11
  <2> QED
    BY <1>11, <1>14, <2>1 DEF Carried
<1>15. Expected(p, b, awaiting, e)
  <2>1. Len(a) \in 1..Len(a) /\ c \in 1..Len(a)
    BY <1>2
  <2>2. Carried(p, e, n + Len(a))
    BY <1>8, <1>14, <2>1
  <2> QED
    BY <1>11, <2>2 DEF Expected
<1>16. ASSUME NEW m \in 0..(Len(p) - 1), IsEvent(p[m + 1]), r <= p[m + 1].event.seq
       PROVE  Carried(p, e, m + 1) \/ (p[m + 1].via \in {"live", "stale"} /\ Awaits(p, b, awaiting, m))
  <2>1. CASE m \in 0..(n - 1)
    <3>1. m + 1 \in 1..n /\ m \in 0..n /\ \A x \in 1..(m + 1) : p[x] = q[x]
      BY <1>11, <2>1, SMTT(40)
    <3>2. p[m + 1] = q[m + 1]
      BY <1>11, <3>1
    <3>3. Carried(q, e, m + 1) \/ (q[m + 1].via \in {"live", "stale"} /\ Awaits(q, b, awaiting, m))
      BY <1>12, <1>16, <2>1, <3>2
    <3>4. Awaits(q, b, awaiting, m) => Awaits(p, b, awaiting, m)
      BY <1>11, <3>1, AwaitsPrefix
    <3>5. Carried(q, e, m + 1) => Carried(p, e, m + 1)
      BY <3>1 DEF Carried
    <3> QED
      BY <3>2, <3>3, <3>4, <3>5
  <2>2. CASE \E k \in 1..Len(a) : m + 1 = n + k
    <3>1. PICK k \in 1..Len(a) : m + 1 = n + k
      BY <2>2
    <3>2. r <= a[k].seq
      BY <1>11, <1>16, <3>1
    <3> QED
      BY <1>10, <1>14, <3>1, <3>2
  <2>3. m \in 0..(n - 1) \/ \E k \in 1..Len(a) : m + 1 = n + k
    <3>1. m + 1 \in 1..(n + Len(a))
      BY <1>2, <1>11
    <3>2. m + 1 \in 1..n \/ \E k \in 1..Len(a) : m + 1 = n + k
      BY <1>2, <1>11, <3>1, IndexSplit, Zenon
    <3>3. m + 1 \in 1..n => m \in 0..(n - 1)
      BY <1>11
    <3> QED
      BY <3>2, <3>3
  <2> QED
    BY <2>1, <2>2, <2>3
<1>17. Guarded(p, b, awaiting, e, r)
  BY <1>16 DEF Guarded
<1> QED
  BY <1>13, <1>15, <1>17 DEF p, e

\* one it lacked before the step
LEMMA OldStaysAhead ==
    ASSUME TypeOK, JournalInv, BodiesInv, StatusInv, CommandsInv, [Next]_vars, lost' = 0,
           NEW b \in Browsers \ (raced \cup doubled)', NEW r \in 1..Len(records),
           Ahead(b, r), Unseen(records', seen'[b], r), ~BrowserDrop(b)
    PROVE  Ahead(b, r)'
<1> DEFINE q == inbox[b]
           h == highestSeq[b]
           e == records[r]
           Goal == Ahead(b, r)'
<1>1. /\ NetTypes /\ PageTypes /\ q \in Seq(Frames) /\ h \in Nat /\ records \in Seq(Events) /\ seen[b] \in Seq(Ids)
  BY TypeParts DEF NetTypes, PageTypes, LogTypes
<1>2. records'[r] = e /\ r \in Nat
  BY NothingLost DEF Kept
<1>3. h < r /\ Guarded(q, b, awaiting, e, r) /\ (Reaches(b) => Expected(q, b, awaiting, e))
  BY DEF Ahead
<1>4. /\ e.kind # "status" /\ \A k \in 1..Len(seen'[b]) : seen'[b][k] # e.body[1]
  BY <1>2 DEF Unseen
<1>5. e.seq = r /\ Len(e.body) = 1 /\ e \in Events
  BY <1>1 DEF JournalInv, Journal
<1>6. b \notin raced' /\ b \notin doubled'
  OBVIOUS
<1>7. ASSUME highestSeq'[b] = h, Guarded(inbox'[b], b, awaiting', e, r), Reaches(b)' => Expected(inbox'[b], b, awaiting', e)
      PROVE  Goal
  BY <1>2, <1>3, <1>7 DEF Ahead
<1>8. ASSUME b \in awaiting' <=> b \in awaiting, NEW p
      PROVE  (Guarded(p, b, awaiting, e, r) => Guarded(p, b, awaiting', e, r))
             /\ (Expected(p, b, awaiting, e) <=> Expected(p, b, awaiting', e))
  BY <1>8, SameWait DEF Guarded, Expected, Greeting
<1>9. ASSUME NEW f \in Frames, inbox'[b] = Append(q, f), ~IsSnapshot(f), highestSeq'[b] = h,
             b \in awaiting' <=> b \in awaiting,
             IsEvent(f) => f.via \in {"live", "stale"} /\ Expected(q, b, awaiting, e),
             Reaches(b)' => Expected(q, b, awaiting, e)
      PROVE  Goal
  <2> DEFINE n == Len(q)
             p == inbox'[b]
  <2>1. n \in Nat /\ n = Len(q) /\ p \in Seq(Frames) /\ Len(p) = n + 1 /\ p[n + 1] = f /\ \A i \in 1..n : p[i] = q[i]
    BY <1>1, <1>9, AppendFacts
  <2> HIDE DEF n, p, q, e, Goal, h
  <2>2. \A j \in (n + 1)..Len(p) : j = n + 1
    BY <2>1
  <2>3. Guarded(p, b, awaiting, e, r) /\ (Expected(q, b, awaiting, e) => Expected(p, b, awaiting, e))
    <3>1. n <= Len(p)
      BY <2>1
    <3>2. \A j \in (n + 1)..Len(p) : /\ ~IsSnapshot(p[j])
                                     /\ IsEvent(p[j]) => /\ p[j].via \in {"live", "stale"}
                                                         /\ Expected(q, b, awaiting, e)
      BY <1>9, <2>1, <2>2
    <3> QED
      BY <1>1, <1>3, <2>1, <3>1, <3>2, GuardedExtended
  <2> QED
    BY <1>7, <1>8, <1>9, <2>3 DEF p
<1>10. ASSUME Quiet(b) PROVE Goal
  <2>1. highestSeq'[b] = h /\ inbox'[b] = q
    BY <1>10 DEF Quiet, Untouched
  <2>2. b \in awaiting' <=> b \in awaiting
    BY <1>10 DEF Quiet, Untouched
  <2>3. ASSUME Reaches(b)' PROVE Expected(q, b, awaiting, e)
    <3>1. b \in registered /\ link \in {"up", "registering"}
      BY <1>10, <2>3 DEF Quiet, Untouched, Reaches
    <3>2. link = "registering" => Greeting(q, b, awaiting)
      BY <3>1 DEF StatusInv, StatusFollows
    <3> QED
      BY <1>3, <3>1, <3>2 DEF Reaches, Expected
  <2> HIDE DEF Goal, q, h, e
  <2> QED
    BY <1>3, <1>7, <1>8, <2>1, <2>2, <2>3
<1>11. ASSUME Noted(b) PROVE Goal
  <2>1. highestSeq'[b] = h /\ b \in registered
    BY <1>11 DEF Noted, Untouched
  <2>2. b \in awaiting' <=> b \in awaiting
    BY <1>11 DEF Noted, Untouched
  <2>3. \A t \in {"ack", "peer_online"} : Plain(t) \in Frames /\ ~IsEvent(Plain(t)) /\ ~IsSnapshot(Plain(t))
    BY PlainTypes DEF IsSnapshot, IsEvent
  <2>4. PICK t \in {"ack", "peer_online"} : inbox'[b] = Append(q, Plain(t))
    BY <1>11 DEF Noted
  <2>5. ASSUME Reaches(b)' PROVE Expected(q, b, awaiting, e)
    BY <1>3, <1>11, <2>1, <2>5 DEF Noted, Reaches
  <2> HIDE DEF Goal, q, h, e
  <2> QED
    BY <1>9, <2>1, <2>2, <2>3, <2>4, <2>5
<1>12. ASSUME Pushed(b) PROVE Goal
  <2>1. PICK g \in Events : inbox'[b] = Append(q, EventFrame(g, "live"))
    BY <1>12 DEF Pushed
  <2>2. /\ EventFrame(g, "live") \in Frames /\ EventFrame(g, "live").via = "live" /\ ~IsSnapshot(EventFrame(g, "live"))
    BY EventFrameTypes DEF IsSnapshot
  <2>3. highestSeq'[b] = h /\ Expected(q, b, awaiting, e)
    BY <1>3, <1>12 DEF Pushed, Untouched
  <2>4. b \in awaiting' <=> b \in awaiting
    BY <1>12 DEF Pushed, Untouched
  <2> HIDE DEF Goal, q, h, e
  <2> QED
    BY <1>9, <2>1, <2>2, <2>3, <2>4
<1>13. ASSUME AnswerResume(b), Reaches(b) PROVE Goal
  <2>1. highestSeq'[b] = h /\ awaiting' = awaiting /\ b \in registered /\ b \in registered' /\ records' = records
    BY <1>13 DEF AnswerResume, pageVars, logVars, Reaches
  <2>2. CASE Head(verifying[b]).fresh
    <3>1. r + MaxReplay > Len(records)
      BY <2>1 DEF Unseen
    <3>2. Expected(inbox'[b], b, awaiting', e) /\ Guarded(inbox'[b], b, awaiting', e, r)
      BY <1>3, <1>6, <1>13, <2>2, <3>1, AnswerCarries
    <3> HIDE DEF Goal, h, e
    <3> QED
      BY <1>7, <2>1, <3>2
  <2>3. CASE ~Head(verifying[b]).fresh
    <3>1. PICK a \in Seq(Events), frames \in Seq(Frames) :
              /\ Answers(a, Head(verifying[b]).since, Head(verifying[b]).offset)
              /\ inbox'[b] = inbox[b] \o frames /\ Len(frames) = Len(a)
              /\ inbox'[b] \in Seq(Frames) /\ Len(inbox'[b]) = Len(inbox[b]) + Len(frames)
              /\ \A i \in 1..Len(inbox[b]) : inbox'[b][i] = inbox[b][i]
              /\ \A k \in 1..Len(frames) :
                    LET f == inbox'[b][Len(inbox[b]) + k] IN
                    /\ f = frames[k] /\ IsEvent(f) /\ f.event = a[k]
                    /\ IsSnapshot(f) <=> Head(verifying[b]).fresh /\ k = Len(a)
                    /\ f.via = "stale" <=> ~Head(verifying[b]).fresh
      BY <1>13, AnswerSent
    <3> DEFINE n == Len(q)
               p == inbox'[b]
               m == Len(frames)
    <3>2. n \in Nat /\ n = Len(q) /\ m \in Nat /\ p \in Seq(Frames) /\ Len(p) = n + m /\ \A i \in 1..n : p[i] = q[i]
      BY <1>1, <3>1
    <3>3. \A k \in 1..m : ~IsSnapshot(p[n + k]) /\ p[n + k].via = "stale"
      BY <2>3, <3>1
    <3>4. Greeting(q, b, awaiting)
      <4>1. verifying[b] \in Seq(Resumes) /\ verifying[b] # <<>>
        BY <1>1, <1>13 DEF NetTypes, AnswerResume
      <4>2. 1 \in 1..Len(verifying[b]) /\ ~verifying[b][1].fresh
        BY <2>3, <4>1, TailFacts
      <4>3. Outlived(verifying[b], toDaemon[b])
        BY <4>2 DEF Outlived
      <4> QED
        BY <2>1, <4>3 DEF CommandsInv, CommandsOK
    <3> HIDE DEF n, p, m, q, e, Goal, h
    <3>5. Expected(q, b, awaiting, e)
      BY <3>4 DEF Expected
    <3>6. \A j \in (n + 1)..Len(p) : ~IsSnapshot(p[j]) /\ p[j].via = "stale"
      <4> SUFFICES ASSUME NEW j \in (n + 1)..Len(p) PROVE ~IsSnapshot(p[j]) /\ p[j].via = "stale"
        OBVIOUS
      <4>1. j - n \in 1..m /\ n + (j - n) = j
        BY <3>2
      <4> QED
        BY <3>3, <4>1
    <3>7. Guarded(p, b, awaiting, e, r) /\ Expected(p, b, awaiting, e)
      <4>1. n <= Len(p)
        BY <3>2
      <4>2. \A j \in (n + 1)..Len(p) : /\ ~IsSnapshot(p[j])
                                       /\ IsEvent(p[j]) => /\ p[j].via \in {"live", "stale"}
                                                           /\ Expected(q, b, awaiting, e)
        BY <3>5, <3>6
      <4> QED
        BY <1>1, <1>3, <3>2, <3>5, <4>1, <4>2, GuardedExtended
    <3> QED
      BY <1>7, <2>1, <3>7 DEF p
  <2> QED
    BY <2>2, <2>3
<1>14. ASSUME q # <<>>, inbox'[b] = Tail(q), ~(IsEvent(q[1]) /\ q[1].event = e),
              b \in awaiting' <=> (Greets(q[1]) \/ (b \in awaiting /\ ~IsSnapshot(q[1]))), Reaches(b)' <=> Reaches(b)
       PROVE  /\ Guarded(inbox'[b], b, awaiting', e, r)
              /\ Reaches(b)' => Expected(inbox'[b], b, awaiting', e)
  <2> HIDE DEF q, e
  <2> QED
    BY <1>1, <1>3, <1>14, GuardedTail
<1>15. ASSUME NEW type \in {"registered", "peer_online"}, SayHello(b, type) PROVE Goal
  <2>1. /\ q # <<>> /\ q[1].type = type /\ b \in awaiting' /\ inbox'[b] = Tail(q) /\ highestSeq'[b] = h
        /\ link' = link /\ registered' = registered
    BY <1>1, <1>15, TailFacts DEF SayHello, Reading, NetTypes, pageVars
  <2>2. Greets(q[1]) /\ ~IsEvent(q[1]) /\ (Reaches(b)' <=> Reaches(b))
    BY <2>1 DEF Greets, IsEvent, Reaches
  <2> HIDE DEF Goal, q, h, e
  <2> QED
    BY <1>7, <1>14, <2>1, <2>2
<1>16. ASSUME OnAck(b) PROVE Goal
  <2>1. /\ q # <<>> /\ q[1].type = "ack" /\ awaiting' = awaiting /\ inbox'[b] = Tail(q) /\ highestSeq'[b] = h
        /\ link' = link /\ registered' = registered
    BY <1>1, <1>16, TailFacts DEF OnAck, Reading, NetTypes, pageVars, history
  <2>2. ~Greets(q[1]) /\ ~IsEvent(q[1]) /\ ~IsSnapshot(q[1]) /\ (Reaches(b)' <=> Reaches(b))
    BY <2>1 DEF Greets, IsEvent, IsSnapshot, Reaches
  <2> HIDE DEF Goal, q, h, e
  <2> QED
    BY <1>7, <1>14, <2>1, <2>2
<1>17. ASSUME OnEvent(b) PROVE Goal
  <2> DEFINE f == q[1]
  <2>1. /\ q # <<>> /\ f.type = "event" /\ inbox'[b] = Tail(q) /\ Apply(b, f.event) /\ f \in Frames
        /\ awaiting' = IF f.via = "snapshot" THEN awaiting \ {b} ELSE awaiting
        /\ raced' = IF f.via \in {"live", "stale"} THEN raced \cup (awaiting \cap {b}) ELSE raced
        /\ link' = link /\ registered' = registered
    BY <1>1, <1>17, TailFacts DEF OnEvent, Reading, NetTypes
  <2>2. IsEvent(f) /\ ~Greets(f) /\ (IsSnapshot(f) <=> f.via = "snapshot") /\ (Reaches(b)' <=> Reaches(b))
    BY <2>1 DEF Greets, IsSnapshot, IsEvent, Reaches
  <2>3. f.event \in Events /\ f.event.seq \in Nat
    BY <2>1, <2>2, FrameTypes DEF Events
  <2>4. b \in awaiting' <=> (Greets(f) \/ (b \in awaiting /\ ~IsSnapshot(f)))
    BY <2>1, <2>2
  <2>5. f.event # e
    <3> SUFFICES ASSUME f.event = e PROVE FALSE
      OBVIOUS
    <3>1. seen'[b] = seen[b] \o e.body
      <4>1. e.kind # "status" /\ ~(e.seq <= h)
        BY <1>1, <1>2, <1>3, <1>4, <1>5
      <4>2. Apply(b, e)
        BY <2>1
      <4> QED
        BY <1>1, <4>1, <4>2 DEF Apply, PageTypes
    <3>2. e.body \in Seq(Ids)
      BY <1>5 DEF Events
    <3>3. Len(seen[b]) \in Nat /\ Len(seen'[b]) = Len(seen[b]) + Len(e.body)
      BY <1>1, <3>1, <3>2, ConcatFacts
    <3>4. \A i \in 1..Len(e.body) : seen'[b][Len(seen[b]) + i] = e.body[i]
      <4> DEFINE s == seen[b]
                 t == e.body
      <4>1. s \in Seq(Ids) /\ t \in Seq(Ids)
        BY <1>1, <3>2
      <4> HIDE DEF s, t
      <4>2. \A i \in 1..Len(t) : (s \o t)[Len(s) + i] = t[i]
        BY <4>1, ConcatFacts
      <4> QED
        BY <3>1, <4>2 DEF s, t
    <3>5. 1 \in 1..Len(e.body) /\ Len(seen[b]) + 1 \in 1..Len(seen'[b])
      BY <1>5, <3>3
    <3> HIDE DEF e
    <3> QED
      BY <1>4, <3>4, <3>5
  <2>6. f.event.seq < r
    <3> SUFFICES ASSUME r <= f.event.seq PROVE FALSE
      BY <1>2, <2>3
    <3>1. 0 \in 0..(Len(q) - 1) /\ 0 + 1 = 1
      <4>1. Len(q) \in Nat \ {0}
        BY <1>1, <2>1, TailFacts
      <4> QED
        BY <4>1
    <3>2. ~Carried(q, e, 1)
      <4>1. \A i \in 1..1 : i = 1
        OBVIOUS
      <4> QED
        BY <2>5, <4>1 DEF Carried
    <3> HIDE DEF q, e
    <3>3. f.via \in {"live", "stale"} /\ Awaits(q, b, awaiting, 0)
      BY <1>3, <2>2, <3>1, <3>2 DEF Guarded
    <3>4. b \in awaiting
      <4>1. \A i \in 1..0 : FALSE
        OBVIOUS
      <4> QED
        BY <3>3, <4>1 DEF Awaits
    <3> QED
      BY <1>6, <2>1, <3>3, <3>4
  <2>7. highestSeq'[b] < r
    <3>1. highestSeq'[b] = h \/ highestSeq'[b] = f.event.seq
      BY <1>1, <2>1 DEF Apply, pageVars, PageTypes
    <3> QED
      BY <1>3, <2>6, <3>1
  <2>8. Guarded(inbox'[b], b, awaiting', e, r) /\ (Reaches(b)' => Expected(inbox'[b], b, awaiting', e))
    <3> HIDE DEF q, e
    <3> QED
      BY <1>14, <2>1, <2>2, <2>4, <2>5
  <2> QED
    BY <1>2, <2>7, <2>8 DEF Ahead
<1>18. ASSUME BrowserConnect(b) PROVE Goal
  <2>1. highestSeq'[b] = h /\ Len(inbox'[b]) = 1 /\ inbox'[b][1] = Plain("registered")
    BY <1>1, <1>18 DEF BrowserConnect, NetTypes, pageVars
  <2>2. Greets(inbox'[b][1]) /\ ~IsEvent(inbox'[b][1]) /\ 1 \in 1..1 /\ \A k \in (1 + 1)..1 : FALSE
    BY <2>1, PlainTypes DEF Greets, Plain
  <2>3. Expected(inbox'[b], b, awaiting', e)
    BY <2>1, <2>2 DEF Expected, Greeting, Awaits
  <2>4. \A m \in 0..(1 - 1) : m + 1 = 1
    OBVIOUS
  <2>5. Guarded(inbox'[b], b, awaiting', e, r)
    BY <2>1, <2>2, <2>4 DEF Guarded
  <2> HIDE DEF Goal, h, e
  <2> QED
    BY <1>7, <2>1, <2>3, <2>5
<1> HIDE DEF Goal
<1>19. Goal
  BY <1>10, <1>11, <1>12, <1>13, <1>15, <1>16, <1>17, <1>18, StepKinds
<1> QED
  BY <1>19 DEF Goal

\* a page that did not race, and was answered from a window that holds no event twice, did not before
LEMMA HistoryGrows ==
    ASSUME TypeOK, JournalInv, [Next]_vars, NEW b \in Browsers \ (raced \cup doubled)', ~BrowserDrop(b)
    PROVE  b \in Browsers \ (raced \cup doubled)
<1>1. Quiet(b) \/ Noted(b) \/ Pushed(b) => b \notin raced /\ b \notin doubled
  BY DEF Quiet, Noted, Pushed, Untouched
<1>2. AnswerResume(b) \/ SayHello(b, "registered") \/ SayHello(b, "peer_online") \/ OnAck(b) \/ OnEvent(b) \/ BrowserConnect(b)
         => b \notin raced /\ b \notin doubled
  BY DEF AnswerResume, SayHello, OnAck, OnEvent, BrowserConnect, history
<1> QED
  BY <1>1, <1>2, StepKinds

\* nothing leaves a transcript but when the page is reloaded
LEMMA TranscriptGrows ==
    ASSUME TypeOK, JournalInv, [Next]_vars, NEW b \in Browsers, ~BrowserDrop(b)
    PROVE  /\ Len(seen[b]) \in Nat /\ Len(seen[b]) <= Len(seen'[b])
           /\ \A k \in 1..Len(seen[b]) : k \in 1..Len(seen'[b]) /\ seen'[b][k] = seen[b][k]
<1>1. PageTypes /\ NetTypes /\ seen[b] \in Seq(Ids) /\ Len(seen[b]) \in Nat
  BY TypeParts DEF PageTypes
<1>2. ASSUME seen'[b] = seen[b] PROVE \A k \in 1..Len(seen[b]) : k \in 1..Len(seen'[b]) /\ seen'[b][k] = seen[b][k]
  BY <1>2
<1>3. Quiet(b) \/ Noted(b) \/ Pushed(b) => seen'[b] = seen[b]
  BY DEF Quiet, Noted, Pushed, Untouched
<1>4. AnswerResume(b) \/ SayHello(b, "registered") \/ SayHello(b, "peer_online") \/ OnAck(b) \/ BrowserConnect(b)
         => seen'[b] = seen[b]
  BY DEF AnswerResume, SayHello, OnAck, BrowserConnect, pageVars
<1>5. ASSUME OnEvent(b)
      PROVE  seen'[b] = seen[b] \/ \E t \in Seq(Ids) : seen'[b] = seen[b] \o t
  <2>1. inbox[b] # <<>> /\ inbox[b] \in Seq(Frames) /\ Head(inbox[b]).type = "event" /\ Apply(b, Head(inbox[b]).event)
    BY <1>1, <1>5 DEF OnEvent, Reading, NetTypes
  <2>2. Head(inbox[b]).event \in Events
    <3>1. Head(inbox[b]) \in Frames
      BY <2>1, TailFacts
    <3> QED
      BY <2>1, <3>1, FrameTypes DEF IsEvent
  <2>3. Head(inbox[b]).event.body \in Seq(Ids)
    BY <2>2 DEF Events
  <2> QED
    BY <1>1, <2>1, <2>3 DEF Apply, pageVars, PageTypes
<1>6. ASSUME NEW t \in Seq(Ids), seen'[b] = seen[b] \o t
      PROVE  /\ Len(seen[b]) <= Len(seen'[b])
             /\ \A k \in 1..Len(seen[b]) : k \in 1..Len(seen'[b]) /\ seen'[b][k] = seen[b][k]
  <2> DEFINE s == seen[b]
             z == seen'[b]
  <2>1. /\ Len(s) \in Nat /\ Len(t) \in Nat /\ Len(z) = Len(s) + Len(t)
    BY <1>1, <1>6, ConcatFacts
  <2>2. \A k \in 1..Len(s) : z[k] = s[k]
    BY <1>1, <1>6, ConcatFacts
  <2> HIDE DEF s, z
  <2>3. Len(s) <= Len(z) /\ \A k \in 1..Len(s) : k \in 1..Len(z) /\ z[k] = s[k]
    BY <2>1, <2>2
  <2> QED
    BY <2>3 DEF s, z
<1>7. seen'[b] = seen[b] \/ \E t \in Seq(Ids) : seen'[b] = seen[b] \o t
  BY <1>3, <1>4, <1>5, StepKinds
<1> QED
  BY <1>1, <1>2, <1>6, <1>7

LEMMA StepKeepsHoles ==
    ASSUME TypeOK, JournalInv, BodiesInv, StatusInv, CommandsInv, NumbersInv, HolesInv, [Next]_vars
    PROVE  HolesInv'
<1> SUFFICES ASSUME lost' = 0, NEW b \in Browsers \ (raced \cup doubled)', NEW r \in 1..Len(records'),
                    Unseen(records', seen'[b], r)
             PROVE  Ahead(b, r)'
  BY DEF HolesInv
<1>1. Kept /\ lost = 0
  BY NothingLost DEF Kept
<1>2. Len(records) \in Nat /\ Len(records') \in Nat /\ Len(records) <= Len(records')
  <2>1. records \in Seq(Events) /\ records' \in Seq(Events)
    BY StepKeepsLog DEF LogTypes, TypeOK
  <2> QED
    BY <1>1, <2>1 DEF Kept
<1>3. CASE r > Len(records)
  BY <1>3, NewIsAhead
<1>4. CASE r \in 1..Len(records) /\ ~BrowserDrop(b)
  <2>1. b \in Browsers \ (raced \cup doubled)
    BY <1>4, HistoryGrows
  <2>2. Unseen(records, seen[b], r)
    <3>1. records'[r] = records[r]
      BY <1>1, <1>4 DEF Kept
    <3>2. \A k \in 1..Len(seen[b]) : seen[b][k] # records[r].body[1]
      <4>1. \A k \in 1..Len(seen[b]) : k \in 1..Len(seen'[b]) /\ seen'[b][k] = seen[b][k]
        BY <1>4, TranscriptGrows
      <4> QED
        BY <3>1, <4>1 DEF Unseen
    <3>3. r + MaxReplay > Len(records)
      BY <1>2, WindowAssumption DEF Unseen
    <3> QED
      BY <1>4, <3>1, <3>2, <3>3 DEF Unseen
  <2>3. Ahead(b, r)
    BY <1>1, <1>4, <2>1, <2>2 DEF HolesInv
  <2> QED
    BY <1>4, <2>3, OldStaysAhead
<1>5. CASE r \in 1..Len(records) /\ BrowserDrop(b)
  <2>1. /\ inbox \in [Browsers -> Seq(Frames)] /\ highestSeq \in [Browsers -> Nat] /\ r \in Nat /\ r > 0
        /\ seen \in [Browsers -> Seq(Ids)]
    BY <1>5 DEF TypeOK
  <2>2. Len(inbox'[b]) = 0 /\ b \notin registered' /\ records' = records
    BY <1>5, <2>1 DEF BrowserDrop, logVars
  <2>3. Guarded(inbox'[b], b, awaiting', records'[r], r)
    <3>1. \A m \in 0..(0 - 1) : FALSE
      OBVIOUS
    <3> QED
      BY <2>2, <3>1 DEF Guarded
  <2>4. highestSeq'[b] < r
    <3>1. CASE highestSeq'[b] = 0
      BY <2>1, <3>1
    <3>2. CASE UNCHANGED <<pageVars, raced, doubled, misled>>
      <4>1. highestSeq'[b] = highestSeq[b] /\ seen'[b] = seen[b] /\ b \in Browsers \ (raced \cup doubled)
        BY <3>2 DEF pageVars
      <4>2. Ahead(b, r)
        BY <1>1, <1>5, <2>2, <4>1 DEF HolesInv
      <4> QED
        BY <4>1, <4>2 DEF Ahead
    <3> QED
      BY <1>5, <2>1, <3>1, <3>2 DEF BrowserDrop
  <2> QED
    BY <2>2, <2>3, <2>4 DEF Ahead, Reaches
<1> QED
  BY <1>2, <1>3, <1>4, <1>5

-----------------------------------------------------------------------------
(* The theorems.                                                           *)

DeliveryInv ==
    /\ TypeOK /\ JournalInv /\ BodiesInv
    /\ StatusInv /\ OrderInv
    /\ CommandsInv /\ NumbersInv /\ HolesInv

LEMMA InitKeepsDelivery ==
    ASSUME Init
    PROVE  DeliveryInv
<1>1. <<>> \in Seq(Events) /\ Len(<<>>) = 0 /\ <<>> \in Seq(Ids)
  OBVIOUS
<1>2. /\ log = EmptyLog /\ records = <<>> /\ flushed = 0 /\ produced = 0 /\ status = 0
      /\ link = "up" /\ registered = {} /\ awaiting = {}
      /\ \A b \in Browsers : inbox[b] = <<>> /\ seen[b] = <<>>
  BY DEF Init
<1>3. JournalInv /\ LogTypes
  <2>1. Bounded(EmptyLog) /\ EmptyLog.seq = 0 /\ WindowOf(EmptyLog.replay, <<>>, 0, 0)
    BY <1>1, EmptyLogFacts
  <2>2. \A i \in 1..Len(<<>>) : FALSE
    BY <1>1
  <2> QED
    BY <1>1, <1>2, <2>1, <2>2 DEF JournalInv, Journal, LogTypes
<1>4. NetTypes
  BY DEF Init, NetTypes
<1>5. PageTypes /\ CountTypes
  BY <1>1 DEF Init, PageTypes, CountTypes, Ids
<1>6. \A i \in 1..Len(<<>>) : FALSE
  BY <1>1
<1>7. BodiesInv
  BY <1>2, <1>6 DEF BodiesInv, Bodied
<1>8. StatusInv
  BY <1>2 DEF StatusInv, StatusFollows
<1>9. OrderInv
  BY <1>2, <1>6 DEF OrderInv, InOrder
<1>10. \A b \in Browsers : /\ Len(verifying[b]) = 0 /\ Len(toDaemon[b]) = 0 /\ Len(inbox[b]) = 0
                          /\ highestSeq[b] = 0
  BY DEF Init
<1>11. \A i \in 1..0 : FALSE
  OBVIOUS
<1>12. CommandsInv
  BY <1>2, <1>10, <1>11 DEF CommandsInv, CommandsOK, Ordered
<1>13. NumbersInv
  BY <1>1, <1>2, <1>10, <1>11 DEF NumbersInv, Reached
<1>14. HolesInv
  BY <1>1, <1>2, <1>11 DEF HolesInv
<1> QED
  BY <1>3, <1>4, <1>5, <1>7, <1>8, <1>9, <1>12, <1>13, <1>14, TypeParts DEF DeliveryInv

LEMMA StepKeepsDelivery ==
    ASSUME DeliveryInv, [Next]_vars
    PROVE  DeliveryInv'
<1>1. TypeOK /\ JournalInv /\ BodiesInv /\ StatusInv /\ OrderInv /\ CommandsInv /\ NumbersInv /\ HolesInv
  BY DEF DeliveryInv
<1>2. LogTypes' /\ JournalInv'
  BY <1>1, StepKeepsLog
<1>3. NetTypes' /\ PageTypes' /\ CountTypes'
  BY <1>1, StepKeepsNetTypes
<1>4. TypeOK'
  BY <1>2, <1>3 DEF TypeOK, LogTypes, Bounded, NetTypes, PageTypes, CountTypes
<1>5. BodiesInv'
  BY <1>1, StepKeepsBodies
<1>6. StatusInv'
  BY <1>1, StepKeepsStatus
<1>7. OrderInv'
  BY <1>1, StepKeepsOrder
<1>8. CommandsInv'
  BY <1>1, StepKeepsCommands
<1>9. NumbersInv'
  BY <1>1, StepKeepsNumbers
<1>10. HolesInv'
  BY <1>1, StepKeepsHoles
<1> QED
  BY <1>2, <1>4, <1>5, <1>6, <1>7, <1>8, <1>9, <1>10 DEF DeliveryInv

\* Whatever breaks and restarts, journal, window, frames on their way, statuses and transcripts agree
\* as Session.push(), Session.backfill() and Connection.applyEnvelope() rely on.
THEOREM DeliveryStaysConsistent == Spec => []DeliveryInv
<1>1. Init => DeliveryInv
  BY InitKeepsDelivery
<1>2. DeliveryInv /\ [Next]_vars => DeliveryInv'
  BY StepKeepsDelivery
<1> QED
  BY <1>1, <1>2, PTL DEF Spec

\* The replay window and the output window stay within MAX_REPLAY and MAX_STREAM (SessionStorage), and
\* a browser the relay has not registered has nothing to read.
THEOREM TypesHold == Spec => []TypeOK
<1>1. DeliveryInv => TypeOK
  BY DEF DeliveryInv
<1> QED
  BY <1>1, DeliveryStaysConsistent, PTL

\* applyEnvelope() with the daemon's backfill(): a page applies the events of the transcript in the
\* order the session pushed them, each at most once.
THEOREM TranscriptsAreInOrder == Spec => []InOrderOnce
<1>1. ASSUME DeliveryInv PROVE InOrderOnce
  <2> SUFFICES ASSUME NEW b \in Browsers \ misled PROVE \A i, j \in DOMAIN seen[b] : i < j => seen[b][i] < seen[b][j]
    BY DEF InOrderOnce
  <2>1. seen[b] \in Seq(Ids) /\ InOrder(inbox[b], highestSeq[b], seen[b], records, produced)
    BY <1>1, TypeParts DEF DeliveryInv, PageTypes, OrderInv
  <2>2. DOMAIN seen[b] = 1..Len(seen[b])
    BY <2>1
  <2> QED
    BY <2>1, <2>2 DEF InOrder
<1> QED
  BY <1>1, DeliveryStaysConsistent, PTL

\* backfill() ends with the status, and applyEnvelope() applies a status whatever its number: a page
\* that has been answered and has read everything shows the status the session is in.
THEOREM PagesShowTheStatus == Spec => []StatusIsCurrent
<1>1. ASSUME DeliveryInv PROVE StatusIsCurrent
  <2> SUFFICES ASSUME NEW b \in Browsers, Settled(b) PROVE shownStatus[b] = status
    BY DEF StatusIsCurrent
  <2>1. /\ link = "up" /\ b \in registered /\ b \notin awaiting
        /\ Len(inbox[b]) = 0
    BY DEF Settled
  <2>2. \A i \in 1..Len(inbox[b]) : FALSE
    BY <2>1
  <2>3. ~Greeting(inbox[b], b, awaiting)
    BY <2>1, <2>2 DEF Greeting, Awaits
  <2>4. StatusKnown(inbox[b], shownStatus[b], status)
    BY <1>1, <2>1, <2>3 DEF DeliveryInv, StatusInv, StatusFollows
  <2> QED
    BY <2>2, <2>4 DEF StatusKnown
<1> QED
  BY <1>1, DeliveryStaysConsistent, PTL

\* "On (re)connect issues a resume to backfill what it missed" (protocol-client.ts): a page passes an
\* event that the replay window still holds only if it applied something before the answer to its
\* resume, a crash had lost records, or the answer came from a window loaded twice.
THEOREM HolesHaveACause == Spec => []HolesAreExplained
<1>1. ASSUME DeliveryInv PROVE HolesAreExplained
  <2> SUFFICES ASSUME NEW b \in Browsers \ (raced \cup doubled), lost = 0,
                      NEW x \in Holes(b), x \in ToSet(log.replay)
               PROVE  FALSE
    BY DEF HolesAreExplained
  <2> DEFINE N == Len(records)
             w == log.replay
             l == Len(log.replay)
             s == seen[b]
  <2>1. TypeOK /\ JournalInv /\ HolesInv
    BY <1>1 DEF DeliveryInv
  <2>2. /\ records \in Seq(Events) /\ N \in Nat /\ DOMAIN records = 1..N
        /\ w \in Seq(Events) /\ l \in Nat /\ DOMAIN w = 1..l /\ l <= MaxReplay
        /\ highestSeq[b] \in Nat
    BY <2>1 DEF TypeOK, Logs
  <2>3. /\ \A d \in 0..(l - 1) : d < N => w[l - d] = records[N - d]
        /\ \A i \in 1..N : records[i].seq = i
    BY <2>1 DEF JournalInv, WindowOf, Journal
  <2>4. PICK r \in 1..N : x = records[r]
    BY <2>2 DEF Holes, ToSet
  <2>5. PICK i \in 1..l : x = w[i]
    BY <2>2 DEF ToSet
  <2>6. x.kind # "status" /\ x.seq <= highestSeq[b] /\ \A k \in 1..Len(s) : s[k] # x.body[1]
    BY DEF Holes, Contains
  <2> HIDE DEF w, l
  <2>7. r + MaxReplay > N
    <3>1. CASE l - i < N
      <4>1. l - i \in 0..(l - 1) /\ l - (l - i) = i /\ N - (l - i) \in 1..N
        BY <2>2, <3>1
      <4>2. w[i] = records[N - (l - i)]
        BY <2>3, <3>1, <4>1
      <4>3. r = N - (l - i)
        BY <2>3, <2>4, <2>5, <4>1, <4>2
      <4> QED
        BY <2>2, <4>3, WindowAssumption
    <3>2. CASE l - i >= N
      BY <2>2, <3>2, WindowAssumption
    <3> QED
      BY <2>2, <3>1, <3>2
  <2>8. Unseen(records, s, r)
    BY <2>4, <2>6, <2>7 DEF Unseen
  <2>9. highestSeq[b] < r
    BY <2>1, <2>8 DEF HolesInv, Ahead
  <2> QED
    BY <2>2, <2>3, <2>4, <2>6, <2>9
<1> QED
  BY <1>1, DeliveryStaysConsistent, PTL
============================================================================
