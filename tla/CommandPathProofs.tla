-------------------------- MODULE CommandPathProofs --------------------------
(***************************************************************************)
(* What a command meets on its way: the verifier that admits it            *)
(* (CommandVerifier.tla), for every set of clients, tabs and bounds, and   *)
(* the relay that brings it there (RelayServer.tla), for any number of     *)
(* sockets, devices and users.                                             *)
(*                                                                         *)
(* The verifier's three promises follow from the strengthened invariant of *)
(* the guard and the registry, the relay's from that of its table: every   *)
(* registered live socket is in its place and was told the truth.          *)
(***************************************************************************)
EXTENDS CommandVerifier, RelayServer, SequenceTheorems, TLAPS

-----------------------------------------------------------------------------
(* Queues of envelopes.                                                    *)

\* Sending appends one envelope to what a socket carries.
LEMMA AppendToSet ==
    ASSUME NEW S, NEW q \in Seq(S), NEW e \in S
    PROVE  Append(q, e) \in Seq(S) /\ ToSet(Append(q, e)) = ToSet(q) \cup {e}
<1>1. Append(q, e) \in Seq(S) /\ DOMAIN Append(q, e) = 1..(Len(q) + 1)
  OBVIOUS
<1>2. Append(q, e)[Len(q) + 1] = e
  OBVIOUS
<1>3. \A i \in DOMAIN q : i \in 1..(Len(q) + 1) /\ Append(q, e)[i] = q[i]
  OBVIOUS
<1>4. \A i \in 1..(Len(q) + 1) : i \in DOMAIN q \/ i = Len(q) + 1
  OBVIOUS
<1>5. Len(q) + 1 \in 1..(Len(q) + 1)
  OBVIOUS
<1> QED
  BY <1>1, <1>2, <1>3, <1>4, <1>5, Zenon DEF ToSet

\* Reading removes at most one envelope from it.
LEMMA TailToSet ==
    ASSUME NEW S, NEW q \in Seq(S), q # <<>>
    PROVE  Head(q) \in S /\ Tail(q) \in Seq(S) /\ ToSet(Tail(q)) \subseteq ToSet(q)
<1>1. Head(q) \in S /\ Tail(q) \in Seq(S)
  OBVIOUS
<1>2. \A i \in DOMAIN Tail(q) : i + 1 \in DOMAIN q /\ Tail(q)[i] = q[i + 1]
  OBVIOUS
<1> QED
  BY <1>1, <1>2, Zenon DEF ToSet

\* After a reload the old socket carries what both did.
LEMMA ConcatToSet ==
    ASSUME NEW S, NEW q \in Seq(S), NEW r \in Seq(S)
    PROVE  q \o r \in Seq(S) /\ ToSet(q \o r) \subseteq ToSet(q) \cup ToSet(r)
<1>1. q \o r \in Seq(S)
  OBVIOUS
<1>2. \A i \in DOMAIN (q \o r) :
        \/ i \in DOMAIN q /\ (q \o r)[i] = q[i]
        \/ i - Len(q) \in DOMAIN r /\ (q \o r)[i] = r[i - Len(q)]
  OBVIOUS
<1> QED
  BY <1>1, <1>2, Zenon DEF ToSet

-----------------------------------------------------------------------------
(* Type correctness.                                                       *)

\* A fresh daemon and its pages have well-typed state.
LEMMA InitTypeOK == Init => TypeOK
<1> SUFFICES ASSUME Init PROVE TypeOK
  OBVIOUS
<1>1. \A p \in Pages : OnSockets(p) = {}
  BY DEF Init, OnSockets, ToSet
<1> QED
  BY <1>1, VerifierAssumption DEF Init, TypeOK

\* Sockets carry nothing but envelopes.
LEMMA SocketsCarryEnvelopes == TypeOK => \A p \in Pages : OnSockets(p) \subseteq Envelopes
<1> SUFFICES ASSUME TypeOK, NEW p \in Pages PROVE OnSockets(p) \subseteq Envelopes
  OBVIOUS
<1>1. wire[p] \in Seq(Envelopes) /\ stray[p] \in Seq(Envelopes)
  BY DEF TypeOK
<1>2. \A i \in DOMAIN wire[p] : wire[p][i] \in Envelopes
  BY <1>1
<1>3. \A i \in DOMAIN stray[p] : stray[p][i] \in Envelopes
  BY <1>1
<1> QED
  BY <1>2, <1>3, Zenon DEF OnSockets, ToSet

\* Sending, signing, reloading and hearing of a rejection keep the state well typed: an envelope is
\* being signed or sent, never both.
LEMMA PageStepTypeOK == TypeOK /\ PageStep => TypeOK'
<1> SUFFICES ASSUME TypeOK, PageStep PROVE TypeOK'
  OBVIOUS
<1> USE VerifierAssumption
<1>1. ASSUME NEW p \in Pages, Send(p) PROVE TypeOK'
  <2> DEFINE env == [id |-> sent + 1, client |-> ClientOf[p], seq |-> seq[p] + 1]
  <2>1. env \in Envelopes /\ seq' \in [Pages -> Nat] /\ seq'[p] = seq[p] + 1
    BY <1>1 DEF Send, TypeOK, Envelopes
  <2>2. persisted' \in [Clients -> Nat]
    BY <1>1, <2>1 DEF Send, Persist, TypeOK
  <2>3. signing' = [signing EXCEPT ![p] = @ \cup {env}] /\ sent' = sent + 1 /\ sent' \in 0..MaxCommands
    BY <1>1, <2>1 DEF Send, TypeOK
  <2>4. \A q \in Pages : OnSockets(q)' = OnSockets(q)
    BY <1>1 DEF Send, OnSockets
  <2>5. \A q \in Pages : signing'[q] \subseteq signing[q] \cup {env} /\ signing'[q] \subseteq Envelopes
    BY <2>1, <2>3 DEF TypeOK
  <2>6. \A q \in Pages : env \notin OnSockets(q)
    BY DEF TypeOK
  <2>7. ASSUME NEW q \in Pages, NEW e \in signing'[q] \cup OnSockets(q)' PROVE e.id <= sent'
    <3>1. CASE e = env
      BY <3>1, <2>3 DEF TypeOK
    <3>2. CASE e # env
      <4>1. e \in signing[q] \cup OnSockets(q)
        BY <3>2, <2>7, <2>5, <2>4
      <4>2. e.id <= sent /\ e.id \in Nat
        <5>1. e \in Envelopes
          BY <4>1, SocketsCarryEnvelopes DEF TypeOK
        <5>2. e.id <= sent
          BY <4>1 DEF TypeOK
        <5> QED
          BY <5>1, <5>2 DEF Envelopes
      <4> QED
        BY <4>2, <2>3 DEF TypeOK
    <3> QED
      BY <3>1, <3>2
  <2>8. \A q \in Pages : signing'[q] \cap OnSockets(q)' = {}
    BY <2>4, <2>5, <2>6 DEF TypeOK
  <2>9. signing' \in [Pages -> SUBSET Envelopes]
    BY <2>3, <2>1 DEF TypeOK
  <2> HIDE DEF env
  <2> QED
    BY <1>1, <2>1, <2>2, <2>3, <2>7, <2>8, <2>9 DEF Send, TypeOK, gateVars, keyVars
<1>2. ASSUME NEW p \in Pages, NEW env \in signing[p], Signed(p, env) PROVE TypeOK'
  <2>1. env \in Envelopes /\ wire[p] \in Seq(Envelopes)
    BY DEF TypeOK
  <2>2. Append(wire[p], env) \in Seq(Envelopes) /\ ToSet(Append(wire[p], env)) = ToSet(wire[p]) \cup {env}
    BY <2>1, AppendToSet
  <2>3. wire' = [wire EXCEPT ![p] = Append(wire[p], env)] /\ signing' = [signing EXCEPT ![p] = @ \ {env}]
    BY <1>2 DEF Signed
  <2>4. wire' \in [Pages -> Seq(Envelopes)] /\ signing' \in [Pages -> SUBSET Envelopes]
    BY <2>2, <2>3 DEF TypeOK
  <2>5. ASSUME NEW q \in Pages
        PROVE  /\ signing'[q] \cap OnSockets(q)' = {}
               /\ signing'[q] \cup OnSockets(q)' \subseteq signing[q] \cup OnSockets(q)
    <3>1. CASE q = p
      BY <3>1, <2>2, <2>3, <1>2 DEF OnSockets, TypeOK, Signed
    <3>2. CASE q # p
      BY <3>2, <2>3, <1>2 DEF OnSockets, TypeOK, Signed
    <3> QED
      BY <3>1, <3>2
  <2> QED
    BY <1>2, <2>4, <2>5 DEF Signed, TypeOK, gateVars, keyVars
<1>3. ASSUME NEW p \in Pages, Reload(p) PROVE TypeOK'
  <2>1. wire[p] \in Seq(Envelopes) /\ stray[p] \in Seq(Envelopes)
    BY DEF TypeOK
  <2>2. stray[p] \o wire[p] \in Seq(Envelopes) /\ ToSet(stray[p] \o wire[p]) \subseteq OnSockets(p)
    BY <2>1, ConcatToSet DEF OnSockets
  <2>3. stray' \in [Pages -> Seq(Envelopes)] /\ wire' \in [Pages -> Seq(Envelopes)]
    BY <1>3, <2>2 DEF Reload, TypeOK
  <2>4. ASSUME NEW q \in Pages
        PROVE  OnSockets(q)' \subseteq OnSockets(q) /\ signing'[q] \subseteq signing[q]
    <3>1. CASE q = p
      <4>1. ToSet(wire'[q]) = {}
        BY <3>1, <1>3 DEF Reload, TypeOK, ToSet
      <4>2. stray'[q] = stray[p] \o wire[p]
        BY <3>1, <1>3 DEF Reload, TypeOK
      <4> QED
        BY <3>1, <4>1, <4>2, <2>2, <1>3 DEF OnSockets, Reload, TypeOK
    <3>2. CASE q # p
      BY <3>2, <1>3 DEF OnSockets, Reload, TypeOK
    <3> QED
      BY <3>1, <3>2
  <2>5. seq' \in [Pages -> Nat] /\ rejected' \in [Pages -> Nat] /\ reloads' \in 0..MaxReloads
    BY <1>3 DEF Reload, TypeOK
  <2> QED
    BY <1>3, <2>3, <2>4, <2>5 DEF Reload, TypeOK, gateVars, keyVars
<1>4. ASSUME NEW p \in Pages, OnReplayed(p) PROVE TypeOK'
  <2>1. seq' \in [Pages -> Nat] /\ seq'[p] \in Nat /\ rejected' \in [Pages -> Nat]
    BY <1>4 DEF OnReplayed, TypeOK
  <2>2. persisted' \in [Clients -> Nat]
    BY <1>4, <2>1 DEF OnReplayed, Persist, TypeOK
  <2>3. \A q \in Pages : OnSockets(q)' = OnSockets(q)
    BY <1>4 DEF OnReplayed, OnSockets
  <2> QED
    BY <1>4, <2>1, <2>2, <2>3 DEF OnReplayed, TypeOK, gateVars, keyVars
<1> QED
  BY <1>1, <1>2, <1>3, <1>4 DEF PageStep

\* Reading a frame starts a verification; ending one drops it; neither makes an ill-typed state.
LEMMA GateStepTypeOK == TypeOK /\ GateStep => TypeOK'
<1> SUFFICES ASSUME TypeOK, GateStep PROVE TypeOK'
  OBVIOUS
<1> DEFINE Calls == [env : Envelopes, keys : SUBSET Clients, revoked : BOOLEAN]
<1>1. ASSUME NEW p \in Pages, NEW env \in Envelopes, Verify(env) PROVE verifying' \subseteq Calls
  <2>1. (record[env.client] = "revoked") \in BOOLEAN
    OBVIOUS
  <2>2. [env |-> env, keys |-> active, revoked |-> record[env.client] = "revoked"] \in Calls
    BY <2>1, Zenon DEF TypeOK
  <2> QED
    BY <1>1, <2>2, Zenon DEF Verify, TypeOK
<1>2. ASSUME NEW p \in Pages, ReceiveFrame(p) PROVE TypeOK'
  <2>1. wire[p] \in Seq(Envelopes) /\ wire[p] # <<>> /\ wire' = [wire EXCEPT ![p] = Tail(wire[p])]
    BY <1>2 DEF ReceiveFrame, TypeOK
  <2>2. /\ Head(wire[p]) \in Envelopes /\ Tail(wire[p]) \in Seq(Envelopes)
        /\ ToSet(Tail(wire[p])) \subseteq ToSet(wire[p])
    BY <2>1, TailToSet
  <2>3. verifying' \subseteq Calls
    BY <1>1, <1>2, <2>2 DEF ReceiveFrame
  <2>4. wire' \in [Pages -> Seq(Envelopes)]
    BY <2>1, <2>2 DEF TypeOK
  <2>5. ASSUME NEW q \in Pages PROVE OnSockets(q)' \subseteq OnSockets(q)
    <3>1. CASE q = p
      BY <3>1, <2>1, <2>2, <1>2 DEF OnSockets, ReceiveFrame, TypeOK
    <3>2. CASE q # p
      BY <3>2, <2>1, <1>2 DEF OnSockets, ReceiveFrame, TypeOK
    <3> QED
      BY <3>1, <3>2
  <2> QED
    BY <1>2, <2>3, <2>4, <2>5 DEF ReceiveFrame, TypeOK, keyVars
<1>3. ASSUME NEW p \in Pages, ReceiveStray(p) PROVE TypeOK'
  <2>1. stray[p] \in Seq(Envelopes) /\ stray[p] # <<>> /\ stray' = [stray EXCEPT ![p] = Tail(stray[p])]
    BY <1>3 DEF ReceiveStray, TypeOK
  <2>2. /\ Head(stray[p]) \in Envelopes /\ Tail(stray[p]) \in Seq(Envelopes)
        /\ ToSet(Tail(stray[p])) \subseteq ToSet(stray[p])
    BY <2>1, TailToSet
  <2>3. verifying' \subseteq Calls
    BY <1>1, <1>3, <2>2 DEF ReceiveStray
  <2>4. stray' \in [Pages -> Seq(Envelopes)]
    BY <2>1, <2>2 DEF TypeOK
  <2>5. ASSUME NEW q \in Pages PROVE OnSockets(q)' \subseteq OnSockets(q)
    <3>1. CASE q = p
      BY <3>1, <2>1, <2>2, <1>3 DEF OnSockets, ReceiveStray, TypeOK
    <3>2. CASE q # p
      BY <3>2, <2>1, <1>3 DEF OnSockets, ReceiveStray, TypeOK
    <3> QED
      BY <3>1, <3>2
  <2> QED
    BY <1>3, <2>3, <2>4, <2>5 DEF ReceiveStray, TypeOK, keyVars
<1>4. ASSUME UNCHANGED <<wire, stray>> PROVE \A q \in Pages : OnSockets(q)' = OnSockets(q)
  BY <1>4 DEF OnSockets
<1>5. ASSUME NEW call \in verifying, Run(call) PROVE TypeOK'
  <2>1. call.env.client \in Clients /\ call.env.seq \in Nat
    BY DEF TypeOK, Envelopes
  <2>2. lastSeq' \in [Clients -> Nat] /\ ranRevoked' \subseteq Clients /\ verifying' \subseteq Calls
    BY <1>5, <2>1 DEF Run, Accept, TypeOK
  <2>3. ran' \in [Clients -> Seq(Nat)]
    <3>1. ran[call.env.client] \in Seq(Nat)
      BY <2>1 DEF TypeOK
    <3>2. Append(ran[call.env.client], call.env.seq) \in Seq(Nat)
      BY <2>1, <3>1, AppendToSet
    <3> QED
      BY <1>5, <3>2 DEF Run, TypeOK
  <2> QED
    BY <1>4, <1>5, <2>2, <2>3 DEF Run, TypeOK, pageVars, keyVars
<1>6. ASSUME NEW call \in verifying, RejectReplayed(call) PROVE TypeOK'
  <2>1. rejected' \in [Pages -> Nat] /\ verifying' \subseteq Calls
    BY <1>6 DEF RejectReplayed, TypeOK
  <2> QED
    BY <1>4, <1>6, <2>1 DEF RejectReplayed, TypeOK, keyVars
<1>7. ASSUME NEW call \in verifying, Reject(call) PROVE TypeOK'
  BY <1>4, <1>7 DEF Reject, TypeOK, pageVars, keyVars
<1> QED
  BY <1>2, <1>3, <1>5, <1>6, <1>7 DEF GateStep

\* Enrolling, revoking, restarting and doing nothing keep the state well typed.
LEMMA OtherStepTypeOK == TypeOK /\ (KeyStep \/ Restart \/ UNCHANGED vars) => TypeOK'
<1> SUFFICES ASSUME TypeOK, KeyStep \/ Restart \/ UNCHANGED vars PROVE TypeOK'
  OBVIOUS
<1>1. UNCHANGED pageVars
  BY DEF KeyStep, Enroll, Revoke, Restart, vars
<1>2. \A q \in Pages : OnSockets(q)' = OnSockets(q)
  BY <1>1 DEF OnSockets, pageVars
<1>3. ASSUME NEW c \in Clients, Enroll(c) PROVE TypeOK'
  BY <1>1, <1>2, <1>3 DEF Enroll, TypeOK, pageVars, gateVars
<1>4. ASSUME NEW c \in Clients, Revoke(c) PROVE TypeOK'
  BY <1>1, <1>2, <1>4 DEF Revoke, TypeOK, pageVars, gateVars
<1>5. CASE Restart
  <2>1. restarts' \in 0..MaxRestarts
    BY <1>5, VerifierAssumption DEF Restart, TypeOK
  <2> QED
    BY <1>1, <1>2, <1>5, <2>1 DEF Restart, TypeOK, pageVars
<1>6. CASE UNCHANGED vars
  BY <1>2, <1>6 DEF TypeOK, vars, pageVars, gateVars, keyVars
<1> QED
  BY <1>3, <1>4, <1>5, <1>6 DEF KeyStep

\* Every variable keeps its type, and no envelope is both being signed and already sent, for every
\* set of clients and tabs.
THEOREM TypeCorrect == Spec => []TypeOK
<1>1. TypeOK /\ [Next]_vars => TypeOK'
  BY PageStepTypeOK, GateStepTypeOK, OtherStepTypeOK DEF Next
<1> QED
  BY <1>1, InitTypeOK, PTL DEF Spec

-----------------------------------------------------------------------------
(* The guard and the registry.                                             *)

\* A fresh daemon has run nothing and knows no key.
LEMMA InitVerifierInvariant == Init => VerifierInvariant
  BY DEF Init, VerifierInvariant, RunsInOrder, GuardIsNotPoisoned, RevocationIsFinal

\* Running a command whose number the guard accepts extends an increasing sequence with a larger
\* number.
LEMMA RunKeepsOrder ==
    ASSUME TypeOK, VerifierInvariant, NEW call \in verifying, Run(call)
    PROVE  RunsInOrder' /\ GuardIsNotPoisoned'
<1> DEFINE c == call.env.client
           n == call.env.seq
<1>1. c \in Clients /\ n \in Nat
  BY DEF TypeOK, Envelopes
<1>2. ran[c] \in Seq(Nat)
  BY <1>1 DEF TypeOK
<1>3. ran' = [ran EXCEPT ![c] = Append(ran[c], n)] /\ lastSeq' = [lastSeq EXCEPT ![c] = n] /\ n > lastSeq[c]
  BY DEF Run, Accept
<1>4. \A i \in DOMAIN ran[c] : ran[c][i] <= lastSeq[c]
  <2> SUFFICES ASSUME NEW i \in DOMAIN ran[c] PROVE ran[c][i] <= lastSeq[c]
    OBVIOUS
  <2>1. lastSeq[c] = ran[c][Len(ran[c])]
    BY <1>1, <1>2 DEF VerifierInvariant, GuardIsNotPoisoned, Last
  <2>2. i < Len(ran[c]) => ran[c][i] < ran[c][Len(ran[c])]
    BY <1>1, <1>2 DEF VerifierInvariant, RunsInOrder
  <2> QED
    BY <1>2, <2>1, <2>2
<1>5. ASSUME NEW d \in Clients, NEW i \in DOMAIN ran'[d], NEW j \in DOMAIN ran'[d], i < j
      PROVE  ran'[d][i] < ran'[d][j]
  <2>1. CASE d # c
    BY <1>3, <1>5, <2>1 DEF TypeOK, VerifierInvariant, RunsInOrder
  <2>2. CASE d = c
    <3>1. ran'[d] = Append(ran[c], n)
      BY <1>1, <1>3, <2>2 DEF TypeOK
    <3>2. i \in DOMAIN ran[c] /\ (j \in DOMAIN ran[c] \/ j = Len(ran[c]) + 1)
      BY <1>2, <1>5, <3>1
    <3>3. ran[c][i] < n
      <4> HIDE DEF c, n
      <4>1. lastSeq \in [Clients -> Nat]
        BY DEF TypeOK
      <4>2. lastSeq[c] \in Nat
        BY <1>1, <4>1
      <4>3. ran[c][i] \in Nat
        BY <1>2, <3>2
      <4>4. ran[c][i] <= lastSeq[c] /\ n > lastSeq[c]
        BY <1>3, <1>4, <3>2
      <4> QED
        BY <1>1, <4>2, <4>3, <4>4
    <3>4. ran'[d][i] = ran[c][i] /\ ran'[d][j] = IF j \in DOMAIN ran[c] THEN ran[c][j] ELSE n
      BY <1>2, <3>1, <3>2
    <3>5. j \in DOMAIN ran[c] => ran[c][i] < ran[c][j]
      BY <1>1, <1>5, <3>2, Zenon DEF VerifierInvariant, RunsInOrder
    <3> QED
      BY <3>3, <3>4, <3>5
  <2> QED
    BY <2>1, <2>2
<1>6. ASSUME NEW d \in Clients
      PROVE  lastSeq'[d] = IF ran'[d] = <<>> THEN 0 ELSE Last(ran'[d])
  <2>1. CASE d # c
    BY <1>3, <2>1 DEF TypeOK, VerifierInvariant, GuardIsNotPoisoned
  <2>2. CASE d = c
    <3>1. ran'[d] = Append(ran[c], n) /\ lastSeq'[d] = n
      BY <1>1, <1>3, <2>2 DEF TypeOK
    <3>2. /\ Append(ran[c], n) # <<>>
          /\ Append(ran[c], n)[Len(Append(ran[c], n))] = n
      BY <1>1, <1>2
    <3> QED
      BY <3>1, <3>2, Zenon DEF Last
  <2> QED
    BY <2>1, <2>2
<1> QED
  BY <1>5, <1>6 DEF RunsInOrder, GuardIsNotPoisoned

\* Every step keeps the invariant: only a run moves the guard, and a verification that began after
\* its key was revoked has no key to succeed with.
LEMMA NextVerifierInvariant == TypeOK /\ VerifierInvariant /\ [Next]_vars => VerifierInvariant'
<1> SUFFICES ASSUME TypeOK, VerifierInvariant, [Next]_vars PROVE VerifierInvariant'
  OBVIOUS
<1> DEFINE Registry == active = {c \in Clients : record[c] = "active"}
           NoRevokedKey == \A call \in verifying : call.revoked => call.env.client \notin call.keys
<1>1. ASSUME UNCHANGED <<gateVars, keyVars>> PROVE VerifierInvariant'
  BY <1>1 DEF VerifierInvariant, RunsInOrder, GuardIsNotPoisoned, RevocationIsFinal, gateVars, keyVars
<1>2. ASSUME UNCHANGED <<lastSeq, ran, ranRevoked>>, Registry', NoRevokedKey' PROVE VerifierInvariant'
  BY <1>2 DEF VerifierInvariant, RunsInOrder, GuardIsNotPoisoned, RevocationIsFinal
<1>3. CASE PageStep
  BY <1>1, <1>3 DEF PageStep, Send, Signed, Reload, OnReplayed
<1>4. ASSUME NEW env \in Envelopes, Verify(env), UNCHANGED keyVars PROVE Registry' /\ NoRevokedKey'
  <2>1. Registry /\ NoRevokedKey
    BY DEF VerifierInvariant
  <2>2. Registry'
    BY <1>4, <2>1 DEF keyVars
  <2>3. record[env.client] = "revoked" => env.client \notin active
    BY <2>1
  <2>4. ASSUME NEW call \in verifying', call.revoked PROVE call.env.client \notin call.keys
    <3>1. CASE call \in verifying
      BY <2>1, <2>4, <3>1
    <3>2. CASE call = [env |-> env, keys |-> active, revoked |-> record[env.client] = "revoked"]
      BY <2>3, <2>4, <3>2
    <3> QED
      BY <1>4, <2>4, <3>1, <3>2 DEF Verify
  <2> QED
    BY <2>2, <2>4
<1>5. ASSUME NEW p \in Pages, ReceiveFrame(p) \/ ReceiveStray(p) PROVE VerifierInvariant'
  <2>1. CASE ReceiveFrame(p)
    <3>1. Head(wire[p]) \in Envelopes
      BY <2>1 DEF ReceiveFrame, TypeOK
    <3> QED
      BY <1>2, <1>4, <2>1, <3>1 DEF ReceiveFrame
  <2>2. CASE ReceiveStray(p)
    <3>1. Head(stray[p]) \in Envelopes
      BY <2>2 DEF ReceiveStray, TypeOK
    <3> QED
      BY <1>2, <1>4, <2>2, <3>1 DEF ReceiveStray
  <2> QED
    BY <1>5, <2>1, <2>2
<1>6. ASSUME NEW call \in verifying, Run(call) PROVE VerifierInvariant'
  <2>1. RunsInOrder' /\ GuardIsNotPoisoned'
    BY <1>6, RunKeepsOrder
  <2>2. ~call.revoked
    BY <1>6 DEF Run, VerifierInvariant
  <2>3. RevocationIsFinal'
    BY <1>6, <2>2 DEF Run, VerifierInvariant, RevocationIsFinal
  <2>4. Registry' /\ NoRevokedKey'
    BY <1>6 DEF Run, VerifierInvariant, keyVars
  <2> QED
    BY <2>1, <2>3, <2>4 DEF VerifierInvariant
<1>7. ASSUME NEW call \in verifying, RejectReplayed(call) \/ Reject(call) PROVE VerifierInvariant'
  <2>1. UNCHANGED <<lastSeq, ran, ranRevoked, keyVars>> /\ verifying' \subseteq verifying
    BY <1>7 DEF RejectReplayed, Reject
  <2> QED
    BY <1>2, <2>1 DEF VerifierInvariant, keyVars
<1>8. CASE KeyStep
  <2>1. UNCHANGED gateVars /\ Registry'
    BY <1>8 DEF KeyStep, Enroll, Revoke
  <2> QED
    BY <1>2, <2>1 DEF gateVars, VerifierInvariant
<1>9. CASE Restart
  BY <1>9 DEF Restart, VerifierInvariant, RunsInOrder, GuardIsNotPoisoned, RevocationIsFinal
<1>10. CASE UNCHANGED vars
  BY <1>1, <1>10 DEF vars
<1> QED
  BY <1>3, <1>5, <1>6, <1>7, <1>8, <1>9, <1>10 DEF Next, GateStep

\* The strengthened invariant of the guard and the registry holds forever.
THEOREM VerifierInvariance == Spec => []VerifierInvariant
  BY InitVerifierInvariant, NextVerifierInvariant, TypeCorrect, PTL DEF Spec

\* Whatever overtakes whatever, one daemon runs the commands of a client in strictly increasing order
\* of their numbers, and a command that is turned away never moves the guard.
THEOREM CommandsRunInOrder == Spec => []GuardFollowsRuns
<1>1. VerifierInvariant => GuardFollowsRuns
  BY DEF VerifierInvariant, GuardFollowsRuns
<1> QED
  BY <1>1, VerifierInvariance, PTL

\* No command that arrives after its key was revoked runs.
THEOREM RevokedKeysStayOut == Spec => []RevocationIsFinal
<1>1. VerifierInvariant => RevocationIsFinal
  BY DEF VerifierInvariant
<1> QED
  BY <1>1, VerifierInvariance, PTL

-----------------------------------------------------------------------------
(* The relay.                                                              *)

\* The part of the state that concerns one registered socket: it is permitted, a connected
\* one is in its place in the table, and a connected browser knows whether its device has
\* a daemon.
SocketInv(c) ==
    /\ Permitted(c)
    /\ (Open(c) /\ RoleOf[c] = "daemon") => daemonOf[DeviceOf[c]] = c
    /\ (Open(c) /\ RoleOf[c] = "browser") =>
        /\ c \in browsersOf[DeviceOf[c]]
        /\ told[c] = IF daemonOf[DeviceOf[c]] = NoConn THEN "offline" ELSE "online"

\* The table holds only registered sockets, of the right role and device, closed ones only
\* if they are ghosts.
TableInv ==
    \A d \in Devices :
        /\ daemonOf[d] # NoConn => daemonOf[d] \in registered \cap (conns \cup ghosts)
        /\ browsersOf[d] \subseteq registered \cap (conns \cup ghosts)

RelayInv ==
    /\ RelayTypeOK
    /\ \A c \in registered : SocketInv(c)
    /\ TableInv

USE RelayAssumption

LEMMA InitRelay == RelayInit => RelayInv
BY DEF RelayInit, RelayInv, RelayTypeOK, TableInv, SocketInv, Daemons, Browsers, Open

\* Steps that leave the table alone and open no socket that is registered.
LEMMA OffTheTable ==
    ASSUME RelayInv, RelayTypeOK', UNCHANGED tables,
           \A c \in registered : socket'[c] = "open" => socket[c] = "open",
           conns \cap registered \subseteq conns'
    PROVE  RelayInv'
<1>1. ASSUME NEW c \in registered' PROVE SocketInv(c)'
    BY <1>1 DEF RelayInv, SocketInv, Open, Permitted, tables
<1>2. TableInv'
    BY DEF RelayInv, TableInv, tables
<1> QED BY <1>1, <1>2 DEF RelayInv

LEMMA RelayTypeStep == RelayInv /\ [RelayNext]_relayVars => RelayTypeOK'
<1> SUFFICES ASSUME RelayInv, [RelayNext]_relayVars PROVE RelayTypeOK'
    OBVIOUS
<1> USE DEF RelayInv, RelayTypeOK, Open
<1>1. CASE UNCHANGED relayVars
    BY <1>1 DEF relayVars, tables, Daemons, Browsers
<1>2. CASE PingAll
    BY <1>2 DEF PingAll, tables, Daemons, Browsers
<1>3. ASSUME NEW c \in Conns, Connect(c) PROVE RelayTypeOK'
    BY <1>3 DEF Connect, tables, Daemons, Browsers
<1>4. ASSUME NEW c \in Conns, Vanish(c) \/ Pong(c) \/ BeginRegister(c) PROVE RelayTypeOK'
    BY <1>4 DEF Vanish, Pong, BeginRegister, tables, Daemons, Browsers
<1>5. ASSUME NEW c \in Conns, BadRegister(c) \/ Refuse(c) \/ RegisterTimeout(c) PROVE RelayTypeOK'
    BY <1>5 DEF BadRegister, Refuse, RegisterTimeout, CloseSocket, tables, Daemons, Browsers
<1>6. ASSUME NEW c \in Conns, RegisterDaemon(c) PROVE RelayTypeOK'
    BY <1>6 DEF RegisterDaemon, Accepted, BroadcastPeerState, Daemons, Browsers
<1>7. ASSUME NEW c \in Conns, RegisterBrowser(c) PROVE RelayTypeOK'
    BY <1>7 DEF RegisterBrowser, Accepted, Daemons, Browsers
<1>8. ASSUME NEW c \in Conns, OnClose(c) PROVE RelayTypeOK'
    <2>1. CASE c \in registered
        BY <1>8, <2>1 DEF OnClose, Leave, BroadcastPeerState, Daemons, Browsers
    <2>2. CASE c \notin registered
        BY <1>8, <2>2 DEF OnClose, Daemons, Browsers
    <2> QED BY <2>1, <2>2
<1> QED BY <1>1, <1>2, <1>3, <1>4, <1>5, <1>6, <1>7, <1>8 DEF RelayNext

LEMMA RegisterDaemonStep ==
    ASSUME RelayInv, RelayTypeOK', NEW c \in Conns, RegisterDaemon(c)
    PROVE  RelayInv'
<1> USE DEF RelayInv, RelayTypeOK, RegisterDaemon, Accepted
<1>1. registered' = registered \cup {c} /\ c \notin registered
    OBVIOUS
<1>2. ASSUME NEW x \in registered' PROVE SocketInv(x)'
    <2>1. CASE x = c
        BY <2>1 DEF SocketInv, Permitted, Open
    <2>2. CASE x # c /\ RoleOf[x] = "daemon"
        BY <1>1, <1>2, <2>2 DEF SocketInv, Permitted, Open, Daemons
    <2>3. CASE RoleOf[x] = "browser"
        <3>1. Open(x)' => Open(x)
            BY <1>1, <1>2, <2>3 DEF Open
        <3>2. x \in registered /\ SocketInv(x)
            BY <1>1, <1>2, <2>3
        <3>3. CASE DeviceOf[x] = DeviceOf[c]
            BY <2>3, <3>1, <3>2, <3>3 DEF SocketInv, Permitted, Open, BroadcastPeerState
        <3>4. CASE DeviceOf[x] # DeviceOf[c]
            BY <2>3, <3>1, <3>2, <3>4 DEF SocketInv, Permitted, Open, Browsers, BroadcastPeerState
        <3> QED BY <3>3, <3>4
    <2> QED BY <2>1, <2>2, <2>3
<1>3. TableInv'
    BY <1>1 DEF TableInv
<1> QED BY <1>2, <1>3

LEMMA RegisterBrowserStep ==
    ASSUME RelayInv, RelayTypeOK', NEW c \in Conns, RegisterBrowser(c)
    PROVE  RelayInv'
<1> USE DEF RelayInv, RelayTypeOK, RegisterBrowser, Accepted
<1>1. registered' = registered \cup {c} /\ c \notin registered
    OBVIOUS
<1>2. ASSUME NEW x \in registered' PROVE SocketInv(x)'
    <2>1. CASE x = c
        BY <2>1 DEF SocketInv, Permitted, Open
    <2>2. CASE x # c
        BY <1>1, <1>2, <2>2 DEF SocketInv, Permitted, Open
    <2> QED BY <2>1, <2>2
<1>3. TableInv'
    BY <1>1 DEF TableInv
<1> QED BY <1>2, <1>3

LEMMA CloseStep ==
    ASSUME RelayInv, RelayTypeOK', NEW c \in Conns, OnClose(c)
    PROVE  RelayInv'
<1> USE DEF RelayInv, RelayTypeOK, OnClose
<1>1. CASE c \in registered
    <2>1. ASSUME NEW x \in registered' PROVE SocketInv(x)'
        <3>1. SocketInv(x) /\ (Open(x)' => Open(x) /\ x # c)
            BY <2>1 DEF Open
        <3>2. CASE DeviceOf[x] = DeviceOf[c]
            BY <1>1, <2>1, <3>1, <3>2 DEF SocketInv, Permitted, Open, Leave, BroadcastPeerState, Daemons
        <3>3. CASE DeviceOf[x] # DeviceOf[c]
            BY <1>1, <2>1, <3>1, <3>3 DEF SocketInv, Permitted, Open, Leave, BroadcastPeerState, Daemons, Browsers
        <3> QED BY <3>2, <3>3
    <2>2. TableInv'
        BY <1>1 DEF TableInv, Leave, Daemons, Browsers
    <2> QED BY <2>1, <2>2
<1>2. CASE c \notin registered
    <2>1. ASSUME NEW x \in registered' PROVE SocketInv(x)'
        BY <1>2, <2>1 DEF SocketInv, Permitted, Open
    <2>2. TableInv'
        BY <1>2 DEF TableInv
    <2> QED BY <2>1, <2>2
<1> QED BY <1>1, <1>2

LEMMA RelayStep == RelayInv /\ [RelayNext]_relayVars => RelayInv'
<1> SUFFICES ASSUME RelayInv, [RelayNext]_relayVars PROVE RelayInv'
    OBVIOUS
<1>0. RelayTypeOK'
    BY RelayTypeStep
<1>1. CASE UNCHANGED relayVars
    BY <1>0, <1>1, OffTheTable DEF relayVars
<1>2. CASE PingAll
    BY <1>0, <1>2, OffTheTable DEF PingAll, RelayInv, RelayTypeOK
<1>3. ASSUME NEW c \in Conns, Connect(c) PROVE RelayInv'
    <2>1. c \notin registered
        BY <1>3 DEF Connect, RelayInv, RelayTypeOK
    <2> QED BY <1>0, <1>3, <2>1, OffTheTable DEF Connect, RelayInv, RelayTypeOK
<1>4. ASSUME NEW c \in Conns, Vanish(c) \/ Pong(c) \/ BeginRegister(c) PROVE RelayInv'
    BY <1>0, <1>4, OffTheTable DEF Vanish, Pong, BeginRegister
<1>5. ASSUME NEW c \in Conns, BadRegister(c) \/ Refuse(c) \/ RegisterTimeout(c) PROVE RelayInv'
    BY <1>0, <1>5, OffTheTable DEF BadRegister, Refuse, RegisterTimeout, CloseSocket, Open, RelayInv, RelayTypeOK
<1>6. ASSUME NEW c \in Conns, RegisterDaemon(c) PROVE RelayInv'
    BY <1>0, <1>6, RegisterDaemonStep
<1>7. ASSUME NEW c \in Conns, RegisterBrowser(c) PROVE RelayInv'
    BY <1>0, <1>7, RegisterBrowserStep
<1>8. ASSUME NEW c \in Conns, OnClose(c) PROVE RelayInv'
    BY <1>0, <1>8, CloseStep
<1> QED BY <1>1, <1>2, <1>3, <1>4, <1>5, <1>6, <1>7, <1>8 DEF RelayNext

\* The inductive invariant of the routing table (RelayServer.handleRegister, onClose).
THEOREM RelayInvariance == RelaySpec => []RelayInv
<1>1. RelayInit => RelayInv
    BY InitRelay
<1>2. RelayInv /\ [RelayNext]_relayVars => RelayInv'
    BY RelayStep
<1> QED BY <1>1, <1>2, PTL DEF RelaySpec

\* A frame is forwarded to exactly the connected sockets of the other role that the same
\* user registered for the same device (RelayServer.routeBrowserToDaemon, routeDaemonToBrowsers).
THEOREM ExactRoutes == RelaySpec => []RoutesAreExact
<1>1. RelayInv => RoutesAreExact
    <2> SUFFICES ASSUME RelayInv, NEW c \in registered, Open(c)
                 PROVE  Route(c) = {x \in registered : /\ Open(x)
                                       /\ RoleOf[x] # RoleOf[c]
                                       /\ DeviceOf[x] = DeviceOf[c] /\ UserOf[x] = UserOf[c]}
        BY DEF RoutesAreExact
    <2> USE DEF RelayInv, RelayTypeOK, Open, SocketInv, Permitted
    <2>1. CASE RoleOf[c] = "browser"
        BY <2>1 DEF Route, TableInv, Daemons
    <2>2. CASE RoleOf[c] = "daemon"
        BY <2>2 DEF Route, TableInv, Browsers
    <2> QED BY <2>1, <2>2
<1> QED BY <1>1, RelayInvariance, PTL

\* A connected browser was last told the truth about its daemon (RelayServer.broadcastPeerState).
THEOREM TruePresence == RelaySpec => []PresenceIsTrue
<1>1. RelayInv => PresenceIsTrue
    <2> SUFFICES ASSUME RelayInv, NEW b \in registered, RoleOf[b] = "browser", Open(b),
                        NEW d \in Devices, d = DeviceOf[b]
                 PROVE  /\ (\E c \in registered \cap Daemons(d) : Open(c)) => told[b] = "online"
                        /\ told[b] = "online" =>
                             \E c \in registered \cap Daemons(d) : socket[c] # "closed" \/ c \in ghosts
        BY DEF PresenceIsTrue, RelayInv, RelayTypeOK
    <2> USE DEF RelayInv, RelayTypeOK, SocketInv, Open
    <2>1. ASSUME NEW c \in registered \cap Daemons(d), Open(c) PROVE told[b] = "online"
        BY <2>1 DEF Daemons
    <2>2. ASSUME told[b] = "online"
          PROVE  \E c \in registered \cap Daemons(d) : socket[c] # "closed" \/ c \in ghosts
        <3>1. daemonOf[d] # NoConn
            BY <2>2
        <3> QED BY <3>1 DEF TableInv
    <2> QED BY <2>1, <2>2
<1> QED BY <1>1, RelayInvariance, PTL

\* A closed socket stays in the table only if its authorization outlasted it (RelayServer.onClose).
THEOREM ClosedLeave == RelaySpec => []SocketInvariant
<1>1. RelayInv => SocketInvariant
    BY DEF RelayInv, TableInv, ClosedSocketsLeave, SocketInvariant
<1> QED BY <1>1, RelayInvariance, PTL
=============================================================================
