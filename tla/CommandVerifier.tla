-------------------------- MODULE CommandVerifier --------------------------
(***************************************************************************)
(* How a signed command gets from a page to the session: the page numbers  *)
(* it and signs it asynchronously (protocol-client.ts, Connection.send),   *)
(* the daemon verifies many at once (CommandVerifier.verify), and only the *)
(* ReplayGuard and the registry of enrolled keys (EnrolledKeyStore) decide *)
(* which of them run, and in which order.                                  *)
(*                                                                         *)
(* A client is an identity in a browser's localStorage: a key and a        *)
(* clientInstanceId.  All tabs of the browser share it, and the number     *)
(* persisted beside it.  Daemon and pages agree on the session's id.       *)
(***************************************************************************)
EXTENDS Naturals, Sequences, FiniteSets, SequencesExt

CONSTANTS Clients,     \* identities: a key and its clientInstanceId
          Pages,       \* tabs
          ClientOf,    \* the identity of each tab
          Bump,        \* SEQ_REJECT_BUMP
          MaxCommands, \* bound: commands sent
          MaxReloads,  \* bound: reloads of a page
          MaxRestarts  \* bound: restarts of the daemon

ASSUME VerifierAssumption ==
    /\ ClientOf \in [Pages -> Clients]
    /\ Bump \in Nat /\ MaxCommands \in Nat /\ MaxReloads \in Nat /\ MaxRestarts \in Nat

VARIABLES seq,       \* per page: Connection.seq
          persisted, \* per client: the number in localStorage
          signing,   \* per page: envelopes whose signature is being computed
          wire,      \* per page: signed envelopes on its socket
          stray,     \* per page: those still on the socket of the page before its reload
          rejected,  \* per page: "replayed" rejections it has not read
          verifying, \* verify() calls under way
          lastSeq,   \* ReplayGuard.lastSeq; 0 for a client it does not know
          record,    \* per client: its enrollment, "none", "active" or "revoked"
          active,    \* EnrolledKeyStore.active, the keys verification consults
          sent, reloads, restarts

\* History.
VARIABLES ran,       \* per client: numbers of the commands run by this daemon, in order
          ranRevoked \* clients with a command that arrived after its key was revoked and ran

pageVars == <<seq, persisted, signing, wire, stray, rejected, sent, reloads>>
gateVars == <<verifying, lastSeq, ran, ranRevoked>>
keyVars == <<record, active>>
vars == <<pageVars, gateVars, keyVars, restarts>>

Envelopes == [id : Nat, client : Clients, seq : Nat]

\* envelopes a page has sent and the daemon has not read
OnSockets(p) == ToSet(wire[p]) \cup ToSet(stray[p])

TypeOK ==
    /\ seq \in [Pages -> Nat] /\ persisted \in [Clients -> Nat] /\ rejected \in [Pages -> Nat]
    /\ signing \in [Pages -> SUBSET Envelopes]
    /\ wire \in [Pages -> Seq(Envelopes)] /\ stray \in [Pages -> Seq(Envelopes)]
    /\ verifying \subseteq [env : Envelopes, keys : SUBSET Clients, revoked : BOOLEAN]
    /\ lastSeq \in [Clients -> Nat]
    /\ record \in [Clients -> {"none", "active", "revoked"}] /\ active \subseteq Clients
    /\ ran \in [Clients -> Seq(Nat)] /\ ranRevoked \subseteq Clients
    /\ sent \in 0..MaxCommands /\ reloads \in 0..MaxReloads /\ restarts \in 0..MaxRestarts
    /\ \A p \in Pages :
        /\ signing[p] \cap OnSockets(p) = {}
        /\ \A env \in signing[p] \cup OnSockets(p) : env.id <= sent

Init ==
    /\ seq = [p \in Pages |-> 0] /\ persisted = [c \in Clients |-> 0]
    /\ signing = [p \in Pages |-> {}] /\ rejected = [p \in Pages |-> 0]
    /\ wire = [p \in Pages |-> <<>>] /\ stray = [p \in Pages |-> <<>>]
    /\ verifying = {} /\ lastSeq = [c \in Clients |-> 0]
    /\ record = [c \in Clients |-> "none"] /\ active = {}
    /\ ran = [c \in Clients |-> <<>>] /\ ranRevoked = {}
    /\ sent = 0 /\ reloads = 0 /\ restarts = 0

-----------------------------------------------------------------------------
(* The page.                                                               *)

\* writePersistedSeq(): best effort, and it overwrites whatever another tab wrote
Persist(p, n) ==
    \/ persisted' = [persisted EXCEPT ![ClientOf[p]] = n]
    \/ UNCHANGED persisted

\* send() up to `await signEnvelope(...)`
Send(p) ==
    /\ sent < MaxCommands
    /\ sent' = sent + 1
    /\ seq' = [seq EXCEPT ![p] = @ + 1]
    /\ Persist(p, seq'[p])
    /\ signing' = [signing EXCEPT ![p] = @ \cup {[id |-> sent', client |-> ClientOf[p], seq |-> seq'[p]]}]
    /\ UNCHANGED <<wire, stray, rejected, reloads, gateVars, keyVars, restarts>>

\* Slip: an envelope that was sent is kept to be sent again.
SignedKept(p, env) ==
    /\ env \in signing[p]
    /\ wire' = [wire EXCEPT ![p] = Append(@, env)]
    /\ UNCHANGED <<signing, seq, persisted, stray, rejected, sent, reloads, gateVars, keyVars, restarts>>

\* the rest of send(): signatures computed at once may be ready in any order
Signed(p, env) ==
    /\ env \in signing[p]
    /\ signing' = [signing EXCEPT ![p] = @ \ {env}]
    /\ wire' = [wire EXCEPT ![p] = Append(@, env)]
    /\ UNCHANGED <<seq, persisted, stray, rejected, sent, reloads, gateVars, keyVars, restarts>>

\* a reloaded page reads the persisted number; the frames of its old socket may still arrive
Reload(p) ==
    /\ reloads < MaxReloads
    /\ reloads' = reloads + 1
    /\ seq' = [seq EXCEPT ![p] = persisted[ClientOf[p]]]
    /\ signing' = [signing EXCEPT ![p] = {}]
    /\ stray' = [stray EXCEPT ![p] = @ \o wire[p]]
    /\ wire' = [wire EXCEPT ![p] = <<>>]
    /\ rejected' = [rejected EXCEPT ![p] = 0]
    /\ UNCHANGED <<persisted, sent, gateVars, keyVars, restarts>>

\* applyEnvelope() of a rejection as replayed: the counter jumps ahead
OnReplayed(p) ==
    /\ rejected[p] > 0
    /\ rejected' = [rejected EXCEPT ![p] = @ - 1]
    /\ seq' = [seq EXCEPT ![p] = @ + Bump]
    /\ Persist(p, seq'[p])
    /\ UNCHANGED <<signing, wire, stray, sent, reloads, gateVars, keyVars, restarts>>

-----------------------------------------------------------------------------
(* The daemon.                                                             *)

\* verify() up to its first await: the keys are those active now
Verify(env) ==
    verifying' = verifying \cup {[env |-> env, keys |-> active, revoked |-> record[env.client] = "revoked"]}

ReceiveFrame(p) ==
    /\ wire[p] # <<>>
    /\ Verify(Head(wire[p]))
    /\ wire' = [wire EXCEPT ![p] = Tail(@)]
    /\ UNCHANGED <<seq, persisted, signing, stray, rejected, sent, reloads,
                   lastSeq, ran, ranRevoked, keyVars, restarts>>

ReceiveStray(p) ==
    /\ stray[p] # <<>>
    /\ Verify(Head(stray[p]))
    /\ stray' = [stray EXCEPT ![p] = Tail(@)]
    /\ UNCHANGED <<seq, persisted, signing, wire, rejected, sent, reloads,
                   lastSeq, ran, ranRevoked, keyVars, restarts>>

\* Slip: the number is not recorded.
AcceptForgetting(env) ==
    /\ env.seq > lastSeq[env.client]
    /\ UNCHANGED lastSeq

\* ReplayGuard.accept(): newer than anything accepted from this client
Accept(env) ==
    /\ env.seq > lastSeq[env.client]
    /\ lastSeq' = [lastSeq EXCEPT ![env.client] = env.seq]

\* a key verified the envelope, the guard accepts its number, and the command runs
Run(call) ==
    /\ call \in verifying
    /\ call.env.client \in call.keys
    /\ Accept(call.env)
    /\ verifying' = verifying \ {call}
    /\ ran' = [ran EXCEPT ![call.env.client] = Append(@, call.env.seq)]
    /\ ranRevoked' = IF call.revoked THEN ranRevoked \cup {call.env.client} ELSE ranRevoked
    /\ UNCHANGED <<pageVars, keyVars, restarts>>

\* the guard has seen the number: every tab of the client hears of it
RejectReplayed(call) ==
    /\ call \in verifying
    /\ call.env.client \in call.keys
    /\ call.env.seq <= lastSeq[call.env.client]
    /\ verifying' = verifying \ {call}
    /\ rejected' = [p \in Pages |-> IF ClientOf[p] = call.env.client THEN rejected[p] + 1 ELSE rejected[p]]
    /\ UNCHANGED <<seq, persisted, signing, wire, stray, sent, reloads,
                   lastSeq, ran, ranRevoked, keyVars, restarts>>

\* no active key verifies it, or it was under way for longer than the clock window
Reject(call) ==
    /\ call \in verifying
    /\ verifying' = verifying \ {call}
    /\ UNCHANGED <<pageVars, lastSeq, ran, ranRevoked, keyVars, restarts>>

-----------------------------------------------------------------------------
(* The registry of keys, and restarts.                                     *)

\* enroll(): a key that is active already keeps its record, a revoked one gets a new record
Enroll(c) ==
    /\ record[c] # "active"
    /\ record' = [record EXCEPT ![c] = "active"]
    /\ active' = {k \in Clients : record'[k] = "active"}
    /\ UNCHANGED <<pageVars, gateVars, restarts>>

\* Slip: the cached keys are not rebuilt.
RevokeCached(c) ==
    /\ record[c] = "active"
    /\ record' = [record EXCEPT ![c] = "revoked"]
    /\ UNCHANGED <<active, pageVars, gateVars, restarts>>

Revoke(c) ==
    /\ record[c] = "active"
    /\ record' = [record EXCEPT ![c] = "revoked"]
    /\ active' = {k \in Clients : record'[k] = "active"}
    /\ UNCHANGED <<pageVars, gateVars, restarts>>

\* a new process: the guard is in memory, the registry is read back from its file
Restart ==
    /\ restarts < MaxRestarts
    /\ restarts' = restarts + 1
    /\ verifying' = {}
    /\ lastSeq' = [c \in Clients |-> 0]
    /\ ran' = [c \in Clients |-> <<>>]
    /\ active' = {k \in Clients : record[k] = "active"}
    /\ UNCHANGED <<pageVars, ranRevoked, record>>

-----------------------------------------------------------------------------

PageStep ==
    \E p \in Pages :
        \/ Send(p)
        \/ \E env \in signing[p] : Signed(p, env)
        \/ Reload(p)
        \/ OnReplayed(p)

GateStep ==
    \/ \E p \in Pages : ReceiveFrame(p) \/ ReceiveStray(p)
    \/ \E call \in verifying : Run(call) \/ RejectReplayed(call) \/ Reject(call)

KeyStep == \E c \in Clients : Enroll(c) \/ Revoke(c)

Next == PageStep \/ GateStep \/ KeyStep \/ Restart

Spec == Init /\ [][Next]_vars

-----------------------------------------------------------------------------
(* What the daemon may rely on.                                            *)

\* sign.ts:84-86: though signatures and verifications overtake one another, and the tabs of a browser
\* hand out the same numbers, one daemon runs the commands of a client in strictly increasing order
\* of their numbers, so none of them twice.
RunsInOrder ==
    \A c \in Clients : \A i, j \in DOMAIN ran[c] : i < j => ran[c][i] < ran[c][j]

\* sign.ts:149-150, "a forged high-seq message cannot poison the guard": the guard's mark is the
\* number of the last command that ran, never one of a command that was turned away.
GuardIsNotPoisoned ==
    \A c \in Clients : lastSeq[c] = IF ran[c] = <<>> THEN 0 ELSE Last(ran[c])

\* The replay guard of sign.ts and the commands that run never come apart: a number that ran does not run
\* again, and a number that did not run bars no later one, in whatever order verifications end.
GuardFollowsRuns == RunsInOrder /\ GuardIsNotPoisoned

\* EnrolledKeyStore.ts:110, "Future verifications by that key fail": no command that arrives after its
\* key was revoked ever runs, though verifications already under way keep the keys they began with.
RevocationIsFinal == ranRevoked = {}

-----------------------------------------------------------------------------
(* Inductive strengthening.                                                *)

\* the keys verification consults are those enrolled, and a call never holds a key that was revoked
\* before it began
VerifierInvariant ==
    /\ RunsInOrder
    /\ GuardIsNotPoisoned
    /\ RevocationIsFinal
    /\ active = {c \in Clients : record[c] = "active"}
    /\ \A call \in verifying : call.revoked => call.env.client \notin call.keys
=============================================================================
