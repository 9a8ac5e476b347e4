------------------------------- MODULE Pairing -------------------------------
(***************************************************************************)
(* Pairing a browser with the daemon: the page asks with a code            *)
(* (pairing-flow.ts), the daemon finds the code, derives a channel key,    *)
(* enrolls the browser's key and stores the registry in a file             *)
(* (EnrollmentManager.ts, PairingCodeStore.ts, EnrolledKeyStore.ts), and   *)
(* answers.  A step is what runs between two awaits, so requests are       *)
(* handled concurrently.                                                   *)
(*                                                                         *)
(* An attempt is one call of startPairing(): it has its own X25519 key and *)
(* socket and sends one request, so its number names all of these.  The    *)
(* relay broadcasts an answer to every browser of the device.  Frames get  *)
(* lost (a socket closes, the relay has no daemon, or it still authorizes  *)
(* the page and takes the request for a bad registration): a lost frame is *)
(* one that no step ever takes.                                            *)
(***************************************************************************)
EXTENDS Naturals, Sequences, FiniteSets

CONSTANTS Browsers,    \* browser identities: their Ed25519 public keys
          Codes,       \* pairing codes
          Nobody,      \* no browser
          Plain,       \* the attempts in which an end cannot derive a channel key
          MaxAttempts, \* bound: calls of startPairing()
          MaxCrashes   \* bound: crashes and restarts of the daemon

ASSUME PairingAssumption ==
    /\ Nobody \notin Browsers
    /\ Plain \subseteq Nat
    /\ MaxAttempts \in Nat /\ MaxCrashes \in Nat

VARIABLES attempts,   \* the attempts made: who, with which code
          waiting,    \* per browser: the attempt whose answer it awaits, or 0
          paired,     \* per browser: the stored PairingResult; keyId 0 if there is none
          toDaemon,   \* requests under way, or lost
          acks        \* answers under way, or lost

VARIABLES up,         \* the daemon runs
          minted,     \* per code: "unminted", "valid", "expired" (but still in the map), "dropped"
          consumedBy, \* PairingCode.consumedBy
          stage,      \* per attempt: how far handle() has come
          matching,   \* per attempt: the codes that handle() compares its tag with
          records     \* EnrolledKeyStore.records

\* The key file.  An inode is named by the attempt that created it, 0 is no file.
VARIABLES file, tmp,  \* the inodes under the registry's name and its ".tmp"
          fd,         \* per attempt: the inode its writeFile() has open
          payload,    \* per attempt: how many records it writes
          size,       \* per inode: how many records it holds
          torn,       \* inodes that do not hold a whole JSON text
          crashes

\* History.
VARIABLES overlapped, \* two persist() calls were writing at once
          hasty       \* keys acknowledged to a retry before they were stored

pageVars == <<attempts, waiting, paired>>
codeVars == <<minted, consumedBy>>
fileVars == <<file, tmp, fd, payload, size, torn, overlapped>>
vars == <<pageVars, toDaemon, acks, up, codeVars, stage, matching, records, fileVars, crashes, hasty>>

Attempts == 1..MaxAttempts
Stages == {"none", "matching", "deriving", "mkdir", "writing", "renaming"}
NoChannel == <<0, 0>>

\* A channel key is named by the two X25519 keys it is derived from: the browser's in one
\* attempt, the daemon's in handling one.
Channel(ours, theirs) == IF theirs = 0 THEN NoChannel ELSE <<ours, theirs>>
Channels == (0..MaxAttempts) \X (0..MaxAttempts)
Acks == [to : Browsers, ok : BOOLEAN, keyId : 0..MaxAttempts, x25519 : 0..MaxAttempts]

Requests == [browser : Browsers, code : Codes]
Records == [keyId : Attempts, browser : Browsers, channel : Channels]

PageTypes ==
    /\ attempts \in Seq(Requests) /\ Len(attempts) <= MaxAttempts
    /\ waiting \in [Browsers -> 0..Len(attempts)]
    /\ paired \in [Browsers -> [keyId : 0..MaxAttempts, channel : Channels]]
    /\ toDaemon \subseteq 1..Len(attempts) /\ acks \subseteq Acks

HandlerTypes ==
    /\ up \in BOOLEAN /\ crashes \in 0..MaxCrashes
    /\ minted \in [Codes -> {"unminted", "valid", "expired", "dropped"}]
    /\ consumedBy \in [Codes -> Browsers \cup {Nobody}]
    /\ stage \in [Attempts -> Stages] /\ matching \in [Attempts -> SUBSET Codes]
    /\ \A a \in Attempts : stage[a] # "none" => up /\ a <= Len(attempts)

FileTypes ==
    /\ file \in 0..MaxAttempts /\ tmp \in 0..MaxAttempts /\ (file = tmp => file = 0)
    /\ fd \in [Attempts -> 0..MaxAttempts] /\ payload \in [Attempts -> Nat]
    /\ size \in [Attempts -> Nat] /\ torn \subseteq Attempts
    /\ overlapped \in BOOLEAN /\ hasty \subseteq Attempts

TypeOK == PageTypes /\ HandlerTypes /\ FileTypes /\ records \in Seq(Records)

Init ==
    /\ attempts = <<>> /\ toDaemon = {} /\ acks = {} /\ up = TRUE
    /\ waiting = [b \in Browsers |-> 0]
    /\ paired = [b \in Browsers |-> [keyId |-> 0, channel |-> NoChannel]]
    /\ minted = [k \in Codes |-> "unminted"] /\ consumedBy = [k \in Codes |-> Nobody]
    /\ stage = [a \in Attempts |-> "none"] /\ matching = [a \in Attempts |-> {}]
    /\ records = <<>>
    /\ file = 0 /\ tmp = 0
    /\ fd = [a \in Attempts |-> 0] /\ payload = [a \in Attempts |-> 0]
    /\ size = [a \in Attempts |-> 0] /\ torn = {}
    /\ crashes = 0 /\ overlapped = FALSE /\ hasty = {}

-----------------------------------------------------------------------------
(* The browser: startPairing().                                            *)

\* the page of a browser that has stored no pairing shows the pairing screen; its last attempt is over
MayPair(b) == waiting[b] = 0 /\ paired[b].keyId = 0

\* buildEnrollRequest(): a tag that only this code verifies, over the browser's key
Request(b, code) == [browser |-> b, code |-> code]

\* onSubmit(): the attempt is sent, and its answer awaited, on a socket of its own
Submit(b, a) ==
    /\ waiting' = [waiting EXCEPT ![b] = a]
    /\ toDaemon' = toDaemon \cup {a}

\* the user submits a code (a mistyped one fares like one that ran out)
StartPairing(b, code) ==
    /\ Len(attempts) < MaxAttempts
    /\ MayPair(b)
    /\ minted[code] # "unminted"
    /\ attempts' = Append(attempts, Request(b, code))
    /\ Submit(b, Len(attempts'))
    /\ UNCHANGED <<paired, acks, up, codeVars, stage, matching, records, fileVars, crashes, hasty>>

Timeout(b) ==
    /\ waiting[b] # 0
    /\ waiting' = [waiting EXCEPT ![b] = 0]
    /\ UNCHANGED <<attempts, paired, toDaemon, acks, up, codeVars, stage, matching, records,
                   fileVars, crashes, hasty>>

\* Slip: an answer is not compared with the browser's own key.
ForThisBrowserAny(b, ack) == waiting[b] # 0

ForThisBrowser(b, ack) == waiting[b] # 0 /\ ack.to = b

\* an answer reaches a page that waits for one: a refusal ends the attempt, otherwise the
\* channel key is derived from the attempt's own X25519 key and the result stored
OnAck(b, ack) ==
    /\ ack \in acks /\ ForThisBrowser(b, ack)
    /\ waiting' = [waiting EXCEPT ![b] = 0]
    /\ paired' = [paired EXCEPT ![b] =
                    IF ~ack.ok THEN @
                    ELSE [keyId |-> ack.keyId, channel |-> Channel(waiting[b], ack.x25519)]]
    /\ acks' = acks \ {ack}
    /\ UNCHANGED <<attempts, toDaemon, up, codeVars, stage, matching, records, fileVars, crashes, hasty>>

-----------------------------------------------------------------------------
(* Pairing codes.                                                          *)

\* prune(): what mint() and entries() do first
Pruned == [k \in Codes |-> IF minted[k] = "expired" THEN "dropped" ELSE minted[k]]

\* mintCode() on the trusted machine
Mint(k) ==
    /\ up /\ minted[k] = "unminted"
    /\ minted' = [Pruned EXCEPT ![k] = "valid"]
    /\ UNCHANGED <<pageVars, toDaemon, acks, up, consumedBy, stage, matching, records, fileVars, crashes, hasty>>

\* the clock passes expiresAt
Expire(k) ==
    /\ minted[k] = "valid"
    /\ minted' = [minted EXCEPT ![k] = "expired"]
    /\ UNCHANGED <<pageVars, toDaemon, acks, up, consumedBy, stage, matching, records, fileVars, crashes, hasty>>

\* Slip: the code is not compared with who used it.
MayConsumeAnyone(k, b) == minted[k] \in {"valid", "expired"}

\* consume(): it does not look at the clock, only at whether the code is still in the map
MayConsume(k, b) == minted[k] \in {"valid", "expired"} /\ consumedBy[k] \in {Nobody, b}

-----------------------------------------------------------------------------
(* The daemon: EnrollmentManager.handle().                                 *)

\* the daemon's X25519 key in the answer; 0 is none
KeyFor(a) == IF a \in Plain THEN 0 ELSE a

BrowserOf(a) == attempts[a].browser
CodeOf(a) == attempts[a].code

\* handle() returns and the daemon sends what it returned
Reply(a, ok, keyId, x25519) ==
    /\ stage' = [stage EXCEPT ![a] = "none"]
    /\ matching' = [matching EXCEPT ![a] = {}]
    /\ acks' = acks \cup {[to |-> BrowserOf(a), ok |-> ok, keyId |-> keyId, x25519 |-> x25519]}

\* handle() takes the list of codes, and then awaits an HMAC for each
Receive(a) ==
    /\ up /\ a \in toDaemon
    /\ toDaemon' = toDaemon \ {a}
    /\ minted' = Pruned
    /\ stage' = [stage EXCEPT ![a] = "matching"]
    /\ matching' = [matching EXCEPT ![a] = {k \in Codes : Pruned[k] = "valid"}]
    /\ UNCHANGED <<pageVars, acks, up, consumedBy, records, fileVars, crashes, hasty>>

\* verifyEnrollRequest(): one of the codes the handler took makes the tag of the request
Verified(a) == CodeOf(a) \in matching[a]

\* no code matches, or the request is stale, which is seen only if there is a code to try, or
\* the code that matches was used by another browser or has been dropped meanwhile
RefuseRequest(a) ==
    /\ stage[a] = "matching"
    /\ \/ ~Verified(a)
       \/ matching[a] # {}
       \/ Verified(a) /\ ~MayConsume(CodeOf(a), BrowserOf(a))
    /\ Reply(a, FALSE, 0, 0)
    /\ UNCHANGED <<pageVars, toDaemon, up, codeVars, records, fileVars, crashes, hasty>>

\* the code is this browser's from here on
ConsumeCode(a) ==
    /\ stage[a] = "matching"
    /\ Verified(a) /\ MayConsume(CodeOf(a), BrowserOf(a))
    /\ consumedBy' = [consumedBy EXCEPT ![CodeOf(a)] = BrowserOf(a)]
    /\ stage' = [stage EXCEPT ![a] = "deriving"]
    /\ matching' = [matching EXCEPT ![a] = {}]
    /\ UNCHANGED <<pageVars, toDaemon, acks, up, minted, records, fileVars, crashes, hasty>>

\* findActiveByPubkey()
Existing(b) == {i \in DOMAIN records : records[i].browser = b}

Stored == IF file = 0 \/ file \in torn THEN 0 ELSE size[file]

\* enroll() of a key that is there already: its record is returned, stored or not; the answer
\* carries the X25519 key made for this request
EnrollAgain(a) ==
    /\ stage[a] = "deriving"
    /\ \E i \in Existing(BrowserOf(a)) :
        /\ Reply(a, TRUE, records[i].keyId, KeyFor(a))
        /\ hasty' = IF i > Stored THEN hasty \cup {records[i].keyId} ELSE hasty
    /\ UNCHANGED <<pageVars, toDaemon, up, codeVars, records, fileVars, crashes>>

\* enroll() of a new key up to the first await of persist()
Enroll(a) ==
    /\ stage[a] = "deriving"
    /\ Existing(BrowserOf(a)) = {}
    /\ records' = Append(records, [keyId |-> a, browser |-> BrowserOf(a),
                                   channel |-> Channel(a, KeyFor(a))])
    /\ stage' = [stage EXCEPT ![a] = "mkdir"]
    /\ UNCHANGED <<pageVars, toDaemon, acks, up, codeVars, matching, fileVars, crashes, hasty>>

Writers == {a \in Attempts : stage[a] \in {"writing", "renaming"}}

\* Slip: the registry is written in place.
OpenInPlace(a) ==
    /\ stage[a] = "mkdir"
    /\ stage' = [stage EXCEPT ![a] = "writing"]
    /\ LET i == IF file = 0 THEN a ELSE file IN
        /\ tmp' = i
        /\ fd' = [fd EXCEPT ![a] = i]
        /\ torn' = torn \cup {i}
        /\ size' = [size EXCEPT ![i] = 0]
    /\ payload' = [payload EXCEPT ![a] = Len(records)]
    /\ overlapped' = (overlapped \/ Writers # {})
    /\ UNCHANGED <<pageVars, toDaemon, acks, up, codeVars, matching, records, file, crashes, hasty>>

\* writeFile() opens and truncates the one temporary file; the JSON is made just before
OpenTmp(a) ==
    /\ stage[a] = "mkdir"
    /\ stage' = [stage EXCEPT ![a] = "writing"]
    /\ LET i == IF tmp = 0 THEN a ELSE tmp IN
        /\ tmp' = i
        /\ fd' = [fd EXCEPT ![a] = i]
        /\ torn' = torn \cup {i}
        /\ size' = [size EXCEPT ![i] = 0]
    /\ payload' = [payload EXCEPT ![a] = Len(records)]
    /\ overlapped' = (overlapped \/ Writers # {})
    /\ UNCHANGED <<pageVars, toDaemon, acks, up, codeVars, matching, records, file, crashes, hasty>>

\* writeFile() writes at the start of what it opened: a longer text there leaves its tail
WriteTmp(a) ==
    /\ stage[a] = "writing"
    /\ stage' = [stage EXCEPT ![a] = "renaming"]
    /\ IF size[fd[a]] > payload[a]
         THEN torn' = torn \cup {fd[a]} /\ UNCHANGED size
         ELSE torn' = torn \ {fd[a]} /\ size' = [size EXCEPT ![fd[a]] = payload[a]]
    /\ UNCHANGED <<pageVars, toDaemon, acks, up, codeVars, matching, records, file, tmp, fd, payload,
                   overlapped, crashes, hasty>>

\* Slip: the temporary file is linked, not moved.
RenameKeeping(a) ==
    /\ stage[a] = "renaming" /\ tmp # 0
    /\ file' = tmp /\ UNCHANGED tmp
    /\ Reply(a, TRUE, a, KeyFor(a))
    /\ fd' = [fd EXCEPT ![a] = 0] /\ payload' = [payload EXCEPT ![a] = 0]
    /\ UNCHANGED <<pageVars, toDaemon, up, codeVars, records, size, torn, overlapped, crashes, hasty>>

\* rename() and the answer
Rename(a) ==
    /\ stage[a] = "renaming" /\ tmp # 0
    /\ file' = tmp /\ tmp' = 0
    /\ Reply(a, TRUE, a, KeyFor(a))
    /\ fd' = [fd EXCEPT ![a] = 0] /\ payload' = [payload EXCEPT ![a] = 0]
    /\ UNCHANGED <<pageVars, toDaemon, up, codeVars, records, size, torn, overlapped, crashes, hasty>>

-----------------------------------------------------------------------------
(* Crashes.                                                                *)

Die ==
    /\ up' = FALSE
    /\ stage' = [a \in Attempts |-> "none"] /\ matching' = [a \in Attempts |-> {}]
    /\ minted' = [k \in Codes |-> IF minted[k] = "unminted" THEN "unminted" ELSE "dropped"]
    /\ fd' = [a \in Attempts |-> 0] /\ payload' = [a \in Attempts |-> 0]
    /\ UNCHANGED <<pageVars, toDaemon, acks, consumedBy, records, file, tmp, size, torn, overlapped, hasty>>

Crash ==
    /\ up /\ crashes < MaxCrashes
    /\ crashes' = crashes + 1
    /\ Die

\* rename() finds no temporary file: nobody catches what handleInbound() throws
RenameFails(a) ==
    /\ stage[a] = "renaming" /\ tmp = 0
    /\ Die
    /\ UNCHANGED crashes

\* EnrolledKeyStore.open(): the daemon does not start on a file it cannot parse
Restart ==
    /\ ~up
    /\ file = 0 \/ file \notin torn
    /\ up' = TRUE
    /\ records' = SubSeq(records, 1, Stored)
    /\ UNCHANGED <<pageVars, toDaemon, acks, codeVars, stage, matching, fileVars, crashes, hasty>>

-----------------------------------------------------------------------------
Page ==
    \E b \in Browsers :
        \/ \E code \in Codes : StartPairing(b, code)
        \/ Timeout(b)
        \/ \E ack \in acks : OnAck(b, ack)

Daemon ==
    \/ \E k \in Codes : Mint(k) \/ Expire(k)
    \/ \E a \in Attempts :
        \/ Receive(a) \/ RefuseRequest(a) \/ ConsumeCode(a) \/ EnrollAgain(a) \/ Enroll(a)
        \/ OpenTmp(a) \/ WriteTmp(a) \/ Rename(a) \/ RenameFails(a)
    \/ Crash
    \/ Restart

Next == Page \/ Daemon

Spec == Init /\ [][Next]_vars

-----------------------------------------------------------------------------
Keys == {<<records[i].browser, records[i].keyId>> : i \in DOMAIN records}

\* The abstract specification, over the codes still in the map, PairingCode.consumedBy and the
\* records in memory.
Promise == INSTANCE PairingCodes
            WITH KeyIds <- Attempts, keys <- Keys, owner <- consumedBy,
                 live <- {k \in Codes : minted[k] \in {"valid", "expired"}}

\* A code belongs to the first browser that used it, for good, and a browser is enrolled only
\* with a code of its own and under one key id, however requests and retries interleave at the
\* awaits of handle() and whenever the daemon restarts.
RefinesCodes == Promise!Spec

InFile(id) == \E i \in 1..Stored : records[i].keyId = id

\* A key id the daemon has acknowledged, or the browser has stored, is in the registry file, so
\* no crash loses it ("Persists before returning", "survives crashes").  Two things break that:
\* two persist() calls sharing the temporary file, and a retry that is acknowledged with a
\* record still being written.
AckedIsDurable ==
    \/ overlapped
    \/ /\ \A ack \in acks : ack.ok => InFile(ack.keyId) \/ ack.keyId \in hasty
       /\ \A b \in Browsers : paired[b].keyId # 0 => InFile(paired[b].keyId) \/ paired[b].keyId \in hasty

Tries(b) == Cardinality({a \in DOMAIN attempts : attempts[a].browser = b})

\* What a browser stored is the daemon's record of that very browser, although the relay shows
\* every answer to every browser of the device; and the two ends hold one channel key, as long
\* as the browser needed one attempt only.
PairedMatchesRecord ==
    \A b \in Browsers, i \in DOMAIN records :
        records[i].keyId = paired[b].keyId =>
            /\ records[i].browser = b
            /\ Tries(b) = 1 => records[i].channel = paired[b].channel
=============================================================================
