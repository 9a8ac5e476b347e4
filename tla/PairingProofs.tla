---------------------------- MODULE PairingProofs ----------------------------
(* Theorems about Pairing, for any number of browsers, codes, attempts and crashes. *)
EXTENDS Pairing, FiniteSetTheorems, SequenceTheorems, TLAPS

\* What a code is used for: nothing before it is minted, and an attempt that has got past the
\* matching has made it its browser's.
CodesInv ==
    /\ \A k \in Codes : minted[k] = "unminted" => consumedBy[k] = Nobody
    /\ \A a \in Attempts : stage[a] = "deriving" => consumedBy[CodeOf(a)] = BrowserOf(a)

\* An attempt that has not been enrolled yet: its number is still free as a key id.
Ahead(a) == a \in toDaemon \/ a > Len(attempts) \/ stage[a] \in {"matching", "deriving"}

\* A request is handled once, so key ids and inodes are new when they are made.
FreshInv ==
    /\ \A a \in toDaemon : stage[a] = "none"
    /\ \A a \in Attempts : Ahead(a) => \A i \in DOMAIN records : records[i].keyId # a
    /\ \A a \in Attempts : Ahead(a) \/ stage[a] = "mkdir" => a # file /\ a # tmp

\* Each record is what its attempt made it, and no browser has two.
RecordsInv ==
    /\ \A i \in DOMAIN records :
        /\ records[i].keyId \in DOMAIN attempts
        /\ records[i].browser = BrowserOf(records[i].keyId)
        /\ records[i].channel = Channel(records[i].keyId, KeyFor(records[i].keyId))
    /\ \A i, j \in DOMAIN records : records[i].browser = records[j].browser => i = j

\* the attempts of browser b
Of(b) == {a \in DOMAIN attempts : BrowserOf(a) = b}

\* What is acknowledged, and what a browser stores, comes from attempts of that browser.
PairsInv ==
    /\ \A ack \in acks : ack.ok =>
        ack.keyId \in Of(ack.to) /\ \E h \in Of(ack.to) : ack.x25519 = KeyFor(h)
    /\ \A b \in Browsers :
        /\ waiting[b] # 0 => waiting[b] \in Of(b)
        /\ paired[b].keyId # 0 =>
            paired[b].keyId \in Of(b) /\ \E w, h \in Of(b) : paired[b].channel = Channel(w, KeyFor(h))

\* No file that is or becomes the registry holds more records than there are in memory.
SizesInv ==
    /\ file # 0 => size[file] <= Len(records)
    /\ Writers # {} /\ tmp # 0 => size[tmp] <= Len(records)
    /\ \A a \in Writers : fd[a] # 0 /\ payload[a] <= Len(records)

\* While no two persist() calls have overlapped: there is one writer, it writes a file that is
\* not the registry, and with it its own record and all that the registry has.
WriterInv ==
    /\ file # 0 => file \notin torn
    /\ \A a, b \in Writers : a = b
    /\ \A a \in Attempts : stage[a] = "mkdir" => \E i \in DOMAIN records : records[i].keyId = a
    /\ \A a \in Writers :
        /\ tmp # 0 /\ fd[a] = tmp
        /\ Stored <= payload[a]
        /\ \E i \in 1..payload[a] : records[i].keyId = a
        /\ stage[a] = "writing" => size[tmp] = 0
        /\ stage[a] = "renaming" => tmp \notin torn /\ size[tmp] = payload[a]

DurableInv == overlapped \/ WriterInv

PairingInv ==
    /\ TypeOK /\ CodesInv /\ FreshInv /\ RecordsInv /\ PairsInv /\ SizesInv
    /\ DurableInv /\ AckedIsDurable

USE PairingAssumption

-----------------------------------------------------------------------------
(* Types.                                                                  *)

LEMMA InitPairing == Init => PairingInv
<1> SUFFICES ASSUME Init PROVE PairingInv
    OBVIOUS
<1> USE DEF Init
<1>1. TypeOK
    <2>1. PageTypes
        <3>1. NoChannel \in Channels
            BY DEF NoChannel, Channels
        <3> QED BY <3>1 DEF PageTypes
    <2>2. HandlerTypes
        BY DEF HandlerTypes, Stages
    <2>3. FileTypes
        <3>1. fd \in [Attempts -> 0..MaxAttempts]
            OBVIOUS
        <3>2. payload \in [Attempts -> Nat] /\ size \in [Attempts -> Nat]
            OBVIOUS
        <3>3. file \in 0..MaxAttempts /\ tmp \in 0..MaxAttempts /\ (file = tmp => file = 0)
            OBVIOUS
        <3>4. torn \subseteq Attempts /\ overlapped \in BOOLEAN /\ hasty \subseteq Attempts
            OBVIOUS
        <3> QED BY <3>1, <3>2, <3>3, <3>4 DEF FileTypes
    <2> QED BY <2>1, <2>2, <2>3 DEF TypeOK
<1>2. CodesInv /\ FreshInv
    BY DEF CodesInv, FreshInv, Ahead
<1>3. RecordsInv /\ PairsInv
    BY DEF RecordsInv, PairsInv
<1>4. SizesInv /\ DurableInv /\ AckedIsDurable
    BY DEF SizesInv, Writers, DurableInv, WriterInv, AckedIsDurable
<1> QED BY <1>1, <1>2, <1>3, <1>4 DEF PairingInv

LEMMA AttemptType ==
    ASSUME PageTypes, NEW a \in Attempts, a <= Len(attempts)
    PROVE  a \in DOMAIN attempts /\ BrowserOf(a) \in Browsers /\ CodeOf(a) \in Codes
<1>1. a \in 1..Len(attempts) /\ attempts[a] \in Requests
    BY DEF PageTypes, Attempts
<1> QED BY <1>1 DEF PageTypes, BrowserOf, CodeOf, Requests

LEMMA ChannelType ==
    ASSUME NEW w \in Attempts, NEW x \in 0..MaxAttempts
    PROVE  Channel(w, x) \in Channels
BY DEF Channel, Channels, NoChannel, Attempts

LEMMA KeyForType == ASSUME NEW a \in Attempts PROVE KeyFor(a) \in 0..MaxAttempts
BY DEF KeyFor, Attempts

LEMMA ReplyType ==
    ASSUME PageTypes, HandlerTypes, NEW a \in Attempts, stage[a] # "none", NEW ok \in BOOLEAN,
           NEW keyId \in 0..MaxAttempts, NEW x \in 0..MaxAttempts, Reply(a, ok, keyId, x)
    PROVE  /\ acks' \subseteq Acks /\ stage' \in [Attempts -> Stages]
           /\ matching' \in [Attempts -> SUBSET Codes]
           /\ \A c \in Attempts : stage'[c] # "none" => stage[c] # "none"
<1>1. BrowserOf(a) \in Browsers
    BY AttemptType DEF HandlerTypes
<1>2. acks' \subseteq Acks
    BY <1>1 DEF PageTypes, Reply, Acks
<1> QED BY <1>2 DEF HandlerTypes, Reply, Stages

LEMMA PageStep == PairingInv /\ [Next]_vars => PageTypes'
<1> SUFFICES ASSUME TypeOK, RecordsInv, [Next]_vars PROVE PageTypes'
    BY DEF PairingInv
<1> USE DEF TypeOK
<1>1. CASE UNCHANGED <<pageVars, toDaemon, acks>>
    BY <1>1 DEF PageTypes, pageVars
<1>2. ASSUME NEW b \in Browsers, NEW code \in Codes, StartPairing(b, code) PROVE PageTypes'
    <2>1. [browser |-> b, code |-> code] \in Requests
        BY DEF Requests
    <2>2. attempts' \in Seq(Requests) /\ Len(attempts') = Len(attempts) + 1
        BY <1>2, <2>1 DEF StartPairing, MayPair, Request, Submit, PageTypes
    <2>3. Len(attempts') \in 1..MaxAttempts /\ 1..Len(attempts) \subseteq 1..Len(attempts')
        BY <1>2, <2>2 DEF StartPairing, MayPair, Request, Submit, PageTypes
    <2>4. waiting' \in [Browsers -> 0..Len(attempts')] /\ toDaemon' \subseteq 1..Len(attempts')
        <3>1. waiting \in [Browsers -> 0..Len(attempts)] /\ toDaemon \subseteq 1..Len(attempts)
            BY DEF PageTypes
        <3>2. waiting' = [waiting EXCEPT ![b] = Len(attempts')]
            BY <1>2 DEF StartPairing, MayPair, Request, Submit
        <3>3. toDaemon' = toDaemon \cup {Len(attempts')}
            BY <1>2 DEF StartPairing, MayPair, Request, Submit
        <3>4. Len(attempts) \in Nat /\ Len(attempts') \in Nat
            BY <2>3 DEF PageTypes
        <3>5. waiting' \in [Browsers -> 0..Len(attempts')]
            BY <2>2, <3>1, <3>2, <3>4
        <3>6. Len(attempts') \in 1..Len(attempts')
            BY <2>3
        <3> QED BY <2>3, <3>1, <3>3, <3>5, <3>6
    <2>5. UNCHANGED <<paired, acks>> /\ Len(attempts') <= MaxAttempts
        BY <1>2, <2>3 DEF StartPairing, MayPair, Request, Submit
    <2>6. paired \in [Browsers -> [keyId : 0..MaxAttempts, channel : Channels]] /\ acks \subseteq Acks
        BY DEF PageTypes
    <2> QED BY <2>2, <2>4, <2>5, <2>6 DEF PageTypes
<1>3. ASSUME NEW b \in Browsers, Timeout(b) PROVE PageTypes'
    BY <1>3 DEF Timeout, PageTypes
<1>4. ASSUME NEW b \in Browsers, NEW ack \in acks, OnAck(b, ack) PROVE PageTypes'
    <2>1. waiting[b] \in Attempts /\ ack \in Acks
        BY <1>4 DEF OnAck, ForThisBrowser, Attempts, PageTypes
    <2>2. Channel(waiting[b], ack.x25519) \in Channels
        BY <2>1, ChannelType DEF Acks
    <2>3. paired' \in [Browsers -> [keyId : 0..MaxAttempts, channel : Channels]]
        BY <1>4, <2>1, <2>2 DEF OnAck, Acks, PageTypes
    <2> QED BY <1>4, <2>3 DEF OnAck, PageTypes
<1>5. ASSUME NEW a \in Attempts, Receive(a) PROVE PageTypes'
    BY <1>5 DEF Receive, PageTypes, pageVars
<1>6. ASSUME NEW a \in Attempts, NEW ok \in BOOLEAN, NEW keyId \in 0..MaxAttempts,
             NEW x \in 0..MaxAttempts, stage[a] # "none", Reply(a, ok, keyId, x),
             UNCHANGED <<pageVars, toDaemon>>
      PROVE  PageTypes'
    BY <1>6, ReplyType DEF PageTypes, pageVars
<1>7. ASSUME NEW a \in Attempts, RefuseRequest(a) \/ EnrollAgain(a) \/ Rename(a) PROVE PageTypes'
    <2>1. CASE RefuseRequest(a)
        <3>1. stage[a] # "none" /\ Reply(a, FALSE, 0, 0) /\ UNCHANGED <<pageVars, toDaemon>>
            BY <2>1 DEF RefuseRequest
        <3>2. 0 \in 0..MaxAttempts
            OBVIOUS
        <3> QED BY <1>6, <3>1, <3>2, Zenon
    <2>2. CASE EnrollAgain(a)
        <3>1. PICK i \in Existing(BrowserOf(a)) : Reply(a, TRUE, records[i].keyId, KeyFor(a))
            BY <2>2 DEF EnrollAgain
        <3>2. records[i].keyId \in DOMAIN attempts
            BY DEF Existing, RecordsInv
        <3>3. records[i].keyId \in 0..MaxAttempts
            BY <3>2 DEF PageTypes
        <3> QED BY <1>6, <2>2, <3>1, <3>3, KeyForType DEF EnrollAgain
    <2>3. CASE Rename(a)
        <3>1. a \in 0..MaxAttempts
            BY DEF Attempts
        <3> QED BY <1>6, <2>3, <3>1, KeyForType DEF Rename
    <2> QED BY <1>7, <2>1, <2>2, <2>3
<1> QED BY <1>1, <1>2, <1>3, <1>4, <1>5, <1>7
        DEF Next, Page, Daemon, vars, Mint, Expire, ConsumeCode, Verified, Enroll, OpenTmp, WriteTmp,
            Crash, RenameFails, Die, Restart

LEMMA HandlerStep == PairingInv /\ [Next]_vars => HandlerTypes'
<1> SUFFICES ASSUME PageTypes, HandlerTypes, [Next]_vars PROVE HandlerTypes'
    BY DEF PairingInv, TypeOK
<1>1. CASE UNCHANGED <<attempts, up, codeVars, stage, matching, crashes>>
    BY <1>1 DEF HandlerTypes, codeVars
<1>2. ASSUME NEW b \in Browsers, NEW code \in Codes, StartPairing(b, code) PROVE HandlerTypes'
    <2>1. Len(attempts') = Len(attempts) + 1 /\ Len(attempts) \in Nat
        BY <1>2 DEF StartPairing, MayPair, Request, Submit, PageTypes
    <2> QED BY <1>2, <2>1 DEF StartPairing, MayPair, Request, Submit, HandlerTypes, codeVars, Attempts
<1>3. ASSUME NEW k \in Codes, Mint(k) \/ Expire(k) PROVE HandlerTypes'
    BY <1>3 DEF Mint, Expire, Pruned, HandlerTypes, pageVars
<1>4. ASSUME NEW a \in Attempts, Receive(a) PROVE HandlerTypes'
    <2>1. a <= Len(attempts)
        BY <1>4 DEF Receive, PageTypes
    <2> QED BY <1>4, <2>1 DEF Receive, HandlerTypes, Pruned, Stages, pageVars
<1>5. ASSUME NEW a \in Attempts, ConsumeCode(a) PROVE HandlerTypes'
    BY <1>5, AttemptType DEF ConsumeCode, Verified, HandlerTypes, Stages, pageVars
<1>6. ASSUME NEW a \in Attempts, NEW ok, NEW keyId, NEW x, stage[a] # "none",
             Reply(a, ok, keyId, x), UNCHANGED <<attempts, up, codeVars, crashes>>
      PROVE  HandlerTypes'
    BY <1>6 DEF Reply, HandlerTypes, Stages, codeVars
<1>7. ASSUME NEW a \in Attempts, RefuseRequest(a) \/ EnrollAgain(a) \/ Rename(a)
      PROVE  HandlerTypes'
    <2>1. stage[a] # "none" /\ UNCHANGED <<attempts, up, codeVars, crashes>>
        BY <1>7 DEF RefuseRequest, EnrollAgain, Rename, pageVars
    <2>2. \E ok, keyId, x : Reply(a, ok, keyId, x)
        BY <1>7, Zenon DEF RefuseRequest, EnrollAgain, Rename
    <2> QED BY <1>6, <2>1, <2>2
<1>8. ASSUME NEW a \in Attempts, Enroll(a) \/ OpenTmp(a) \/ WriteTmp(a) PROVE HandlerTypes'
    BY <1>8 DEF Enroll, OpenTmp, WriteTmp, HandlerTypes, Stages, pageVars, codeVars
<1>9. CASE Die /\ crashes' \in 0..MaxCrashes
    BY <1>9 DEF Die, HandlerTypes, Stages, pageVars
<1>10. CASE Crash
    <2>1. crashes' \in 0..MaxCrashes
        BY <1>10 DEF Crash, HandlerTypes
    <2> QED BY <1>9, <1>10, <2>1 DEF Crash
<1>11. ASSUME NEW a \in Attempts, RenameFails(a) PROVE HandlerTypes'
    BY <1>9, <1>11 DEF RenameFails, HandlerTypes
<1>12. CASE Restart
    BY <1>12 DEF Restart, HandlerTypes, pageVars, codeVars
<1> QED BY <1>1, <1>2, <1>3, <1>4, <1>5, <1>7, <1>8, <1>10, <1>11, <1>12
        DEF Next, Page, Daemon, vars, pageVars, Timeout, OnAck

LEMMA FileStep == PairingInv /\ [Next]_vars => FileTypes'
<1> SUFFICES ASSUME FileTypes, FreshInv, RecordsInv, SizesInv, PageTypes, records \in Seq(Records),
                    [Next]_vars
             PROVE  FileTypes'
    BY DEF PairingInv, TypeOK
<1>1. CASE UNCHANGED <<fileVars, hasty>>
    BY <1>1 DEF FileTypes, fileVars
<1>2. ASSUME NEW a \in Attempts, EnrollAgain(a) PROVE FileTypes'
    <2>1. PICK i \in Existing(BrowserOf(a)) :
            hasty' = IF i > Stored THEN hasty \cup {records[i].keyId} ELSE hasty
        BY <1>2 DEF EnrollAgain
    <2>2. records[i].keyId \in Attempts
        BY DEF Existing, RecordsInv, PageTypes, Attempts
    <2> QED BY <1>2, <2>1, <2>2 DEF EnrollAgain, FileTypes, fileVars
<1>3. ASSUME NEW a \in Attempts, OpenTmp(a) PROVE FileTypes'
    <2>1. a # file /\ a # tmp /\ a \in 0..MaxAttempts
        BY <1>3 DEF OpenTmp, FreshInv, Attempts
    <2> DEFINE i == IF tmp = 0 THEN a ELSE tmp
    <2>2. /\ i \in Attempts
          /\ tmp' = i /\ fd' = [fd EXCEPT ![a] = i] /\ torn' = torn \cup {i}
          /\ size' = [size EXCEPT ![i] = 0]
        BY <1>3 DEF OpenTmp, FileTypes, Attempts
    <2>3. payload' = [payload EXCEPT ![a] = Len(records)] /\ Len(records) \in Nat
        <3>1. payload' = [payload EXCEPT ![a] = Len(records)]
            BY <1>3 DEF OpenTmp
        <3>2. Len(records) \in Nat
            OBVIOUS
        <3> QED BY <3>1, <3>2
    <2>4. UNCHANGED <<file, hasty>> /\ overlapped' \in BOOLEAN
        BY <1>3 DEF OpenTmp
    <2>5. i \in 0..MaxAttempts /\ (file = i => file = 0)
        BY <2>1, <2>2 DEF FileTypes, Attempts
    <2> HIDE DEF i
    <2>6. fd' \in [Attempts -> 0..MaxAttempts] /\ payload' \in [Attempts -> Nat]
        BY <2>2, <2>3, <2>5 DEF FileTypes
    <2>7. size' \in [Attempts -> Nat] /\ torn' \subseteq Attempts
        BY <2>2 DEF FileTypes
    <2> QED BY <2>2, <2>4, <2>5, <2>6, <2>7 DEF FileTypes
<1>4. ASSUME NEW a \in Attempts, WriteTmp(a) PROVE FileTypes'
    <2>1. fd[a] \in Attempts
        BY <1>4 DEF WriteTmp, SizesInv, Writers, FileTypes, Attempts
    <2>2. torn' \subseteq Attempts
        BY <1>4, <2>1 DEF WriteTmp, FileTypes
    <2>3. size' \in [Attempts -> Nat]
        BY <1>4 DEF WriteTmp, FileTypes
    <2> QED BY <1>4, <2>2, <2>3 DEF WriteTmp, FileTypes
<1>5. ASSUME NEW a \in Attempts, Rename(a) PROVE FileTypes'
    <2>1. fd' \in [Attempts -> 0..MaxAttempts] /\ payload' \in [Attempts -> Nat]
        <3>1. fd' = [fd EXCEPT ![a] = 0] /\ payload' = [payload EXCEPT ![a] = 0]
            BY <1>5 DEF Rename
        <3> QED BY <3>1 DEF FileTypes
    <2>2. file' = tmp /\ tmp' = 0 /\ UNCHANGED <<size, torn, overlapped, hasty>>
        BY <1>5 DEF Rename
    <2> QED BY <2>1, <2>2 DEF FileTypes
<1>6. CASE Die
    BY <1>6 DEF Die, FileTypes
<1> QED BY <1>1, <1>2, <1>3, <1>4, <1>5, <1>6
        DEF Next, Page, Daemon, vars, StartPairing, MayPair, Request, Submit,
            Timeout, OnAck, Mint, Expire, Receive,
            RefuseRequest, ConsumeCode, Verified, Enroll, Crash, RenameFails, Restart

-----------------------------------------------------------------------------
(* The sequences.                                                          *)

LEMMA NewAttempt ==
    ASSUME PageTypes, NEW b \in Browsers, NEW code \in Codes, StartPairing(b, code)
    PROVE  /\ Len(attempts) \in Nat /\ DOMAIN attempts = 1..Len(attempts)
           /\ Len(attempts') = Len(attempts) + 1 /\ Len(attempts') \in DOMAIN attempts'
           /\ \A a \in DOMAIN attempts : a \in DOMAIN attempts' /\ attempts'[a] = attempts[a]
           /\ attempts'[Len(attempts')].browser = b
<1> DEFINE new == [browser |-> b, code |-> code]
<1>1. attempts \in Seq(Requests) /\ new \in Requests /\ new.browser = b
    BY DEF PageTypes, Requests
<1>2. attempts' = Append(attempts, new)
    BY DEF StartPairing, MayPair, Request, Submit
<1> HIDE DEF new
<1>3. /\ attempts' \in Seq(Requests) /\ Len(attempts) \in Nat /\ Len(attempts') = Len(attempts) + 1
      /\ \A a \in DOMAIN attempts : attempts'[a] = attempts[a]
      /\ attempts'[Len(attempts) + 1] = new
    BY <1>1, <1>2
<1>4. DOMAIN attempts = 1..Len(attempts) /\ DOMAIN attempts' = 1..Len(attempts')
    BY <1>1, <1>3
<1>5. Len(attempts') \in DOMAIN attempts' /\ \A a \in DOMAIN attempts : a \in DOMAIN attempts'
    BY <1>3, <1>4
<1> QED BY <1>1, <1>3, <1>4, <1>5

LEMMA InodeType ==
    ASSUME FileTypes
    PROVE  (file # 0 => file \in Attempts) /\ (tmp # 0 => tmp \in Attempts)
<1>1. file \in 0..MaxAttempts /\ tmp \in 0..MaxAttempts
    BY DEF FileTypes
<1> QED BY <1>1 DEF Attempts

LEMMA StoredType == ASSUME TypeOK, SizesInv PROVE Stored \in 0..Len(records)
BY DEF TypeOK, FileTypes, SizesInv, Stored, Attempts

LEMMA EnrollRecords ==
    ASSUME PageTypes, HandlerTypes, records \in Seq(Records), NEW a \in Attempts, Enroll(a)
    PROVE  /\ records' \in Seq(Records)
           /\ Len(records) \in Nat /\ DOMAIN records = 1..Len(records)
           /\ Len(records') = Len(records) + 1
           /\ \A i \in DOMAIN records : i \in DOMAIN records' /\ records'[i] = records[i]
           /\ \A i \in DOMAIN records' : i \in DOMAIN records \/ i = Len(records')
           /\ Len(records') \in DOMAIN records'
           /\ records'[Len(records')].keyId = a
           /\ records'[Len(records')].browser = BrowserOf(a)
           /\ records'[Len(records')].channel = Channel(a, KeyFor(a))
<1> DEFINE new == [keyId |-> a, browser |-> BrowserOf(a), channel |-> Channel(a, KeyFor(a))]
<1>1. BrowserOf(a) \in Browsers /\ Channel(a, KeyFor(a)) \in Channels
    BY AttemptType, ChannelType, KeyForType DEF Enroll, HandlerTypes
<1>2. new \in Records
    BY <1>1 DEF Records
<1>3. records' = Append(records, new)
    BY DEF Enroll
<1> HIDE DEF new
<1>4. /\ records' \in Seq(Records)
      /\ Len(records') = Len(records) + 1
      /\ \A i \in DOMAIN records : records'[i] = records[i]
      /\ records'[Len(records) + 1] = new
    BY <1>2, <1>3
<1>5. Len(records) \in Nat /\ DOMAIN records = 1..Len(records) /\ DOMAIN records' = 1..Len(records')
    BY <1>4
<1>6. /\ \A i \in DOMAIN records : i \in DOMAIN records'
      /\ \A i \in DOMAIN records' : i \in DOMAIN records \/ i = Len(records')
      /\ Len(records') \in DOMAIN records'
    BY <1>4, <1>5
<1>7. new.keyId = a /\ new.browser = BrowserOf(a) /\ new.channel = Channel(a, KeyFor(a))
    BY DEF new
<1> QED BY <1>4, <1>5, <1>6, <1>7

LEMMA RestartRecords ==
    ASSUME TypeOK, SizesInv, Restart
    PROVE  /\ records' \in Seq(Records)
           /\ Len(records') = Stored /\ DOMAIN records' = 1..Stored
           /\ \A i \in DOMAIN records' : i \in DOMAIN records /\ records'[i] = records[i]
<1>1. records \in Seq(Records) /\ Stored \in 0..Len(records) /\ Len(records) \in Nat
    BY StoredType DEF TypeOK
<1>2. \A i \in 1..Stored : i \in DOMAIN records /\ records[i] \in Records
    BY <1>1
<1>3. records' = SubSeq(records, 1, Stored)
    BY DEF Restart
<1>4. /\ records' \in Seq(Records)
      /\ Len(records') = IF 1 <= Stored THEN Stored - 1 + 1 ELSE 0
      /\ \A i \in 1..(Stored - 1 + 1) : records'[i] = records[1 + i - 1]
    BY <1>1, <1>2, <1>3, SubSeqProperties
<1> QED BY <1>1, <1>2, <1>4

LEMMA TypeStep == PairingInv /\ [Next]_vars => TypeOK'
<1> SUFFICES ASSUME PairingInv, [Next]_vars PROVE TypeOK'
    OBVIOUS
<1>1. ASSUME NEW a \in Attempts, Enroll(a) PROVE records' \in Seq(Records)
    BY <1>1, EnrollRecords DEF PairingInv, TypeOK
<1>2. ASSUME Restart PROVE records' \in Seq(Records)
    BY <1>2, RestartRecords DEF PairingInv
<1>3. records' \in Seq(Records)
    BY <1>1, <1>2 DEF PairingInv, TypeOK, Next, Page, Daemon, vars, StartPairing, MayPair, Request, Submit,
                      Timeout, OnAck,
       Mint, Expire, Receive, RefuseRequest, ConsumeCode, Verified, EnrollAgain, OpenTmp, WriteTmp, Rename,
       Crash, RenameFails, Die
<1> QED BY <1>3, PageStep, HandlerStep, FileStep DEF TypeOK

-----------------------------------------------------------------------------
(* The invariant.                                                          *)

LEMMA CodesStep == PairingInv /\ [Next]_vars => CodesInv'
<1> SUFFICES ASSUME PageTypes, HandlerTypes, CodesInv, [Next]_vars PROVE CodesInv'
    BY DEF PairingInv, TypeOK
<1>1. CASE UNCHANGED <<attempts, codeVars, stage>>
    BY <1>1 DEF CodesInv, codeVars, CodeOf, BrowserOf
<1>2. ASSUME NEW b \in Browsers, NEW code \in Codes, StartPairing(b, code) PROVE CodesInv'
    <2>1. ASSUME NEW a \in Attempts, stage'[a] = "deriving"
          PROVE  consumedBy'[CodeOf(a)'] = BrowserOf(a)'
        <3>1. a \in DOMAIN attempts /\ stage[a] = "deriving"
            BY <1>2, <2>1, AttemptType DEF StartPairing, MayPair, Request, Submit, HandlerTypes
        <3> QED BY <1>2, <3>1, NewAttempt DEF StartPairing, MayPair, Request, Submit,
                                              CodesInv, CodeOf, BrowserOf, codeVars
    <2> QED BY <1>2, <2>1 DEF CodesInv, StartPairing, MayPair, Request, Submit, codeVars
<1>3. ASSUME NEW k \in Codes, Mint(k) \/ Expire(k) PROVE CodesInv'
    BY <1>3 DEF Mint, Expire, Pruned, CodesInv, HandlerTypes, CodeOf, BrowserOf, pageVars
<1>4. ASSUME NEW a \in Attempts, Receive(a) PROVE CodesInv'
    BY <1>4 DEF Receive, Pruned, CodesInv, HandlerTypes, CodeOf, BrowserOf, pageVars
<1>5. ASSUME NEW a \in Attempts, ConsumeCode(a) PROVE CodesInv'
    <2>1. CodeOf(a) \in Codes /\ minted[CodeOf(a)] # "unminted"
          /\ consumedBy[CodeOf(a)] \in {Nobody, BrowserOf(a)}
        BY <1>5, AttemptType DEF ConsumeCode, Verified, MayConsume, HandlerTypes
    <2>2. ASSUME NEW c \in Attempts, stage[c] = "deriving", c # a
          PROVE  CodeOf(c) = CodeOf(a) => BrowserOf(c) = BrowserOf(a)
        <3>1. BrowserOf(c) \in Browsers
            BY <2>2, AttemptType DEF HandlerTypes
        <3> QED BY <2>1, <2>2, <3>1 DEF CodesInv
    <2> QED BY <1>5, <2>1, <2>2 DEF ConsumeCode, Verified, CodesInv, HandlerTypes, CodeOf, BrowserOf, pageVars
<1>6. ASSUME NEW a \in Attempts, NEW ok, NEW keyId, NEW x, Reply(a, ok, keyId, x),
             UNCHANGED <<attempts, codeVars>>
      PROVE  CodesInv'
    BY <1>6 DEF Reply, CodesInv, HandlerTypes, CodeOf, BrowserOf, codeVars
<1>7. ASSUME NEW a \in Attempts, RefuseRequest(a) \/ EnrollAgain(a) \/ Rename(a) PROVE CodesInv'
    <2>1. UNCHANGED <<attempts, codeVars>>
        BY <1>7 DEF RefuseRequest, EnrollAgain, Rename, pageVars
    <2>2. \E ok, keyId, x : Reply(a, ok, keyId, x)
        BY <1>7, Zenon DEF RefuseRequest, EnrollAgain, Rename
    <2> QED BY <1>6, <2>1, <2>2
<1>8. ASSUME NEW a \in Attempts, Enroll(a) \/ OpenTmp(a) \/ WriteTmp(a) PROVE CodesInv'
    BY <1>8 DEF Enroll, OpenTmp, WriteTmp, CodesInv, HandlerTypes, CodeOf, BrowserOf, pageVars, codeVars
<1>9. CASE Die
    BY <1>9 DEF Die, CodesInv, HandlerTypes, CodeOf, BrowserOf
<1> QED BY <1>1, <1>2, <1>3, <1>4, <1>5, <1>7, <1>8, <1>9
        DEF Next, Page, Daemon, vars, pageVars, Timeout, OnAck, Crash, RenameFails, Restart

LEMMA FreshStep == PairingInv /\ [Next]_vars => FreshInv'
<1> SUFFICES ASSUME PageTypes, HandlerTypes, FileTypes, records \in Seq(Records), TypeOK,
                    FreshInv, SizesInv, [Next]_vars
             PROVE  FreshInv'
    BY DEF PairingInv, TypeOK
<1>1. CASE UNCHANGED <<attempts, toDaemon, stage, records, file, tmp>>
    BY <1>1 DEF FreshInv, Ahead
<1>2. ASSUME NEW b \in Browsers, NEW code \in Codes, StartPairing(b, code) PROVE FreshInv'
    <2>1. ASSUME NEW a \in Attempts, Ahead(a)' PROVE Ahead(a)
        BY <1>2, <2>1, NewAttempt DEF StartPairing, MayPair, Request, Submit, Ahead, PageTypes, Attempts
    <2>2. ASSUME NEW a \in toDaemon' PROVE stage[a] = "none"
        <3>1. a \in toDaemon \/ a = Len(attempts) + 1
            BY <1>2, NewAttempt DEF StartPairing, MayPair, Request, Submit
        <3>2. a \in Attempts /\ Len(attempts) \in Nat
            BY <1>2, <3>1, NewAttempt DEF StartPairing, MayPair, Request, Submit, PageTypes, Attempts
        <3> QED BY <3>1, <3>2 DEF FreshInv, HandlerTypes, Attempts
    <2> QED BY <1>2, <2>1, <2>2 DEF StartPairing, MayPair, Request, Submit, FreshInv, fileVars
<1>3. ASSUME NEW a \in Attempts, Receive(a) PROVE FreshInv'
    BY <1>3 DEF Receive, FreshInv, Ahead, HandlerTypes, PageTypes, pageVars, fileVars, Attempts
<1>4. ASSUME NEW a \in Attempts, ConsumeCode(a) PROVE FreshInv'
    BY <1>4 DEF ConsumeCode, FreshInv, Ahead, HandlerTypes, PageTypes, pageVars, fileVars
<1>5. ASSUME NEW a \in Attempts, NEW ok, NEW keyId, NEW x, stage[a] # "none", Reply(a, ok, keyId, x),
             UNCHANGED <<attempts, toDaemon, records>>,
             file' \in {file, tmp} /\ tmp' \in {0, tmp}
      PROVE  FreshInv'
    <2>1. ASSUME NEW c \in Attempts PROVE stage'[c] \in {stage[c], "none"} /\ c # 0
        BY <1>5 DEF Reply, HandlerTypes, Attempts
    <2>2. \A c \in Attempts : Ahead(c)' => Ahead(c)
        BY <1>5, <2>1 DEF Ahead
    <2>3. \A c \in Attempts : stage'[c] = "mkdir" => stage[c] = "mkdir"
        BY <2>1
    <2>4. \A c \in toDaemon' : c \in Attempts
        BY <1>5 DEF PageTypes, Attempts
    <2> QED BY <1>5, <2>1, <2>2, <2>3, <2>4 DEF FreshInv
<1>6. ASSUME NEW a \in Attempts, RefuseRequest(a) \/ EnrollAgain(a) \/ Rename(a) PROVE FreshInv'
    <2>1. stage[a] # "none" /\ UNCHANGED <<attempts, toDaemon, records>>
        BY <1>6 DEF RefuseRequest, EnrollAgain, Rename, pageVars
    <2>2. file' \in {file, tmp} /\ tmp' \in {0, tmp}
        BY <1>6 DEF RefuseRequest, EnrollAgain, Rename, fileVars
    <2>3. \E ok, keyId, x : Reply(a, ok, keyId, x)
        BY <1>6, Zenon DEF RefuseRequest, EnrollAgain, Rename
    <2> QED BY <1>5, <2>1, <2>2, <2>3
<1>7. ASSUME NEW a \in Attempts, Enroll(a) PROVE FreshInv'
    <2>1. ASSUME NEW c \in Attempts, Ahead(c)' PROVE Ahead(c) /\ c # a
        <3>1. a \notin toDaemon /\ a <= Len(attempts)
            BY <1>7 DEF Enroll, FreshInv, HandlerTypes
        <3> QED BY <1>7, <2>1, <3>1 DEF Enroll, Ahead, HandlerTypes, pageVars, PageTypes, Attempts
    <2>2. ASSUME NEW c \in Attempts, Ahead(c)', NEW i \in DOMAIN records' PROVE records'[i].keyId # c
        <3>1. \/ i \in DOMAIN records /\ records'[i] = records[i]
              \/ records'[i].keyId = a
            BY <1>7, <2>2, EnrollRecords
        <3> QED BY <2>1, <2>2, <3>1 DEF FreshInv
    <2>3. ASSUME NEW c \in Attempts, Ahead(c)' \/ stage'[c] = "mkdir" PROVE c # file /\ c # tmp
        <3>1. CASE c = a
            BY <1>7, <3>1 DEF Enroll, Ahead, FreshInv
        <3>2. CASE c # a
            BY <1>7, <2>1, <2>3, <3>2 DEF Enroll, FreshInv, HandlerTypes
        <3> QED BY <3>1, <3>2
    <2>4. \A c \in toDaemon' : stage'[c] = "none"
        BY <1>7 DEF Enroll, FreshInv, HandlerTypes, PageTypes, Attempts
    <2> QED BY <1>7, <2>2, <2>3, <2>4 DEF Enroll, FreshInv, fileVars
<1>8. ASSUME NEW a \in Attempts, OpenTmp(a) PROVE FreshInv'
    <2>1. a \notin toDaemon /\ a <= Len(attempts) /\ tmp' \in {a, tmp}
        BY <1>8 DEF OpenTmp, FreshInv, HandlerTypes
    <2>2. ASSUME NEW c \in Attempts PROVE stage'[c] = IF c = a THEN "writing" ELSE stage[c]
        BY <1>8 DEF OpenTmp, HandlerTypes
    <2>3. ASSUME NEW c \in Attempts, Ahead(c)' \/ stage'[c] = "mkdir"
          PROVE  c # a /\ (Ahead(c)' => Ahead(c)) /\ (stage'[c] = "mkdir" => stage[c] = "mkdir")
        BY <1>8, <2>1, <2>2, <2>3 DEF OpenTmp, Ahead, pageVars, PageTypes, Attempts
    <2>4. \A c \in toDaemon' : c \in Attempts /\ c # a
        BY <1>8, <2>1 DEF OpenTmp, PageTypes, Attempts
    <2> QED BY <1>8, <2>1, <2>2, <2>3, <2>4 DEF OpenTmp, FreshInv
<1>9. ASSUME NEW a \in Attempts, WriteTmp(a) PROVE FreshInv'
    BY <1>9 DEF WriteTmp, FreshInv, Ahead, HandlerTypes, PageTypes, pageVars, Attempts
<1>10. CASE Die
    BY <1>10 DEF Die, FreshInv, Ahead, HandlerTypes, PageTypes, pageVars, Attempts
<1>11. CASE Restart
    <2>1. \A i \in DOMAIN records' : i \in DOMAIN records /\ records'[i] = records[i]
        BY <1>11, RestartRecords
    <2> QED BY <1>11, <2>1 DEF Restart, FreshInv, Ahead, pageVars, fileVars
<1> QED BY <1>1, <1>2, <1>3, <1>4, <1>6, <1>7, <1>8, <1>9, <1>10, <1>11
        DEF Next, Page, Daemon, vars, pageVars, fileVars, Timeout, OnAck, Mint, Expire, Crash, RenameFails

LEMMA RecordsStep == PairingInv /\ [Next]_vars => RecordsInv'
<1> SUFFICES ASSUME PageTypes, HandlerTypes, records \in Seq(Records), TypeOK, FreshInv,
                    RecordsInv, SizesInv, [Next]_vars
             PROVE  RecordsInv'
    BY DEF PairingInv, TypeOK
<1>1. CASE UNCHANGED <<attempts, records>>
    BY <1>1 DEF RecordsInv, BrowserOf
<1>2. ASSUME NEW b \in Browsers, NEW code \in Codes, StartPairing(b, code) PROVE RecordsInv'
    BY <1>2, NewAttempt DEF StartPairing, MayPair, Request, Submit, RecordsInv, BrowserOf
<1>3. ASSUME NEW a \in Attempts, Enroll(a) PROVE RecordsInv'
    <2> DEFINE new == Len(records')
    <2>1. /\ \A i \in DOMAIN records' : (i \in DOMAIN records /\ records'[i] = records[i]) \/ i = new
          /\ records'[new].keyId = a /\ records'[new].browser = BrowserOf(a)
          /\ records'[new].channel = Channel(a, KeyFor(a))
        BY <1>3, EnrollRecords
    <2>2. \A i \in DOMAIN records : records[i].browser # BrowserOf(a)
        BY <1>3 DEF Enroll, Existing
    <2>3. a \in DOMAIN attempts /\ attempts' = attempts
        BY <1>3, AttemptType DEF Enroll, HandlerTypes, pageVars
    <2> HIDE DEF new
    <2> QED BY <2>1, <2>2, <2>3 DEF RecordsInv, BrowserOf
<1>4. CASE Restart
    <2>1. \A i \in DOMAIN records' : i \in DOMAIN records /\ records'[i] = records[i]
        BY <1>4, RestartRecords
    <2>2. UNCHANGED attempts
        BY <1>4 DEF Restart, pageVars
    <2> QED BY <2>1, <2>2 DEF RecordsInv, BrowserOf
<1> QED BY <1>1, <1>2, <1>3, <1>4
        DEF Next, Page, Daemon, vars, pageVars, Timeout, OnAck, Mint, Expire, Receive, RefuseRequest,
            ConsumeCode, Verified, EnrollAgain, OpenTmp, WriteTmp, Rename, Crash, RenameFails, Die

\* PairsInv holds with more attempts made, more of them answered for, and a page's result stored.
LEMMA PairsStep == PairingInv /\ [Next]_vars => PairsInv'
<1> SUFFICES ASSUME PageTypes, HandlerTypes, records \in Seq(Records), RecordsInv, PairsInv,
                    [Next]_vars
             PROVE  PairsInv'
    BY DEF PairingInv, TypeOK
<1>1. CASE UNCHANGED <<attempts, waiting, paired, acks>>
    BY <1>1 DEF PairsInv, Of, BrowserOf
<1>2. ASSUME NEW b \in Browsers, NEW code \in Codes, StartPairing(b, code) PROVE PairsInv'
    <2>1. \A c \in Browsers : Of(c) \subseteq Of(c)'
        BY <1>2, NewAttempt DEF Of, BrowserOf
    <2>2. waiting'[b] \in Of(b)' /\ \A c \in Browsers : c # b => waiting'[c] = waiting[c]
        <3>1. attempts'[Len(attempts')].browser = b /\ Len(attempts') \in DOMAIN attempts'
            BY <1>2, NewAttempt
        <3>2. waiting' = [waiting EXCEPT ![b] = Len(attempts')] /\ DOMAIN waiting = Browsers
            BY <1>2 DEF StartPairing, MayPair, Request, Submit, PageTypes
        <3>3. waiting'[b] = Len(attempts') /\ \A c \in Browsers : c # b => waiting'[c] = waiting[c]
            BY <3>2
        <3> QED BY <3>1, <3>3 DEF Of, BrowserOf
    <2>3. UNCHANGED <<paired, acks>>
        BY <1>2 DEF StartPairing, MayPair, Request, Submit
    <2>4. \A ack \in acks : ack.to \in Browsers
        BY DEF PageTypes, Acks
    <2>5. ASSUME NEW ack \in acks', ack.ok
          PROVE  ack.keyId \in Of(ack.to)' /\ \E h \in Of(ack.to)' : ack.x25519 = KeyFor(h)
        BY <2>1, <2>3, <2>4, <2>5 DEF PairsInv
    <2>6. ASSUME NEW c \in Browsers, paired'[c].keyId # 0
          PROVE  /\ paired'[c].keyId \in Of(c)'
                 /\ \E w, h \in Of(c)' : paired'[c].channel = Channel(w, KeyFor(h))
        BY <2>1, <2>3, <2>6 DEF PairsInv
    <2>7. ASSUME NEW c \in Browsers, waiting'[c] # 0 PROVE waiting'[c] \in Of(c)'
        BY <2>1, <2>2, <2>7 DEF PairsInv
    <2> QED BY <2>5, <2>6, <2>7 DEF PairsInv
<1>3. ASSUME NEW b \in Browsers, Timeout(b) PROVE PairsInv'
    BY <1>3 DEF Timeout, PageTypes, PairsInv, Of, BrowserOf
<1>4. ASSUME NEW b \in Browsers, NEW ack \in acks, OnAck(b, ack) PROVE PairsInv'
    <2>1. waiting[b] \in Of(b) /\ ack.to = b
        BY <1>4 DEF OnAck, ForThisBrowser, PairsInv
    <2>2. CASE ack.ok
        <3>1. PICK h \in Of(b) : ack.x25519 = KeyFor(h)
            BY <2>1, <2>2 DEF PairsInv
        <3>2. ack.keyId \in Of(b)
            BY <2>1, <2>2 DEF PairsInv
        <3>3. paired' = [paired EXCEPT ![b] = [keyId |-> ack.keyId,
                                               channel |-> Channel(waiting[b], KeyFor(h))]]
            BY <1>4, <2>2, <3>1 DEF OnAck
        <3>4. waiting' = [waiting EXCEPT ![b] = 0] /\ attempts' = attempts /\ acks' \subseteq acks
            BY <1>4 DEF OnAck
        <3> QED BY <2>1, <3>2, <3>3, <3>4 DEF PairsInv, PageTypes, Of, BrowserOf
    <2>3. CASE ~ack.ok
        <3>1. paired' = paired
            BY <1>4, <2>3 DEF OnAck, PageTypes
        <3>2. waiting' = [waiting EXCEPT ![b] = 0] /\ attempts' = attempts /\ acks' \subseteq acks
            BY <1>4 DEF OnAck
        <3> QED BY <3>1, <3>2 DEF PairsInv, PageTypes, Of, BrowserOf
    <2> QED BY <2>2, <2>3
<1>5. ASSUME NEW a \in Attempts, NEW ok, NEW keyId, NEW x, Reply(a, ok, keyId, x), UNCHANGED pageVars,
             ok => keyId \in Of(BrowserOf(a)) /\ x = KeyFor(a) /\ a \in DOMAIN attempts
      PROVE  PairsInv'
    <2> DEFINE new == [to |-> BrowserOf(a), ok |-> ok, keyId |-> keyId, x25519 |-> x]
    <2>1. acks' = acks \cup {new} /\ UNCHANGED <<attempts, waiting, paired>>
        BY <1>5 DEF Reply, pageVars
    <2>2. new.ok => new.keyId \in Of(new.to) /\ \E h \in Of(new.to) : new.x25519 = KeyFor(h)
        BY <1>5 DEF Of
    <2> HIDE DEF new
    <2> QED BY <2>1, <2>2 DEF PairsInv, Of, BrowserOf
<1>6. ASSUME NEW a \in Attempts, RefuseRequest(a) PROVE PairsInv'
    <2>1. Reply(a, FALSE, 0, 0) /\ UNCHANGED pageVars
        BY <1>6 DEF RefuseRequest
    <2> QED BY <1>5, <2>1
<1>7. ASSUME NEW a \in Attempts, EnrollAgain(a) PROVE PairsInv'
    <2>1. PICK i \in Existing(BrowserOf(a)) : Reply(a, TRUE, records[i].keyId, KeyFor(a))
        BY <1>7 DEF EnrollAgain
    <2>2. records[i].keyId \in Of(BrowserOf(a))
        BY DEF Existing, RecordsInv, Of
    <2>3. a \in DOMAIN attempts /\ UNCHANGED pageVars
        BY <1>7, AttemptType DEF EnrollAgain, HandlerTypes
    <2> QED BY <1>5, <2>1, <2>2, <2>3
<1>8. ASSUME NEW a \in Attempts, Rename(a) PROVE PairsInv'
    <2>1. a \in DOMAIN attempts /\ UNCHANGED pageVars /\ Reply(a, TRUE, a, KeyFor(a))
        BY <1>8, AttemptType DEF Rename, HandlerTypes
    <2>2. a \in Of(BrowserOf(a))
        BY <2>1 DEF Of
    <2> QED BY <1>5, <2>1, <2>2
<1> QED BY <1>1, <1>2, <1>3, <1>4, <1>6, <1>7, <1>8
        DEF Next, Page, Daemon, vars, pageVars, Mint, Expire, Receive, ConsumeCode, Verified, Enroll, OpenTmp,
            WriteTmp, Crash, RenameFails, Die, Restart

LEMMA SizesStep == PairingInv /\ [Next]_vars => SizesInv'
<1> SUFFICES ASSUME TypeOK, HandlerTypes, FileTypes, records \in Seq(Records), SizesInv, [Next]_vars
             PROVE  SizesInv'
    BY DEF PairingInv, TypeOK
<1>0. Len(records) \in Nat
    OBVIOUS
<1>1. CASE UNCHANGED <<stage, records, fileVars>>
    BY <1>1 DEF SizesInv, Writers, fileVars
<1>2. ASSUME UNCHANGED <<records, fileVars>>, \A a \in Attempts : stage'[a] \in {"writing", "renaming"} =>
                stage[a] \in {"writing", "renaming"}
      PROVE  SizesInv'
    BY <1>2 DEF SizesInv, Writers, fileVars
<1>3. ASSUME NEW a \in Attempts, Receive(a) \/ ConsumeCode(a) PROVE SizesInv'
    BY <1>2, <1>3 DEF Receive, ConsumeCode, Verified, HandlerTypes
<1>4. ASSUME NEW a \in Attempts, RefuseRequest(a) \/ EnrollAgain(a) PROVE SizesInv'
    <2>1. UNCHANGED <<records, fileVars>> /\ stage' = [stage EXCEPT ![a] = "none"]
        BY <1>4, Zenon DEF RefuseRequest, EnrollAgain, Reply
    <2> QED BY <1>2, <2>1 DEF HandlerTypes
<1>5. ASSUME NEW a \in Attempts, Enroll(a) PROVE SizesInv'
    <2>1. Len(records') = Len(records) + 1
        BY <1>5, EnrollRecords DEF TypeOK
    <2>2. Writers' = Writers /\ UNCHANGED fileVars
        BY <1>5 DEF Enroll, Writers, HandlerTypes
    <2>3. \A n \in Nat : n <= Len(records) => n <= Len(records')
        BY <1>0, <2>1
    <2>4. /\ file # 0 => size[file] \in Nat
          /\ tmp # 0 => size[tmp] \in Nat
          /\ \A c \in Writers : payload[c] \in Nat
        BY DEF FileTypes, Writers, Attempts
    <2>5. UNCHANGED <<file, tmp, fd, payload, size>>
        BY <2>2 DEF fileVars
    <2> QED BY <2>2, <2>3, <2>4, <2>5 DEF SizesInv
<1>6. ASSUME NEW a \in Attempts, OpenTmp(a) PROVE SizesInv'
    <2> DEFINE i == IF tmp = 0 THEN a ELSE tmp
    <2>1. /\ i \in Attempts /\ i # 0 /\ tmp' = i /\ file' = file
          /\ fd' = [fd EXCEPT ![a] = i] /\ size' = [size EXCEPT ![i] = 0]
          /\ payload' = [payload EXCEPT ![a] = Len(records)] /\ records' = records
        BY <1>6 DEF OpenTmp, FileTypes, Attempts
    <2>2. Writers' = Writers \cup {a}
        BY <1>6 DEF OpenTmp, Writers, HandlerTypes
    <2> HIDE DEF i
    <2>3. file' # 0 => size'[file'] <= Len(records')
        BY <1>0, <2>1 DEF SizesInv, FileTypes, Attempts
    <2>4. size'[tmp'] <= Len(records')
        BY <1>0, <2>1 DEF FileTypes
    <2>5. \A c \in Writers' : fd'[c] # 0 /\ payload'[c] <= Len(records')
        BY <1>0, <2>1, <2>2 DEF SizesInv, Writers, FileTypes
    <2> QED BY <2>3, <2>4, <2>5 DEF SizesInv
<1>7. ASSUME NEW a \in Attempts, WriteTmp(a) PROVE SizesInv'
    <2>1. Writers' = Writers /\ a \in Writers
        BY <1>7 DEF WriteTmp, Writers, HandlerTypes
    <2>2. UNCHANGED <<file, tmp, fd, payload, records>>
        BY <1>7 DEF WriteTmp
    <2>3. size' = size \/ size' = [size EXCEPT ![fd[a]] = payload[a]]
        BY <1>7 DEF WriteTmp
    <2>4. payload[a] <= Len(records)
        BY <2>1 DEF SizesInv
    <2>5. \A i \in Attempts : size'[i] \in {size[i], payload[a]}
        <3>1. DOMAIN size = Attempts
            BY DEF FileTypes
        <3> QED BY <2>3, <3>1
    <2>6. \A i \in Attempts : size[i] <= Len(records) => size'[i] <= Len(records)
        BY <2>4, <2>5
    <2> QED BY <2>1, <2>2, <2>6, InodeType DEF SizesInv
<1>8. ASSUME NEW a \in Attempts, Rename(a) PROVE SizesInv'
    <2>1. Writers' = Writers \ {a} /\ a \in Writers
        BY <1>8 DEF Rename, Reply, Writers, HandlerTypes
    <2>2. /\ UNCHANGED <<size, records>> /\ file' = tmp /\ tmp' = 0 /\ tmp # 0
          /\ fd' = [fd EXCEPT ![a] = 0] /\ payload' = [payload EXCEPT ![a] = 0]
        BY <1>8 DEF Rename
    <2> QED BY <2>1, <2>2 DEF SizesInv, FileTypes, Writers
<1>9. CASE Die
    BY <1>9 DEF Die, SizesInv, Writers
<1>10. CASE Restart
    <2>1. Len(records') = Stored
        BY <1>10, RestartRecords
    <2>2. UNCHANGED <<stage, fileVars>> /\ Writers = {}
        BY <1>10 DEF Restart, Writers, HandlerTypes
    <2>3. file # 0 => Stored = size[file] /\ size[file] \in Nat
        BY <1>10 DEF Restart, Stored, FileTypes, Attempts
    <2>4. Writers' = {} /\ UNCHANGED <<file, size>>
        BY <2>2 DEF Writers, fileVars
    <2> QED BY <2>1, <2>3, <2>4 DEF SizesInv
<1> QED BY <1>1, <1>3, <1>4, <1>5, <1>6, <1>7, <1>8, <1>9, <1>10
        DEF Next, Page, Daemon, vars, StartPairing, MayPair, Request, Submit,
            Timeout, OnAck, Mint, Expire, Crash, RenameFails

-----------------------------------------------------------------------------
(* Acknowledged keys are in the file.                                      *)

Known(id) == InFile(id) \/ id \in hasty

\* what AckedIsDurable says while no two persist() calls have overlapped
Kept ==
    /\ \A ack \in acks : ack.ok => Known(ack.keyId)
    /\ \A b \in Browsers : paired[b].keyId # 0 => Known(paired[b].keyId)

LEMMA KeptMeans == AckedIsDurable <=> overlapped \/ Kept
BY DEF AckedIsDurable, Kept, Known

\* What is known stays known while the file grows.
LEMMA KnownStays ==
    ASSUME Stored \in Nat, Stored' \in Nat, Stored <= Stored', hasty \subseteq hasty',
           \A i \in 1..Stored : records'[i] = records[i]
    PROVE  \A id : Known(id) => Known(id)'
<1> SUFFICES ASSUME NEW id, Known(id) PROVE Known(id)'
    OBVIOUS
<1>1. CASE InFile(id)
    <2>1. PICK i \in 1..Stored : records[i].keyId = id
        BY <1>1 DEF InFile
    <2>2. i \in 1..Stored' /\ records'[i].keyId = id
        BY <2>1
    <2> QED BY <2>2 DEF Known, InFile
<1>2. CASE id \in hasty
    BY <1>2 DEF Known
<1> QED BY <1>1, <1>2 DEF Known

LEMMA SameKept ==
    ASSUME Stored \in Nat, Kept, UNCHANGED <<acks, paired, hasty, Stored>>,
           \A i \in 1..Stored : records'[i] = records[i]
    PROVE  Kept'
<1>1. \A id : Known(id) => Known(id)'
    BY KnownStays
<1> QED BY <1>1 DEF Kept

LEMMA OneAnswer ==
    ASSUME NEW a, NEW ok \in BOOLEAN, NEW keyId, NEW x, Reply(a, ok, keyId, x)
    PROVE  \E new : acks' = acks \cup {new} /\ new.ok = ok /\ new.keyId = keyId
<1> DEFINE new == [to |-> BrowserOf(a), ok |-> ok, keyId |-> keyId, x25519 |-> x]
<1>1. acks' = acks \cup {new}
    BY DEF Reply
<1>2. new.ok = ok /\ new.keyId = keyId
    OBVIOUS
<1> HIDE DEF new
<1> QED BY <1>1, <1>2

\* One more answer, which is a refusal or about a key that is known.
LEMMA ReplyKept ==
    ASSUME Stored \in Nat, Stored' \in Nat, Stored <= Stored', Kept, hasty \subseteq hasty',
           UNCHANGED <<paired, records>>, NEW new, acks' = acks \cup {new},
           new.ok => Known(new.keyId)'
    PROVE  Kept'
<1>1. \A id : Known(id) => Known(id)'
    BY KnownStays
<1>2. \A ack \in acks' : ack.ok => Known(ack.keyId)'
    BY <1>1 DEF Kept
<1>3. \A b \in Browsers : paired'[b].keyId # 0 => Known(paired[b].keyId)'
    BY <1>1 DEF Kept
<1> QED BY <1>2, <1>3 DEF Kept

LEMMA DurableStep ==
    ASSUME PairingInv, TypeOK', SizesInv', [Next]_vars, ~overlapped'
    PROVE  WriterInv' /\ Kept'
<1> USE DEF PairingInv, TypeOK
<1>1. ~overlapped
    BY DEF Next, Page, Daemon, vars, fileVars, StartPairing, MayPair, Request, Submit,
           Timeout, OnAck, Mint, Expire, Receive,
       RefuseRequest, ConsumeCode, Verified, EnrollAgain, Enroll, OpenTmp, WriteTmp, Rename, Crash,
       RenameFails, Die, Restart
<1>2. WriterInv /\ Kept
    BY <1>1, KeptMeans DEF DurableInv
<1>3. Stored \in Nat /\ Stored' \in Nat /\ Len(records) \in Nat /\ Stored <= Len(records)
    <2>1. Stored \in 0..Len(records) /\ Len(records) \in Nat
        BY StoredType
    <2>2. Stored' \in Nat
        BY DEF FileTypes, Stored, Attempts
    <2> QED BY <2>1, <2>2
<1> USE <1>1, <1>2, <1>3
<1>4. \A a \in Attempts : a \in Writers <=> stage[a] \in {"writing", "renaming"}
    BY DEF Writers
<1>5. \A a \in Attempts : a \in Writers' <=> stage'[a] \in {"writing", "renaming"}
    BY DEF Writers
<1>6. ASSUME UNCHANGED <<records, file, tmp, fd, payload, size, torn>>,
             \A a \in Attempts : stage'[a] \in {"writing", "renaming", "mkdir"} => stage'[a] = stage[a]
      PROVE  WriterInv' /\ Stored' = Stored
    BY <1>4, <1>5, <1>6 DEF WriterInv, Stored, Writers
<1>7. CASE UNCHANGED <<acks, paired, stage, records, fileVars, hasty>>
    <2>1. WriterInv' /\ Stored' = Stored
        BY <1>6, <1>7 DEF fileVars
    <2> QED BY <1>7, <2>1, SameKept
<1>8. ASSUME NEW b \in Browsers, NEW ack \in acks, OnAck(b, ack) PROVE WriterInv' /\ Kept'
    <2>1. WriterInv' /\ Stored' = Stored
        BY <1>6, <1>8 DEF OnAck, fileVars
    <2>2. \A id : Known(id) => Known(id)'
        BY <1>8, <2>1 DEF OnAck, Known, InFile
    <2>3. \A c \in Browsers : paired'[c].keyId = paired[c].keyId \/ (ack.ok /\ paired'[c].keyId = ack.keyId)
        <3>1. DOMAIN paired = Browsers
            BY DEF PageTypes
        <3>2. CASE ack.ok
            <4>1. paired' = [paired EXCEPT ![b] = [keyId |-> ack.keyId,
                                                   channel |-> Channel(waiting[b], ack.x25519)]]
                BY <1>8, <3>2 DEF OnAck
            <4> QED BY <3>1, <3>2, <4>1
        <3>3. CASE ~ack.ok
            BY <1>8, <3>1, <3>3 DEF OnAck
        <3> QED BY <3>2, <3>3
    <2>4. acks' \subseteq acks
        BY <1>8 DEF OnAck
    <2> QED BY <2>1, <2>2, <2>3, <2>4 DEF Kept
<1>9. ASSUME NEW a \in Attempts, Receive(a) \/ ConsumeCode(a) PROVE WriterInv' /\ Kept'
    <2>1. \A c \in Attempts : stage'[c] \in {"writing", "renaming", "mkdir"} => stage'[c] = stage[c]
        BY <1>9 DEF Receive, ConsumeCode, Verified, HandlerTypes
    <2>2. UNCHANGED <<acks, paired, records, fileVars, hasty>>
        BY <1>9 DEF Receive, ConsumeCode, Verified, pageVars
    <2>3. WriterInv' /\ Stored' = Stored
        BY <1>6, <2>1, <2>2 DEF fileVars
    <2> QED BY <2>2, <2>3, SameKept
<1>10. ASSUME NEW a \in Attempts, RefuseRequest(a) PROVE WriterInv' /\ Kept'
    <2>1. \A c \in Attempts : stage'[c] \in {"writing", "renaming", "mkdir"} => stage'[c] = stage[c]
        BY <1>10 DEF RefuseRequest, Reply, HandlerTypes
    <2>2. UNCHANGED <<paired, records, fileVars, hasty>> /\ Reply(a, FALSE, 0, 0)
        BY <1>10 DEF RefuseRequest, pageVars
    <2>3. WriterInv' /\ Stored' = Stored
        BY <1>6, <2>1, <2>2 DEF fileVars
    <2>4. PICK new : acks' = acks \cup {new} /\ new.ok = FALSE
        BY <2>2, OneAnswer
    <2> QED BY <2>2, <2>3, <2>4, ReplyKept
<1>11. ASSUME NEW a \in Attempts, EnrollAgain(a) PROVE WriterInv' /\ Kept'
    <2>1. PICK i \in Existing(BrowserOf(a)) : \E id \in Attempts :
            /\ id = records[i].keyId /\ Reply(a, TRUE, id, KeyFor(a))
            /\ hasty' = IF i > Stored THEN hasty \cup {id} ELSE hasty
        <3>1. PICK i \in Existing(BrowserOf(a)) :
                /\ Reply(a, TRUE, records[i].keyId, KeyFor(a))
                /\ hasty' = IF i > Stored THEN hasty \cup {records[i].keyId} ELSE hasty
            BY <1>11 DEF EnrollAgain
        <3>2. records[i].keyId \in Attempts
            BY DEF Existing, RecordsInv, PageTypes, Attempts
        <3> QED BY <3>1, <3>2, Zenon
    <2>2. PICK id \in Attempts :
            /\ id = records[i].keyId /\ Reply(a, TRUE, id, KeyFor(a))
            /\ hasty' = IF i > Stored THEN hasty \cup {id} ELSE hasty
        BY <2>1
    <2>3. \A c \in Attempts : stage'[c] \in {"writing", "renaming", "mkdir"} => stage'[c] = stage[c]
        BY <2>2 DEF Reply, HandlerTypes
    <2>4. UNCHANGED <<paired, records, fileVars>>
        BY <1>11 DEF EnrollAgain, pageVars
    <2>5. WriterInv' /\ Stored' = Stored
        BY <1>6, <2>3, <2>4 DEF fileVars
    <2>6. i \in 1..Len(records)
        BY DEF Existing
    <2>7. Known(id)'
        BY <2>2, <2>4, <2>5, <2>6 DEF Known, InFile
    <2>8. hasty \subseteq hasty'
        BY <2>2
    <2>9. PICK new : acks' = acks \cup {new} /\ new.keyId = id
        <3>1. Reply(a, TRUE, id, KeyFor(a))
            BY <2>2
        <3>2. \E new : acks' = acks \cup {new} /\ new.ok = TRUE /\ new.keyId = id
            BY <3>1, OneAnswer
        <3> QED BY <3>2
    <2> QED BY <2>4, <2>5, <2>7, <2>8, <2>9, ReplyKept
<1>12. ASSUME NEW a \in Attempts, Enroll(a) PROVE WriterInv' /\ Kept'
    <2>1. UNCHANGED <<acks, paired, fileVars, hasty>> /\ Stored' = Stored
        BY <1>12 DEF Enroll, pageVars, fileVars, Stored
    <2>2. \A c \in Attempts : stage'[c] = IF c = a THEN "mkdir" ELSE stage[c]
        BY <1>12 DEF Enroll, HandlerTypes
    <2>3. Writers' = Writers
        BY <1>12, <2>2 DEF Writers, Enroll
    <2>4. /\ \A i \in DOMAIN records : i \in DOMAIN records' /\ records'[i] = records[i]
          /\ \E i \in DOMAIN records' : records'[i].keyId = a
          /\ DOMAIN records = 1..Len(records)
        BY <1>12, EnrollRecords
    <2>5. \A c \in Writers : \A i \in 1..payload[c] : i \in DOMAIN records
        <3>1. \A c \in Writers : payload[c] \in Nat /\ payload[c] <= Len(records)
            BY DEF SizesInv, FileTypes, Writers
        <3> QED BY <2>4, <3>1
    <2>6. \A c \in Writers : \E i \in 1..payload[c] : records'[i].keyId = c
        BY <2>4, <2>5 DEF WriterInv
    <2>7. \A c \in Writers : stage'[c] = stage[c]
        BY <1>12, <2>2 DEF Enroll, Writers
    <2>8. \A c \in Attempts : stage'[c] = "mkdir" => \E i \in DOMAIN records' : records'[i].keyId = c
        BY <2>2, <2>4 DEF WriterInv
    <2>9. WriterInv'
        BY <2>1, <2>3, <2>6, <2>7, <2>8 DEF WriterInv, fileVars
    <2>10. \A i \in 1..Stored : records'[i] = records[i]
        BY <2>4
    <2> QED BY <2>1, <2>9, <2>10, SameKept
<1>13. ASSUME NEW a \in Attempts, OpenTmp(a) PROVE WriterInv' /\ Kept'
    <2> DEFINE i == IF tmp = 0 THEN a ELSE tmp
    <2>1. Writers = {} /\ UNCHANGED <<acks, paired, hasty, records, file>>
        BY <1>13 DEF OpenTmp, pageVars
    <2>2. /\ i # 0 /\ tmp' = i /\ fd' = [fd EXCEPT ![a] = i] /\ torn' = torn \cup {i}
          /\ size' = [size EXCEPT ![i] = 0] /\ payload' = [payload EXCEPT ![a] = Len(records)]
        BY <1>13 DEF OpenTmp, Attempts
    <2>3. i # file /\ i \in Attempts
        BY <1>13 DEF OpenTmp, FreshInv, FileTypes, Attempts
    <2>4. \A c \in Attempts : stage'[c] = IF c = a THEN "writing" ELSE stage[c]
        BY <1>13 DEF OpenTmp, HandlerTypes
    <2>5. Writers' = {a}
        BY <2>1, <2>4 DEF Writers
    <2>6. \E n \in 1..Len(records) : records[n].keyId = a
        BY <1>13 DEF OpenTmp, WriterInv
    <2> HIDE DEF i
    <2>7. Stored' = Stored
        BY <2>1, <2>2, <2>3, InodeType DEF Stored, FileTypes
    <2>8. fd'[a] = tmp' /\ size'[tmp'] = 0 /\ payload'[a] = Len(records) /\ tmp' # 0
        BY <2>2, <2>3 DEF FileTypes
    <2>9. file' # 0 => file' \notin torn'
        BY <2>1, <2>2, <2>3 DEF WriterInv
    <2>10. \A c \in Attempts : stage'[c] = "mkdir" => \E n \in DOMAIN records' : records'[n].keyId = c
        BY <2>1, <2>4 DEF WriterInv
    <2>11. stage'[a] = "writing" /\ \E n \in 1..payload'[a] : records'[n].keyId = a
        BY <2>1, <2>4, <2>6, <2>8
    <2>12. WriterInv'
        BY <2>5, <2>7, <2>8, <2>9, <2>10, <2>11 DEF WriterInv
    <2> QED BY <2>1, <2>7, <2>12, SameKept
<1>14. ASSUME NEW a \in Attempts, WriteTmp(a) PROVE WriterInv' /\ Kept'
    <2>1. a \in Writers /\ UNCHANGED <<acks, paired, hasty, records, file, tmp, fd, payload>>
        BY <1>14 DEF WriteTmp, pageVars, Writers
    <2>2. \A c \in Attempts : stage'[c] = IF c = a THEN "renaming" ELSE stage[c]
        BY <1>14 DEF WriteTmp, HandlerTypes
    <2>3. Writers' = {a} /\ Writers = {a}
        BY <1>14, <2>1, <2>2 DEF Writers, WriterInv
    <2>4. fd[a] = tmp /\ tmp # 0 /\ size[tmp] = 0 /\ payload[a] \in Nat
        BY <1>14, <2>1 DEF WriterInv, WriteTmp, FileTypes
    <2>5. torn' = torn \ {tmp} /\ size' = [size EXCEPT ![tmp] = payload[a]]
        BY <1>14, <2>4 DEF WriteTmp
    <2>6. file # tmp /\ (file # 0 => file \in Attempts) /\ tmp \in Attempts
        BY <2>4, InodeType DEF FileTypes
    <2>7. Stored' = Stored
        BY <2>1, <2>5, <2>6 DEF Stored, FileTypes
    <2>8. size'[tmp'] = payload'[a] /\ tmp' \notin torn' /\ stage'[a] = "renaming"
        BY <2>1, <2>2, <2>5, <2>6 DEF FileTypes
    <2>9. WriterInv'
        BY <2>1, <2>2, <2>3, <2>5, <2>7, <2>8 DEF WriterInv
    <2> QED BY <2>1, <2>7, <2>9, SameKept
<1>15. ASSUME NEW a \in Attempts, Rename(a) PROVE WriterInv' /\ Kept'
    <2>1. /\ a \in Writers /\ UNCHANGED <<paired, hasty, records, size, torn>>
          /\ file' = tmp /\ tmp' = 0 /\ Reply(a, TRUE, a, KeyFor(a))
        BY <1>15 DEF Rename, pageVars, Writers
    <2>2. tmp # 0 /\ tmp \notin torn /\ size[tmp] = payload[a] /\ Stored <= payload[a]
        BY <1>15, <2>1 DEF Rename, WriterInv
    <2>3. Stored' = payload[a]
        BY <2>1, <2>2 DEF Stored
    <2>4. \A c \in Attempts : stage'[c] = IF c = a THEN "none" ELSE stage[c]
        BY <2>1 DEF Reply, HandlerTypes
    <2>5. Writers' = {}
        BY <2>1, <2>4 DEF Writers, WriterInv
    <2>6. WriterInv'
        BY <2>1, <2>2, <2>4, <2>5 DEF WriterInv
    <2>7. Known(a)'
        BY <2>1, <2>3 DEF Known, InFile, WriterInv
    <2>8. PICK new : acks' = acks \cup {new} /\ new.keyId = a
        <3>1. \E new : acks' = acks \cup {new} /\ new.ok = TRUE /\ new.keyId = a
            BY <2>1, OneAnswer
        <3> QED BY <3>1
    <2> QED BY <2>1, <2>2, <2>3, <2>6, <2>7, <2>8, ReplyKept
<1>16. CASE Die
    <2>1. \A c \in Attempts : stage'[c] = "none"
        BY <1>16 DEF Die
    <2>2. UNCHANGED <<acks, paired, hasty, records, file, tmp, size, torn>>
        BY <1>16 DEF Die, pageVars
    <2>3. Stored' = Stored /\ Writers' = {}
        BY <2>1, <2>2 DEF Stored, Writers
    <2>4. WriterInv'
        BY <2>1, <2>2, <2>3 DEF WriterInv
    <2> QED BY <2>2, <2>3, <2>4, SameKept
<1>17. CASE Restart
    <2>1. UNCHANGED <<acks, paired, hasty, stage, fileVars>> /\ Stored' = Stored
        BY <1>17 DEF Restart, pageVars, fileVars, Stored
    <2>2. \A c \in Attempts : stage'[c] = "none"
        BY <1>17, <2>1 DEF Restart, HandlerTypes
    <2>3. WriterInv'
        BY <2>1, <2>2 DEF WriterInv, Writers, fileVars
    <2>4. \A n \in 1..Stored : records'[n] = records[n]
        BY <1>17, RestartRecords
    <2> QED BY <2>1, <2>3, <2>4, SameKept
<1> QED BY <1>7, <1>8, <1>9, <1>10, <1>11, <1>12, <1>13, <1>14, <1>15, <1>16, <1>17
        DEF Next, Page, Daemon, vars, pageVars, StartPairing, MayPair, Request, Submit,
            Timeout, Mint, Expire, Crash, RenameFails

-----------------------------------------------------------------------------
(* The theorems.                                                           *)

\* PairingInv is inductive.
THEOREM PairingInvariance == Spec => []PairingInv
<1>1. PairingInv /\ [Next]_vars => PairingInv'
    <2> SUFFICES ASSUME PairingInv, [Next]_vars PROVE PairingInv'
        OBVIOUS
    <2>1. TypeOK' /\ SizesInv'
        BY TypeStep, SizesStep
    <2>2. CodesInv' /\ FreshInv' /\ RecordsInv' /\ PairsInv'
        BY CodesStep, FreshStep, RecordsStep, PairsStep
    <2>3. DurableInv' /\ AckedIsDurable'
        <3>1. CASE overlapped'
            BY <3>1 DEF DurableInv, AckedIsDurable
        <3>2. CASE ~overlapped'
            <4>1. WriterInv' /\ Kept'
                BY <2>1, <3>2, DurableStep
            <4> QED BY <4>1 DEF DurableInv, AckedIsDurable, Kept, Known
        <3> QED BY <3>1, <3>2
    <2> QED BY <2>1, <2>2, <2>3 DEF PairingInv
<1> QED BY InitPairing, <1>1, PTL DEF Spec

\* The variables keep their types: a handler that runs belongs to a daemon that is up, and the
\* registry and its temporary file are never one file.
THEOREM PairingTypes == Spec => []TypeOK
BY PairingInvariance, PTL DEF PairingInv

\* A key id the daemon has acknowledged is in the registry file, whenever the daemon crashes.
THEOREM AckedKeysAreDurable == Spec => []AckedIsDurable
BY PairingInvariance, PTL DEF PairingInv

\* A set of one attempt: two attempts of a browser that made one only are the same.
LEMMA OneTry ==
    ASSUME PageTypes, NEW b \in Browsers, Tries(b) = 1
    PROVE  \A v, w \in Of(b) : v = w
<1>1. Of(b) \subseteq 1..Len(attempts) /\ Len(attempts) \in Nat
    BY DEF Of, PageTypes
<1>2. IsFiniteSet(Of(b))
    <2>1. IsFiniteSet(1..Len(attempts))
        BY <1>1, FS_Interval
    <2> QED BY <1>1, <2>1, FS_Subset
<1>3. Cardinality(Of(b)) = 1
    BY DEF Tries, Of, BrowserOf
<1>4. PICK v : Of(b) = {v}
    BY <1>2, <1>3, FS_Singleton
<1> QED BY <1>4

\* What a browser stored is the daemon's record of that browser, under one channel key if the
\* browser made one attempt only.
THEOREM PairedMatches == Spec => []PairedMatchesRecord
<1>1. PairingInv => PairedMatchesRecord
    <2> SUFFICES ASSUME PairingInv, NEW b \in Browsers, NEW i \in DOMAIN records,
                        records[i].keyId = paired[b].keyId
                 PROVE  /\ records[i].browser = b
                        /\ Tries(b) = 1 => records[i].channel = paired[b].channel
        BY DEF PairedMatchesRecord
    <2> USE DEF PairingInv, TypeOK
    <2>1. /\ records[i].keyId \in DOMAIN attempts
          /\ records[i].browser = BrowserOf(records[i].keyId)
          /\ records[i].channel = Channel(records[i].keyId, KeyFor(records[i].keyId))
        BY DEF RecordsInv
    <2>2. paired[b].keyId # 0
        BY <2>1 DEF PageTypes
    <2>3. paired[b].keyId \in Of(b) /\ \E w, h \in Of(b) : paired[b].channel = Channel(w, KeyFor(h))
        BY <2>2 DEF PairsInv
    <2>4. records[i].browser = b
        BY <2>1, <2>3 DEF Of
    <2>5. ASSUME Tries(b) = 1 PROVE records[i].channel = paired[b].channel
        <3>1. \A v, w \in Of(b) : v = w
            BY <2>5, OneTry
        <3> QED BY <2>1, <2>3, <3>1
    <2> QED BY <2>4, <2>5
<1> QED BY <1>1, PairingInvariance, PTL

-----------------------------------------------------------------------------
(* Pairing implements PairingCodes.                                        *)

Live == {k \in Codes : minted[k] \in {"valid", "expired"}}

LEMMA InitRefines == Init => Promise!Init
BY DEF Init, Promise!Init, Keys

LEMMA StepRefines == PairingInv /\ [Next]_vars => [Promise!Next]_Promise!vars
<1> SUFFICES ASSUME PairingInv, [Next]_vars PROVE [Promise!Next]_Promise!vars
    OBVIOUS
<1> USE DEF PairingInv, TypeOK
<1>1. CASE UNCHANGED <<minted, consumedBy, records>>
    BY <1>1 DEF Promise!vars, Keys
<1>2. ASSUME Live' \subseteq Live, Keys' \subseteq Keys, UNCHANGED consumedBy
      PROVE  Promise!Next
    BY <1>2 DEF Promise!Next, Promise!Forget, Live
<1>3. ASSUME NEW k \in Codes, Mint(k) PROVE Promise!Next
    <2>1. consumedBy[k] = Nobody /\ UNCHANGED <<consumedBy, records>>
        BY <1>3 DEF Mint, CodesInv
    <2>2. k \in Live' /\ Live' \subseteq Live \cup {k}
        BY <1>3 DEF Mint, Pruned, Live, HandlerTypes
    <2>3. Promise!Mint(k)
        BY <2>1, <2>2 DEF Promise!Mint, Live, Keys
    <2> QED BY <2>3 DEF Promise!Next
<1>4. ASSUME NEW k \in Codes, Expire(k) PROVE Promise!Next
    <2>1. Live' \subseteq Live
        BY <1>4 DEF Expire, Live, HandlerTypes
    <2> QED BY <1>2, <1>4, <2>1 DEF Expire, Keys
<1>5. ASSUME NEW a \in Attempts, Receive(a) PROVE Promise!Next
    <2>1. Live' \subseteq Live
        BY <1>5 DEF Receive, Pruned, Live, HandlerTypes
    <2> QED BY <1>2, <1>5, <2>1 DEF Receive, Keys
<1>6. ASSUME NEW a \in Attempts, ConsumeCode(a) PROVE [Promise!Next]_Promise!vars
    <2>1. BrowserOf(a) \in Browsers /\ CodeOf(a) \in Codes
        BY <1>6, AttemptType DEF ConsumeCode, Verified, HandlerTypes
    <2>2. /\ CodeOf(a) \in Live /\ consumedBy[CodeOf(a)] \in {Nobody, BrowserOf(a)}
          /\ consumedBy' = [consumedBy EXCEPT ![CodeOf(a)] = BrowserOf(a)]
          /\ UNCHANGED <<minted, records>>
        BY <1>6, <2>1 DEF ConsumeCode, Verified, MayConsume, Live
    <2>3. CASE consumedBy[CodeOf(a)] = Nobody
        <3>1. Promise!Claim(CodeOf(a), BrowserOf(a))
            BY <2>2, <2>3 DEF Promise!Claim, Live, Keys
        <3> QED BY <2>1, <3>1 DEF Promise!Next
    <2>4. CASE consumedBy[CodeOf(a)] = BrowserOf(a)
        <3>1. consumedBy' = consumedBy
            BY <2>1, <2>2, <2>4 DEF HandlerTypes
        <3> QED BY <2>2, <3>1 DEF Promise!vars, Keys
    <2> QED BY <2>2, <2>3, <2>4
<1>7. ASSUME NEW a \in Attempts, Enroll(a) PROVE Promise!Next
    <2>1. BrowserOf(a) \in Browsers /\ CodeOf(a) \in Codes /\ consumedBy[CodeOf(a)] = BrowserOf(a)
        BY <1>7, AttemptType DEF Enroll, HandlerTypes, CodesInv
    <2>2. \A key \in Keys : key[1] # BrowserOf(a) /\ key[2] # a
        BY <1>7 DEF Enroll, Existing, FreshInv, Ahead, Keys
    <2>3. Keys' = Keys \cup {<<BrowserOf(a), a>>}
        <3>1. /\ \A i \in DOMAIN records : i \in DOMAIN records' /\ records'[i] = records[i]
              /\ \A i \in DOMAIN records' : i \in DOMAIN records \/ i = Len(records')
              /\ Len(records') \in DOMAIN records'
              /\ records'[Len(records')].keyId = a
              /\ records'[Len(records')].browser = BrowserOf(a)
            BY <1>7, EnrollRecords
        <3> QED BY <3>1 DEF Keys
    <2>4. UNCHANGED <<minted, consumedBy>>
        BY <1>7 DEF Enroll, codeVars
    <2>5. Promise!Enroll(BrowserOf(a), a)
        BY <2>1, <2>2, <2>3, <2>4 DEF Promise!Enroll
    <2> QED BY <2>1, <2>5 DEF Promise!Next
<1>8. CASE Die
    <2>1. Live' \subseteq Live
        BY <1>8 DEF Die, Live, HandlerTypes
    <2> QED BY <1>2, <1>8, <2>1 DEF Die, Keys
<1>9. CASE Restart
    <2>1. \A i \in DOMAIN records' : i \in DOMAIN records /\ records'[i] = records[i]
        BY <1>9, RestartRecords
    <2>2. UNCHANGED <<minted, consumedBy>>
        BY <1>9 DEF Restart, codeVars
    <2>3. Keys' \subseteq Keys
        BY <2>1 DEF Keys
    <2> QED BY <1>2, <2>2, <2>3 DEF Live
<1> QED BY <1>1, <1>3, <1>4, <1>5, <1>6, <1>7, <1>8, <1>9
        DEF Next, Page, Daemon, vars, codeVars, StartPairing, MayPair, Request, Submit,
            Timeout, OnAck, RefuseRequest,
            EnrollAgain, OpenTmp, WriteTmp, Rename, Crash, RenameFails

\* A code belongs to the first browser that used it, for good, and only a browser with a code
\* of its own is enrolled, under one key id: every step of the daemon's interleaved handlers is
\* one of the abstract specification or changes nothing there.
THEOREM Refines == Spec => RefinesCodes
<1>1. Init => Promise!Init
    BY InitRefines
<1>2. PairingInv /\ [Next]_vars => [Promise!Next]_Promise!vars
    BY StepRefines
<1> QED BY <1>1, <1>2, PairingInvariance, PTL DEF Spec, RefinesCodes, Promise!Spec
=============================================================================
