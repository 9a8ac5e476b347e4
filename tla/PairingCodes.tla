---------------------------- MODULE PairingCodes ----------------------------
(***************************************************************************)
(* What pairing promises (PairingCodeStore.ts, the headers of               *)
(* EnrollmentManager.ts and EnrolledKeyStore.ts): a code shown on the      *)
(* trusted machine belongs to the first browser that uses it, for good;    *)
(* only a browser that owns a code is enrolled, and under one key id.      *)
(***************************************************************************)
CONSTANTS Browsers, Codes, KeyIds, Nobody

VARIABLES live,  \* codes the daemon accepts
          owner, \* whose a code is
          keys   \* the enrolled keys: pairs of a browser and a key id

vars == <<live, owner, keys>>

Init ==
    /\ live = {}
    /\ owner = [k \in Codes |-> Nobody]
    /\ keys = {}

\* a new code is one that nobody has used; older ones may run out then
Mint(k) ==
    /\ owner[k] = Nobody
    /\ k \in live' /\ live' \subseteq live \cup {k}
    /\ UNCHANGED <<owner, keys>>

\* codes run out, or are lost with the process, and so are keys that were not stored yet
Forget ==
    /\ live' \subseteq live
    /\ keys' \subseteq keys
    /\ UNCHANGED owner

Claim(k, b) ==
    /\ k \in live /\ owner[k] = Nobody
    /\ owner' = [owner EXCEPT ![k] = b]
    /\ UNCHANGED <<live, keys>>

Enroll(b, id) ==
    /\ \E k \in Codes : owner[k] = b
    /\ \A key \in keys : key[1] # b /\ key[2] # id
    /\ keys' = keys \cup {<<b, id>>}
    /\ UNCHANGED <<live, owner>>

Next ==
    \/ Forget
    \/ \E k \in Codes : Mint(k)
    \/ \E k \in Codes, b \in Browsers : Claim(k, b)
    \/ \E b \in Browsers, id \in KeyIds : Enroll(b, id)

Spec == Init /\ [][Next]_vars
=============================================================================
