------------------------ MODULE AttestazioneRegistry ------------------------
(***************************************************************************)
(* What the fiscal register of Piano 4.0/5.0 attestations promises, with   *)
(* no requests, no SQL and no faults: for every (device, year, plan) key   *)
(* at most one attestation is current, a number is given out at most once, *)
(* and a number that was withdrawn never becomes current again.  Replacing *)
(* the current attestation of a key is one indivisible step.               *)
(* Sources of the promise: migration 008 ("Invariante target") and the     *)
(* idempotency notes in routes/attestazione.js.                            *)
(***************************************************************************)
CONSTANTS Keys,     \* (device_id, anno_fiscale, plan) triples
          Numeri,   \* attestation numbers, FM-YYYY-XXXXXXXX
          None      \* no attestation

VARIABLES current,    \* current[k]: the attestation of k that is not revoked
          withdrawn   \* the numbers that were revoked

vars == <<current, withdrawn>>

Used == withdrawn \cup {current[k] : k \in Keys}

Init == /\ current \in [Keys -> Numeri \cup {None}]
        /\ \A j, k \in Keys : j # k /\ current[j] = current[k] => current[j] = None
        /\ withdrawn = {}

Issue(k, n) ==
    /\ current[k] = None
    /\ n \notin Used
    /\ current' = [current EXCEPT ![k] = n]
    /\ UNCHANGED withdrawn

Withdraw(k) ==
    /\ current[k] # None
    /\ current' = [current EXCEPT ![k] = None]
    /\ withdrawn' = withdrawn \cup {current[k]}

Reissue(k, n) ==
    /\ current[k] # None
    /\ n \notin Used
    /\ current' = [current EXCEPT ![k] = n]
    /\ withdrawn' = withdrawn \cup {current[k]}

Next == \E k \in Keys :
            \/ Withdraw(k)
            \/ \E n \in Numeri : Issue(k, n) \/ Reissue(k, n)

Spec == Init /\ [][Next]_vars
=============================================================================
