----------------------------- MODULE Attestation -----------------------------
(***************************************************************************)
(* GetNSMAttestations of pkg/wellknown, as concurrent requests run it, on  *)
(* the one cached response.  The certificate comes from CertManager, which *)
(* has none before its Start and renews it at any moment; the security     *)
(* module (pkg/attest) answers or fails.                                   *)
(*                                                                         *)
(* A document is what it is about: the certificate in its user data, the   *)
(* nonce, and the epoch in which its own certificates are valid.  Epochs   *)
(* are the time that is left of them.                                      *)
(***************************************************************************)
EXTENDS Naturals

CONSTANTS Requests,      \* each is made once, with a nonce of its own or none
          Certs,         \* the certificates of CertManager
          Marshallable,  \* those that x509.MarshalPKIXPublicKey takes
          None,          \* no certificate, no nonce
          MaxEpoch       \* bound on the changes of epoch

ASSUME NoneAssumption == None \notin Certs \cup Requests
ASSUME MarshalAssumption == Marshallable \subseteq Certs
ASSUME EpochAssumption == MaxEpoch \in Nat

Docs == [user : Certs \cup {None}, nonce : Requests \cup {None}, epoch : 0..MaxEpoch]
NoDoc == [user |-> None, nonce |-> None, epoch |-> MaxEpoch + 1]

VARIABLES pc,       \* the position of each request in its handler
          nonce,    \* whether it has a nonce
          cert,     \* certBytes
          resp,     \* the response that it is about to give, or gave
          status,   \* of the HTTP response
          cached,   \* c.cachedResp
          current,  \* what getCertFunc returns
          epoch,    \* time.Now()
          since,    \* history: the epoch in which the request arrived
          window    \* history: the certificates there have been since then

request == <<pc, nonce, cert, resp, status>>
history == <<since, window>>
vars == <<request, cached, current, epoch, history>>

Init ==
    /\ pc = [r \in Requests |-> "new"]
    /\ nonce = [r \in Requests |-> FALSE]
    /\ cert = [r \in Requests |-> None]
    /\ resp = [r \in Requests |-> NoDoc]
    /\ status = [r \in Requests |-> "none"]
    /\ cached = NoDoc
    /\ current = None
    /\ epoch = 0
    /\ since = [r \in Requests |-> 0]
    /\ window = [r \in Requests |-> {}]

-----------------------------------------------------------------------------
GoTo(r, p) == pc' = [pc EXCEPT ![r] = p]

Respond(r, s, d) ==
    /\ GoTo(r, "done")
    /\ status' = [status EXCEPT ![r] = s]
    /\ resp' = [resp EXCEPT ![r] = d]

\* Mutant: only the certificate is compared.
IsValidForever(d, c) == d # NoDoc /\ d.user = c

\* isValidCache, and that there is something in the cache at all.
IsValidCache(d, c) == d # NoDoc /\ d.epoch = epoch /\ d.user = c

\* A request arrives.  A nonce that is too long is refused before anything else.
Begin(r) ==
    /\ pc[r] = "new"
    /\ \/ /\ \E n \in BOOLEAN : nonce' = [nonce EXCEPT ![r] = n]
          /\ GoTo(r, "cert")
          /\ UNCHANGED <<resp, status>>
       \/ Respond(r, "badNonce", NoDoc) /\ UNCHANGED nonce
    /\ since' = [since EXCEPT ![r] = epoch]
    /\ window' = [window EXCEPT ![r] = {current}]
    /\ UNCHANGED <<cert, cached, current, epoch>>

\* Mutant: a certificate that cannot be marshalled is left out.
GetCertLeniently(r) ==
    /\ pc[r] = "cert"
    /\ cert' = [cert EXCEPT ![r] = IF current \in Marshallable THEN current ELSE None]
    /\ GoTo(r, "cache")
    /\ UNCHANGED <<nonce, resp, status, cached, current, epoch, history>>

\* getCert.  The bytes of a certificate are not a public key: Marshallable is
\* empty in the code as it is, and a request fails here once there is a
\* certificate.
GetCert(r) ==
    /\ pc[r] = "cert"
    /\ IF current \in Marshallable \cup {None}
       THEN cert' = [cert EXCEPT ![r] = current] /\ GoTo(r, "cache") /\ UNCHANGED <<resp, status>>
       ELSE Respond(r, "noCert", NoDoc) /\ UNCHANGED cert
    /\ UNCHANGED <<nonce, cached, current, epoch, history>>

\* The cache is loaded once to answer from it ...
TryCache(r) ==
    /\ pc[r] = "cache"
    /\ IF ~nonce[r] /\ IsValidCache(cached, cert[r])
       THEN Respond(r, "ok", cached)
       ELSE GoTo(r, "inspect") /\ UNCHANGED <<resp, status>>
    /\ UNCHANGED <<nonce, cert, cached, current, epoch, history>>

\* ... and again to see whether to clear it, which is one more step.
Inspect(r) ==
    /\ pc[r] = "inspect"
    /\ GoTo(r, IF cached # NoDoc /\ ~IsValidCache(cached, cert[r]) THEN "clear" ELSE "call")
    /\ UNCHANGED <<nonce, cert, resp, status, cached, current, epoch, history>>

Clear(r) ==
    /\ pc[r] = "clear"
    /\ cached' = NoDoc
    /\ GoTo(r, "call")
    /\ UNCHANGED <<nonce, cert, resp, status, current, epoch, history>>

\* attest.GetNSMAttestation: a new document, which is verified, or an error.
Call(r) ==
    /\ pc[r] = "call"
    /\ \/ /\ resp' = [resp EXCEPT ![r] = [user |-> cert[r], epoch |-> epoch,
                                          nonce |-> IF nonce[r] THEN r ELSE None]]
          /\ GoTo(r, "store")
          /\ UNCHANGED status
       \/ Respond(r, "noDocument", NoDoc)
    /\ UNCHANGED <<nonce, cert, cached, current, epoch, history>>

\* Mutant: every response is stored.
StoreAlways(r) ==
    /\ pc[r] = "store"
    /\ cached' = resp[r]
    /\ Respond(r, "ok", resp[r])
    /\ UNCHANGED <<nonce, cert, current, epoch, history>>

Store(r) ==
    /\ pc[r] = "store"
    /\ cached' = IF nonce[r] THEN cached ELSE resp[r]
    /\ Respond(r, "ok", resp[r])
    /\ UNCHANGED <<nonce, cert, current, epoch, history>>

\* switchCertificate, while requests are under way.
Switch ==
    /\ \E c \in Certs \ {current} :
          /\ current' = c
          /\ window' = [r \in Requests |-> IF pc[r] = "new" THEN window[r] ELSE window[r] \cup {c}]
    /\ UNCHANGED <<request, cached, epoch, since>>

\* Time passes, and what was attested before is out of date.
Expire ==
    /\ epoch < MaxEpoch
    /\ epoch' = epoch + 1
    /\ UNCHANGED <<request, cached, current, history>>

-----------------------------------------------------------------------------
GetNSMAttestations(r) ==
    Begin(r) \/ GetCert(r) \/ TryCache(r) \/ Inspect(r) \/ Clear(r) \/ Call(r) \/ Store(r)

Next == (\E r \in Requests : GetNSMAttestations(r)) \/ Switch \/ Expire

Spec == Init /\ [][Next]_vars

-----------------------------------------------------------------------------
\* Every variable keeps to its type.
TypeOK ==
    /\ pc \in [Requests -> {"new", "cert", "cache", "inspect", "clear", "call", "store", "done"}]
    /\ nonce \in [Requests -> BOOLEAN]
    /\ cert \in [Requests -> Certs \cup {None}]
    /\ resp \in [Requests -> Docs \cup {NoDoc}]
    /\ status \in [Requests -> {"none", "ok", "badNonce", "noCert", "noDocument"}]
    /\ cached \in Docs \cup {NoDoc}
    /\ current \in Certs \cup {None}
    /\ epoch \in 0..MaxEpoch
    /\ since \in [Requests -> 0..MaxEpoch]
    /\ window \in [Requests -> SUBSET (Certs \cup {None})]

\* A challenger gets a document with the nonce of its own request, and nobody
\* else ever gets that one, whatever concurrent requests do to the cache.
OwnNonce ==
    \A r \in Requests : status[r] = "ok" => resp[r].nonce = IF nonce[r] THEN r ELSE None

\* A response, from the cache too, was valid at some time since it was asked for,
\* also when a slow request has stored one that was out of date by then.
Fresh == \A r \in Requests : status[r] = "ok" => since[r] <= resp[r].epoch /\ resp[r].epoch <= epoch

\* A document that names no certificate goes only to a request that came before
\* there was one: a certificate that cannot be used (wellknown.go 167, which is
\* every one) fails the request, and is not left out of it, nor does the document
\* of an earlier request that is still in the cache take its place.
NeverBare ==
    \A r \in Requests : status[r] = "ok" /\ resp[r].user = None => None \in window[r]
=============================================================================
