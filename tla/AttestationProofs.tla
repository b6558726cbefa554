--------------------------- MODULE AttestationProofs ---------------------------
(***************************************************************************)
(* For any number of requests, any certificates, and whatever of them can  *)
(* be marshalled: what a request is answered with is its own.              *)
(***************************************************************************)
EXTENDS Attestation, TLAPS

\* The cache holds what was asked for without a nonce, and nothing of the future.
CacheOK == cached.nonce = None /\ (cached # NoDoc => cached.epoch <= epoch)

\* What a document must be to be the answer to r.
Answers(d, r) ==
    /\ d.nonce = IF nonce[r] THEN r ELSE None
    /\ since[r] <= d.epoch /\ d.epoch <= epoch
    /\ d.user \in window[r]

\* A request on its way: the certificate that it works with was served in its
\* time, and so is the one that is served now.
RequestOK(r) ==
    /\ since[r] <= epoch
    /\ pc[r] # "new" => current \in window[r]
    /\ pc[r] \in {"cache", "inspect", "clear", "call", "store"} => cert[r] \in window[r]
    /\ pc[r] = "store" => Answers(resp[r], r)
    /\ status[r] = "ok" => pc[r] = "done" /\ Answers(resp[r], r)

IndInv == TypeOK /\ CacheOK /\ \A r \in Requests : RequestOK(r)

-----------------------------------------------------------------------------
LEMMA NoDocFact == NoDoc \notin Docs /\ NoDoc.nonce = None
<1>1. NoDoc.epoch \notin 0..MaxEpoch
  BY EpochAssumption DEF NoDoc
<1>2. \A d \in Docs : d.epoch \in 0..MaxEpoch
  BY DEF Docs
<1> QED
  BY <1>1, <1>2 DEF NoDoc

LEMMA InitInv == Init => IndInv
<1> SUFFICES ASSUME Init PROVE IndInv
    OBVIOUS
<1>1. TypeOK
  BY EpochAssumption DEF Init, TypeOK
<1>2. CacheOK
  BY NoDocFact DEF Init, CacheOK
<1>3. ASSUME NEW r \in Requests PROVE RequestOK(r)
  BY EpochAssumption DEF Init, RequestOK
<1> QED
  BY <1>1, <1>2, <1>3 DEF IndInv

-----------------------------------------------------------------------------
\* A request that does nothing is left as it was: the cache may change, the
\* certificate and the clock do not.
Untouched(r) ==
    /\ pc'[r] = pc[r] /\ nonce'[r] = nonce[r] /\ cert'[r] = cert[r]
    /\ resp'[r] = resp[r] /\ status'[r] = status[r]
    /\ since'[r] = since[r] /\ window'[r] = window[r]
    /\ current' = current /\ epoch' = epoch

LEMMA UntouchedOK == ASSUME NEW r, Untouched(r), RequestOK(r) PROVE RequestOK(r)'
  BY DEF Untouched, RequestOK, Answers

LEMMA BeginInv == ASSUME NEW r \in Requests, IndInv, Begin(r) PROVE IndInv'
<1>1. TypeOK'
  BY DEF IndInv, TypeOK, Begin, GoTo, Respond
<1>2. CacheOK'
  BY DEF IndInv, CacheOK, Begin
<1>3. ASSUME NEW s \in Requests PROVE RequestOK(s)'
  <2>1. CASE s = r
    <3>1. status[r] # "ok"
      BY DEF IndInv, RequestOK, Begin
    <3>2. /\ since'[r] = epoch /\ window'[r] = {current}
          /\ \/ pc'[r] = "cert" /\ status' = status
             \/ pc'[r] = "done" /\ status'[r] = "badNonce"
      BY DEF IndInv, TypeOK, Begin, GoTo, Respond
    <3>3. epoch' = epoch /\ current' = current /\ epoch \in Nat
      BY EpochAssumption DEF IndInv, TypeOK, Begin
    <3> QED
      BY <2>1, <3>1, <3>2, <3>3 DEF RequestOK
  <2>2. CASE s # r
    <3>1. Untouched(s)
      BY <2>2 DEF IndInv, TypeOK, Begin, GoTo, Respond, Untouched
    <3> QED
      BY <3>1, UntouchedOK DEF IndInv
  <2> QED
    BY <2>1, <2>2
<1> QED
  BY <1>1, <1>2, <1>3 DEF IndInv

LEMMA GetCertInv == ASSUME NEW r \in Requests, IndInv, GetCert(r) PROVE IndInv'
<1>1. TypeOK'
  BY MarshalAssumption DEF IndInv, TypeOK, GetCert, GoTo, Respond, history
<1>2. CacheOK'
  BY DEF IndInv, CacheOK, GetCert
<1>3. ASSUME NEW s \in Requests PROVE RequestOK(s)'
  <2>1. CASE s = r
    <3>1. pc[r] = "cert" /\ current \in window[r] /\ since[r] <= epoch /\ status[r] # "ok"
      BY DEF IndInv, RequestOK, GetCert
    <3>2. UNCHANGED <<nonce, current, epoch, since, window>>
      BY DEF GetCert, history
    <3>3. CASE current \in Marshallable \cup {None}
      <4>1. cert'[r] = current /\ pc'[r] = "cache" /\ status' = status
        BY <3>3 DEF IndInv, TypeOK, GetCert, GoTo
      <4> QED
        BY <2>1, <3>1, <3>2, <4>1 DEF RequestOK
    <3>4. CASE current \notin Marshallable \cup {None}
      <4>1. pc'[r] = "done" /\ status'[r] = "noCert"
        BY <3>4 DEF IndInv, TypeOK, GetCert, GoTo, Respond, history
      <4> QED
        BY <2>1, <3>1, <3>2, <4>1 DEF RequestOK
    <3> QED
      BY <3>3, <3>4
  <2>2. CASE s # r
    <3>1. Untouched(s)
      BY <2>2 DEF IndInv, TypeOK, GetCert, GoTo, Respond, history, Untouched
    <3> QED
      BY <3>1, UntouchedOK DEF IndInv
  <2> QED
    BY <2>1, <2>2
<1> QED
  BY <1>1, <1>2, <1>3 DEF IndInv

\* A valid entry of the cache answers a request without a nonce.
LEMMA TryCacheInv == ASSUME NEW r \in Requests, IndInv, TryCache(r) PROVE IndInv'
<1>1. TypeOK'
  BY DEF IndInv, TypeOK, TryCache, GoTo, Respond, history
<1>2. CacheOK'
  BY DEF IndInv, CacheOK, TryCache
<1>3. ASSUME NEW s \in Requests PROVE RequestOK(s)'
  <2>1. CASE s = r
    <3>1. /\ pc[r] = "cache" /\ current \in window[r] /\ cert[r] \in window[r]
          /\ since[r] <= epoch /\ status[r] # "ok"
      BY DEF IndInv, RequestOK, TryCache
    <3>2. UNCHANGED <<nonce, cert, current, epoch, since, window>>
      BY DEF TryCache, history
    <3>3. CASE ~nonce[r] /\ IsValidCache(cached, cert[r])
      <4>1. pc'[r] = "done" /\ status'[r] = "ok" /\ resp'[r] = cached
        BY <3>3 DEF IndInv, TypeOK, TryCache, GoTo, Respond, history
      <4>2. cached.epoch = epoch /\ cached.user = cert[r] /\ cached.nonce = None
        BY <3>3 DEF IsValidCache, IndInv, CacheOK
      <4>3. epoch \in Nat
        BY EpochAssumption DEF IndInv, TypeOK
      <4>4. Answers(resp[r], r)'
        BY <3>1, <3>2, <3>3, <4>1, <4>2, <4>3 DEF Answers
      <4> QED
        BY <2>1, <3>1, <3>2, <4>1, <4>4 DEF RequestOK
    <3>4. CASE ~(~nonce[r] /\ IsValidCache(cached, cert[r]))
      <4>1. pc'[r] = "inspect" /\ status' = status
        BY <3>4 DEF IndInv, TypeOK, TryCache, GoTo
      <4> QED
        BY <2>1, <3>1, <3>2, <4>1 DEF RequestOK
    <3> QED
      BY <3>3, <3>4
  <2>2. CASE s # r
    <3>1. Untouched(s)
      BY <2>2 DEF IndInv, TypeOK, TryCache, GoTo, Respond, history, Untouched
    <3> QED
      BY <3>1, UntouchedOK DEF IndInv
  <2> QED
    BY <2>1, <2>2
<1> QED
  BY <1>1, <1>2, <1>3 DEF IndInv

\* Whether the cache is cleared or not makes no difference to anybody's answer.
LEMMA ClearInv == ASSUME NEW r \in Requests, IndInv, Inspect(r) \/ Clear(r) PROVE IndInv'
<1>1. TypeOK'
  BY DEF IndInv, TypeOK, Inspect, Clear, GoTo, history
<1>2. CacheOK'
  <2>1. epoch' = epoch /\ cached' \in {cached, NoDoc}
    BY DEF Inspect, Clear
  <2> QED
    BY <2>1, NoDocFact DEF IndInv, CacheOK
<1>3. ASSUME NEW s \in Requests PROVE RequestOK(s)'
  <2>1. CASE s = r
    <3>1. /\ current \in window[r] /\ cert[r] \in window[r]
          /\ since[r] <= epoch /\ status[r] # "ok"
      BY DEF IndInv, RequestOK, Inspect, Clear
    <3>2. UNCHANGED <<nonce, cert, status, current, epoch, since, window>>
      BY DEF Inspect, Clear, history
    <3>3. pc'[r] \in {"clear", "call"}
      BY DEF IndInv, TypeOK, Inspect, Clear, GoTo, history
    <3> QED
      BY <2>1, <3>1, <3>2, <3>3 DEF RequestOK
  <2>2. CASE s # r
    <3>1. Untouched(s)
      BY <2>2 DEF IndInv, TypeOK, Inspect, Clear, GoTo, history, Untouched
    <3> QED
      BY <3>1, UntouchedOK DEF IndInv
  <2> QED
    BY <2>1, <2>2
<1> QED
  BY <1>1, <1>2, <1>3 DEF IndInv

LEMMA CallInv == ASSUME NEW r \in Requests, IndInv, Call(r) PROVE IndInv'
<1> DEFINE doc == [user |-> cert[r], epoch |-> epoch, nonce |-> IF nonce[r] THEN r ELSE None]
<1>0. doc \in Docs /\ doc.user = cert[r] /\ doc.epoch = epoch
      /\ doc.nonce = IF nonce[r] THEN r ELSE None
  BY DEF IndInv, TypeOK, Docs
<1>a. \/ resp' = [resp EXCEPT ![r] = doc] /\ pc' = [pc EXCEPT ![r] = "store"] /\ status' = status
      \/ /\ resp' = [resp EXCEPT ![r] = NoDoc] /\ pc' = [pc EXCEPT ![r] = "done"]
         /\ status' = [status EXCEPT ![r] = "noDocument"]
  BY DEF Call, GoTo, Respond
<1> HIDE DEF doc
<1>b. UNCHANGED <<nonce, cert, cached, current, epoch, since, window>>
  BY DEF Call, history
<1>1. TypeOK'
  BY <1>0, <1>a, <1>b DEF IndInv, TypeOK
<1>2. CacheOK'
  BY <1>b DEF IndInv, CacheOK
<1>3. ASSUME NEW s \in Requests PROVE RequestOK(s)'
  <2>1. CASE s = r
    <3>1. /\ pc[r] = "call" /\ current \in window[r] /\ cert[r] \in window[r]
          /\ since[r] <= epoch /\ status[r] # "ok" /\ epoch \in Nat
      BY EpochAssumption DEF IndInv, TypeOK, RequestOK, Call
    <3>2. CASE resp'[r] = doc /\ pc'[r] = "store" /\ status' = status
      <4>1. Answers(resp[r], r)'
        BY <1>0, <1>b, <3>1, <3>2 DEF Answers
      <4> QED
        BY <1>b, <2>1, <3>1, <3>2, <4>1 DEF RequestOK
    <3>3. CASE pc'[r] = "done" /\ status'[r] = "noDocument"
      BY <1>b, <2>1, <3>1, <3>3 DEF RequestOK
    <3> QED
      BY <1>a, <3>2, <3>3 DEF IndInv, TypeOK
  <2>2. CASE s # r
    <3>1. Untouched(s)
      BY <1>a, <1>b, <2>2 DEF IndInv, TypeOK, Untouched
    <3> QED
      BY <3>1, UntouchedOK DEF IndInv
  <2> QED
    BY <2>1, <2>2
<1> QED
  BY <1>1, <1>2, <1>3 DEF IndInv

\* Only what was asked for without a nonce gets into the cache.
LEMMA StoreInv == ASSUME NEW r \in Requests, IndInv, Store(r) PROVE IndInv'
<1>1. TypeOK'
  BY DEF IndInv, TypeOK, Store, GoTo, Respond, history
<1>0. Answers(resp[r], r) /\ pc[r] = "store"
  BY DEF IndInv, RequestOK, Store
<1>2. CacheOK'
  BY <1>0 DEF IndInv, CacheOK, Answers, Store
<1>3. ASSUME NEW s \in Requests PROVE RequestOK(s)'
  <2>1. CASE s = r
    <3>1. current \in window[r] /\ since[r] <= epoch
      BY <1>0 DEF IndInv, RequestOK
    <3>2. UNCHANGED <<nonce, cert, current, epoch, since, window>>
      BY DEF Store, history
    <3>3. pc'[r] = "done" /\ status'[r] = "ok" /\ resp'[r] = resp[r]
      BY DEF IndInv, TypeOK, Store, GoTo, Respond, history
    <3>4. Answers(resp[r], r)'
      BY <1>0, <3>2, <3>3 DEF Answers
    <3> QED
      BY <2>1, <3>1, <3>2, <3>3, <3>4 DEF RequestOK
  <2>2. CASE s # r
    <3>1. Untouched(s)
      BY <2>2 DEF IndInv, TypeOK, Store, GoTo, Respond, history, Untouched
    <3> QED
      BY <3>1, UntouchedOK DEF IndInv
  <2> QED
    BY <2>1, <2>2
<1> QED
  BY <1>1, <1>2, <1>3 DEF IndInv

-----------------------------------------------------------------------------
\* A renewal adds to the window of every request that is under way.
LEMMA SwitchInv == IndInv /\ Switch => IndInv'
<1> SUFFICES ASSUME IndInv, Switch PROVE IndInv'
    OBVIOUS
<1> PICK c \in Certs :
         /\ current' = c
         /\ window' = [r \in Requests |-> IF pc[r] = "new" THEN window[r] ELSE window[r] \cup {c}]
    BY DEF Switch
<1>0. UNCHANGED <<pc, nonce, cert, resp, status, cached, epoch, since>>
  BY DEF Switch, request
<1>1. TypeOK'
  BY <1>0 DEF IndInv, TypeOK
<1>2. CacheOK'
  BY <1>0 DEF IndInv, CacheOK
<1>3. ASSUME NEW s \in Requests PROVE RequestOK(s)'
  <2>1. RequestOK(s)
    BY DEF IndInv
  <2>2. window[s] \subseteq window'[s] /\ (pc[s] # "new" => c \in window'[s])
    OBVIOUS
  <2> QED
    BY <1>0, <2>1, <2>2 DEF RequestOK, Answers
<1> QED
  BY <1>1, <1>2, <1>3 DEF IndInv

LEMMA ExpireInv == IndInv /\ Expire => IndInv'
<1> SUFFICES ASSUME IndInv, Expire PROVE IndInv'
    OBVIOUS
<1>0. UNCHANGED <<pc, nonce, cert, resp, status, cached, current, since, window>>
  BY DEF Expire, request, history
<1>a. epoch \in 0..MaxEpoch /\ epoch < MaxEpoch /\ epoch' = epoch + 1
  BY DEF IndInv, TypeOK, Expire
<1>1. TypeOK'
  BY <1>0, <1>a, EpochAssumption DEF IndInv, TypeOK
<1>2. CacheOK'
  <2>1. cached # NoDoc => cached.epoch \in 0..MaxEpoch
    BY DEF IndInv, TypeOK, Docs
  <2> QED
    BY <1>0, <1>a, <2>1, EpochAssumption DEF IndInv, CacheOK
<1>3. ASSUME NEW s \in Requests PROVE RequestOK(s)'
  <2>1. RequestOK(s) /\ since[s] \in 0..MaxEpoch /\ resp[s] \in Docs \cup {NoDoc}
    BY DEF IndInv, TypeOK
  <2>2. resp[s].epoch \in Nat
    BY <2>1, EpochAssumption DEF Docs, NoDoc
  <2>3. Answers(resp[s], s) => Answers(resp[s], s)'
    BY <1>0, <1>a, <2>1, <2>2, EpochAssumption DEF Answers
  <2> QED
    BY <1>0, <1>a, <2>1, <2>3, EpochAssumption DEF RequestOK
<1> QED
  BY <1>1, <1>2, <1>3 DEF IndInv

LEMMA StutterInv == IndInv /\ UNCHANGED vars => IndInv'
<1> SUFFICES ASSUME IndInv, UNCHANGED vars PROVE IndInv'
    OBVIOUS
<1>1. ASSUME NEW s \in Requests PROVE RequestOK(s)'
  <2>1. Untouched(s)
    BY DEF vars, request, history, Untouched
  <2> QED
    BY <2>1, UntouchedOK DEF IndInv
<1>2. TypeOK' /\ CacheOK'
  BY DEF vars, request, history, IndInv, TypeOK, CacheOK
<1> QED
  BY <1>1, <1>2 DEF IndInv

LEMMA Inductive == Spec => []IndInv
<1>1. ASSUME IndInv, [Next]_vars PROVE IndInv'
  <2>1. ASSUME NEW r \in Requests, GetNSMAttestations(r) PROVE IndInv'
    BY <1>1, <2>1, BeginInv, GetCertInv, TryCacheInv, ClearInv, CallInv, StoreInv
       DEF GetNSMAttestations
  <2> QED
    BY <1>1, <2>1, SwitchInv, ExpireInv, StutterInv DEF Next
<1> QED
  BY InitInv, <1>1, PTL DEF Spec

-----------------------------------------------------------------------------
\* Every variable of the endpoint keeps to its type.
THEOREM Typed == Spec => []TypeOK
<1>1. IndInv => TypeOK
  BY DEF IndInv
<1> QED
  BY Inductive, <1>1, PTL

\* GetNSMAttestations: no request is ever answered with the nonce of another,
\* or, from the cache, with any that it has not asked for.
THEOREM Own == Spec => []OwnNonce
<1>1. IndInv => OwnNonce
  BY DEF IndInv, RequestOK, Answers, OwnNonce
<1> QED
  BY Inductive, <1>1, PTL

\* isValidCache: whatever is stored late, an answer is of its request's time.
THEOREM UpToDate == Spec => []Fresh
<1>1. IndInv => Fresh
  BY DEF IndInv, RequestOK, Answers, Fresh
<1> QED
  BY Inductive, <1>1, PTL

\* getCert and isValidCache: however often the certificate is renewed, and
\* whatever of it can be marshalled, a document without one is of the time when
\* there was none.
THEOREM Unbound == Spec => []NeverBare
<1>1. IndInv => NeverBare
  BY DEF IndInv, RequestOK, Answers, NeverBare
<1> QED
  BY Inductive, <1>1, PTL
=============================================================================
