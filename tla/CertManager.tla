----------------------------- MODULE CertManager -----------------------------
(***************************************************************************)
(* The certificate of an enclave: CertManager and TLSALPN01Provider of     *)
(* pkg/certs/acme.  Start obtains it, and the goroutine runRenewal renews  *)
(* it.  An order is run by the lego library on the caller's goroutine, one *)
(* domain after the other: Present, an answer to the CA's connection,      *)
(* CleanUp; then the certificate is issued.                                *)
(*                                                                         *)
(* Time is discrete and is counted in periods of the ticker.               *)
(***************************************************************************)
EXTENDS Integers

CONSTANTS Domains,   \* how many domains the certificate is for
          Life,      \* lifetime of a certificate
          OrderMax,  \* the longest that an order takes, to succeed or to fail
          Outage     \* the longest that the CA is out of reach

\* The margin that renewing at 2/3 of the lifetime has to leave: an order that
\* the outage breaks off, the outage, the order that it still catches, and the
\* one that succeeds.
ASSUME DomainsAssumption == Domains \in Nat \ {0}
ASSUME TimesAssumption == OrderMax \in Nat \ {0} /\ Outage \in Nat /\ Life \in Nat
RenewalAge == (2 * Life) \div 3
ASSUME MarginAssumption == RenewalAge + 1 + 3 * OrderMax + Outage <= Life

VARIABLES runner,     \* Start, then runRenewal
          step, dom,  \* where lego is in an order
          solved,     \* whether the CA has accepted the challenge for dom
          challenge,  \* the provider's one slot: a domain, or None
          issued,     \* resource, certificate and leaf are set
          age,        \* of the leaf
          spent,      \* time since the order began
          tick,       \* a value is in ticker.C
          stop,       \* ctx is done
          caUp,       \* FALSE: orders fail
          outage      \* how long it has been FALSE since the certificate was issued

order == <<step, dom, solved>>
ca == <<caUp, outage>>
vars == <<runner, order, challenge, issued, age, spent, tick, stop, ca>>

None == 0
Ordering == runner \in {"obtaining", "renewing"}
Running == runner \in {"waiting", "renewing"}

Init ==
    /\ runner = "new"
    /\ step = "none" /\ dom = 1 /\ solved = FALSE
    /\ challenge = None
    /\ issued = FALSE /\ age = 0 /\ spent = 0
    /\ tick = FALSE /\ stop = FALSE
    /\ caUp = TRUE /\ outage = 0

-----------------------------------------------------------------------------
\* Start and RenewCertificate: an order begins.
BeginOrder(as) ==
    /\ runner' = as
    /\ step' = "present" /\ dom' = 1 /\ solved' = FALSE
    /\ spent' = 0

\* Mutant: a failed renewal ends the goroutine.
OrderFailsForGood ==
    /\ runner' = IF runner = "obtaining" THEN "failed" ELSE "ended"
    /\ step' = "none"
    /\ UNCHANGED <<dom, solved>>

\* Its failure is returned by Start, and only logged by runRenewal.
OrderFails ==
    /\ runner' = IF runner = "obtaining" THEN "failed" ELSE "waiting"
    /\ step' = "none"
    /\ UNCHANGED <<dom, solved>>

Start ==
    /\ runner = "new"
    /\ BeginOrder("obtaining")
    /\ UNCHANGED <<challenge, issued, age, tick, stop, ca>>

\* Mutant: the challenge of the first domain stands for all of them.
PresentFirst ==
    /\ step = "present"
    /\ challenge' = 1
    /\ step' = "solve" /\ solved' = FALSE
    /\ UNCHANGED <<runner, dom, issued, age, spent, tick, stop, ca>>

Present ==
    /\ step = "present"
    /\ challenge' = dom
    /\ step' = "solve" /\ solved' = FALSE
    /\ UNCHANGED <<runner, dom, issued, age, spent, tick, stop, ca>>

\* The order or the challenge of this domain cannot be created.
PresentFails ==
    /\ step = "present" /\ ~caUp
    /\ OrderFails
    /\ UNCHANGED <<challenge, issued, age, spent, tick, stop, ca>>

\* The CA connects to the server of the enclave, and GetCertificate answers its
\* hello for "acme-tls/1" with what the slot holds.
Solve ==
    /\ step = "solve" /\ caUp
    /\ solved' = (challenge = dom)
    /\ step' = "cleanUp"
    /\ UNCHANGED <<runner, dom, challenge, issued, age, spent, tick, stop, ca>>

\* It does not, and lego gives up; what it asks later has no effect.
SolveFails ==
    /\ step = "solve" /\ ~caUp
    /\ step' = "cleanUp"
    /\ UNCHANGED <<runner, dom, solved, challenge, issued, age, spent, tick, stop, ca>>

\* Mutant: a challenge that was not accepted stays.
CleanUpSolved ==
    /\ step = "cleanUp"
    /\ challenge' = IF solved THEN None ELSE challenge
    /\ \/ ~solved /\ OrderFails
       \/ /\ solved
          /\ IF dom < Domains THEN step' = "present" /\ dom' = dom + 1
                              ELSE step' = "issue" /\ UNCHANGED dom
          /\ UNCHANGED <<runner, solved>>
    /\ UNCHANGED <<issued, age, spent, tick, stop, ca>>

\* Called by lego whether or not the CA accepts.
CleanUp ==
    /\ step = "cleanUp"
    /\ challenge' = None
    /\ \/ ~solved /\ OrderFails
       \/ /\ solved /\ dom < Domains
          /\ step' = "present" /\ dom' = dom + 1
          /\ UNCHANGED <<runner, solved>>
       \/ /\ solved /\ dom = Domains
          /\ step' = "issue"
          /\ UNCHANGED <<runner, dom, solved>>
    /\ UNCHANGED <<issued, age, spent, tick, stop, ca>>

\* The CA issues a certificate, and switchCertificate installs it.
Issue ==
    /\ step = "issue" /\ caUp
    /\ issued' = TRUE /\ age' = 0
    /\ runner' = "waiting"
    /\ step' = "none"
    /\ outage' = 0
    /\ UNCHANGED <<dom, solved, challenge, spent, tick, stop, caUp>>

\* The CA does not, or switchCertificate cannot parse what it sent.
IssueFails ==
    /\ step = "issue" /\ ~caUp
    /\ OrderFails
    /\ UNCHANGED <<challenge, issued, age, spent, tick, stop, ca>>

-----------------------------------------------------------------------------
\* Mutant: renews only what has expired.
NeedsRenewalLate == age > Life

\* The age is past 2/3 of the lifetime.
NeedsRenewal == age > RenewalAge

\* The select of runRenewal.
Renew ==
    /\ runner = "waiting" /\ tick
    /\ tick' = FALSE
    /\ IF NeedsRenewal THEN BeginOrder("renewing") ELSE UNCHANGED <<runner, order, spent>>
    /\ UNCHANGED <<challenge, issued, age, stop, ca>>

\* Mutant: a break that leaves the select and not the loop.
FinishBreaks ==
    /\ runner = "waiting" /\ stop
    /\ UNCHANGED vars

Finish ==
    /\ runner = "waiting" /\ stop
    /\ runner' = "ended"
    /\ UNCHANGED <<order, challenge, issued, age, spent, tick, stop, ca>>

Stop ==
    /\ ~stop
    /\ stop' = TRUE
    /\ UNCHANGED <<runner, order, challenge, issued, age, spent, tick, ca>>

\* One outage in the life of a certificate.
GoDown ==
    /\ caUp /\ outage = 0
    /\ caUp' = FALSE
    /\ UNCHANGED <<runner, order, challenge, issued, age, spent, tick, stop, outage>>

\* (outage is at least 1 afterwards, so that there is not another one.)
ComeUp ==
    /\ ~caUp
    /\ caUp' = TRUE
    /\ outage' = IF outage = 0 THEN 1 ELSE outage
    /\ UNCHANGED <<runner, order, challenge, issued, age, spent, tick, stop>>

\* A period of the ticker passes.  The goroutine does not wait with a tick in
\* hand, an order and an outage keep to their bounds.
Pass ==
    /\ Running
    /\ ~(runner = "waiting" /\ (tick \/ stop))
    /\ Ordering => spent < OrderMax
    /\ ~caUp => outage < Outage
    /\ age' = age + 1
    /\ tick' = TRUE
    /\ spent' = IF Ordering THEN spent + 1 ELSE spent
    /\ outage' = IF caUp THEN outage ELSE outage + 1
    /\ UNCHANGED <<runner, order, challenge, issued, stop, caUp>>

Order ==
    Present \/ PresentFails \/ Solve \/ SolveFails \/ CleanUp \/ Issue \/ IssueFails

Next == Start \/ Order \/ Renew \/ Finish \/ Stop \/ GoDown \/ ComeUp \/ Pass

Spec == Init /\ [][Next]_vars

\* lego and the CA take their steps; runRenewal chooses at random when both its
\* channels are ready; the clock goes on and an outage ends.
Fairness ==
    /\ WF_vars(Order)
    /\ WF_vars(Renew)
    /\ SF_vars(Finish)
    /\ WF_vars(ComeUp)
    /\ WF_vars(Pass)

FairSpec == Spec /\ Fairness

-----------------------------------------------------------------------------
\* Every variable keeps to its type; the age of a certificate has no bound here.
TypeOK ==
    /\ runner \in {"new", "obtaining", "waiting", "renewing", "failed", "ended"}
    /\ step \in {"none", "present", "solve", "cleanUp", "issue"}
    /\ dom \in 1..Domains /\ solved \in BOOLEAN
    /\ challenge \in 0..Domains
    /\ issued \in BOOLEAN /\ tick \in BOOLEAN /\ stop \in BOOLEAN /\ caUp \in BOOLEAN
    /\ age \in Nat /\ spent \in 0..OrderMax /\ outage \in Nat

\* The one slot of the provider is enough for all domains and orders: it holds
\* the challenge that lego waits for whenever the CA may ask, and a challenge
\* that was refused or timed out is gone before the next order.
ChallengeReady ==
    challenge = IF step \in {"solve", "cleanUp"} THEN dom ELSE None

\* A CA that is out of reach for a while does not let the certificate expire
\* while runRenewal runs ("some resilience to CA downtime", acme.go:248).
NeverExpired == Running => issued /\ age <= Life

\* A certificate that is due is replaced, unless the goroutine is stopped.
Renewed == Running /\ NeedsRenewal ~> ~NeedsRenewal \/ stop

\* A context that is done ends the goroutine, after the order it is in, also
\* when orders take longer than the period of the ticker.
StopEnds == stop /\ Running ~> runner = "ended"
=============================================================================
