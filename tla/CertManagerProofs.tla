-------------------------- MODULE CertManagerProofs --------------------------
(***************************************************************************)
(* Proofs about CertManager: the certificate never expires, whatever the   *)
(* lifetime, the duration of an order and of an outage that keep to the    *)
(* margin, and for any number of domains.                                  *)
(***************************************************************************)
EXTENDS CertManager, TLAPS

\* The age at the end of an outage, at most.
AgeAfterOutage == RenewalAge + 1 + OrderMax + Outage

\* An order that the CA refused while it was out of reach, and that will fail.
Doomed == step = "cleanUp" /\ ~solved

OrderShape ==
    /\ Ordering <=> step # "none"
    /\ step = "issue" => solved
    /\ runner = "obtaining" => spent = 0
    /\ Running => issued
    /\ runner = "renewing" /\ ~tick => spent = 0

\* No outage since the certificate was issued: orders succeed, and the first one
\* begins at the first tick past RenewalAge.
AgeBefore ==
    Running /\ caUp /\ outage = 0 =>
        /\ ~Doomed
        /\ runner = "waiting" => age <= RenewalAge + (IF tick THEN 1 ELSE 0)
        /\ runner = "renewing" => age <= RenewalAge + 1 + spent

\* During the outage every order may fail, after any time.
AgeDuring ==
    /\ ~caUp => outage <= Outage
    /\ Running /\ ~caUp => age <= RenewalAge + 1 + OrderMax + outage

\* After it the order that it caught may still fail, and the next one succeeds.
AgeAfter ==
    Running /\ caUp /\ outage # 0 =>
        /\ runner = "waiting" => age <= AgeAfterOutage + OrderMax - (IF tick THEN 0 ELSE 1)
        /\ runner = "renewing" =>
              age <= AgeAfterOutage + spent + (IF Doomed THEN 0 ELSE OrderMax)

IndInv ==
    /\ TypeOK
    /\ OrderShape
    /\ ChallengeReady
    /\ AgeBefore
    /\ AgeDuring
    /\ AgeAfter

-----------------------------------------------------------------------------
\* What the constants are, with the division out of the way.
LEMMA Margin ==
    /\ RenewalAge \in Nat /\ Life \in Nat /\ Outage \in Nat
    /\ OrderMax \in Nat /\ OrderMax >= 1
    /\ Domains \in Nat /\ Domains >= 1
    /\ AgeAfterOutage \in Nat
    /\ AgeAfterOutage + 2 * OrderMax <= Life
<1>1. RenewalAge \in Nat
  BY TimesAssumption DEF RenewalAge
<1> QED
  BY <1>1, TimesAssumption, DomainsAssumption, MarginAssumption DEF AgeAfterOutage

\* What a step may set is in its range.
LEMMA Ranges ==
    /\ 1 \in 1..Domains
    /\ 0 \in 0..Domains
    /\ \A d \in 1..Domains : d \in 0..Domains
    /\ 0 \in 0..OrderMax
  BY Margin

\* Each step keeps the types.
LEMMA TypeStep ==
    ASSUME TypeOK, [Next]_vars
    PROVE  TypeOK'
<1>1. CASE Start
  BY <1>1, Margin, Ranges DEF Start, BeginOrder, TypeOK, vars, order, ca, Ordering,
      Running, None
<1>2. CASE Present
  BY <1>2, Margin, Ranges DEF Present, TypeOK, vars, order, ca, Ordering, Running,
      None
<1>3. CASE PresentFails
  BY <1>3, Margin, Ranges DEF PresentFails, OrderFails, TypeOK, vars, order, ca,
      Ordering, Running, None
<1>4. CASE Solve
  BY <1>4, Margin, Ranges DEF Solve, TypeOK, vars, order, ca, Ordering, Running, None
<1>5. CASE SolveFails
  BY <1>5, Margin, Ranges DEF SolveFails, TypeOK, vars, order, ca, Ordering, Running,
      None
<1>6. CASE CleanUp
  BY <1>6, Margin, Ranges DEF CleanUp, OrderFails, TypeOK, vars, order, ca, Ordering,
      Running, None
<1>7. CASE Issue
  BY <1>7, Margin, Ranges DEF Issue, TypeOK, vars, order, ca, Ordering, Running, None
<1>8. CASE IssueFails
  BY <1>8, Margin, Ranges DEF IssueFails, OrderFails, TypeOK, vars, order, ca,
      Ordering, Running, None
<1>9. CASE Renew
  BY <1>9, Margin, Ranges DEF Renew, BeginOrder, NeedsRenewal, TypeOK, vars, order,
      ca, Ordering, Running, None
<1>10. CASE Finish
  BY <1>10, Margin, Ranges DEF Finish, TypeOK, vars, order, ca, Ordering, Running,
      None
<1>11. CASE Stop
  BY <1>11, Margin, Ranges DEF Stop, TypeOK, vars, order, ca, Ordering, Running, None
<1>12. CASE GoDown
  BY <1>12, Margin, Ranges DEF GoDown, TypeOK, vars, order, ca, Ordering, Running,
      None
<1>13. CASE ComeUp
  BY <1>13, Margin, Ranges DEF ComeUp, TypeOK, vars, order, ca, Ordering, Running,
      None
<1>14. CASE Pass
  BY <1>14, Margin, Ranges DEF Pass, TypeOK, vars, order, ca, Ordering, Running, None
<1>15. CASE UNCHANGED vars
  BY <1>15 DEF TypeOK, vars, order, ca, Ordering, Running, None
<1> QED
  BY <1>1, <1>2, <1>3, <1>4, <1>5, <1>6, <1>7, <1>8, <1>9, <1>10, <1>11,
      <1>12, <1>13, <1>14, <1>15 DEF Next, Order

\* Each step keeps where lego is in line with who runs it.
LEMMA ShapeStep ==
    ASSUME TypeOK, OrderShape, [Next]_vars
    PROVE  OrderShape'
<1>1. CASE Start
  BY <1>1, Margin DEF Start, BeginOrder, TypeOK, OrderShape, vars, order, ca,
      Ordering, Running, None
<1>2. CASE Present
  BY <1>2, Margin DEF Present, TypeOK, OrderShape, vars, order, ca, Ordering,
      Running, None
<1>3. CASE PresentFails
  BY <1>3, Margin DEF PresentFails, OrderFails, TypeOK, OrderShape, vars,
      order, ca, Ordering, Running, None
<1>4. CASE Solve
  BY <1>4, Margin DEF Solve, TypeOK, OrderShape, vars, order, ca, Ordering,
      Running, None
<1>5. CASE SolveFails
  BY <1>5, Margin DEF SolveFails, TypeOK, OrderShape, vars, order, ca,
      Ordering, Running, None
<1>6. CASE CleanUp
  BY <1>6, Margin DEF CleanUp, OrderFails, TypeOK, OrderShape, vars, order,
      ca, Ordering, Running, None
<1>7. CASE Issue
  BY <1>7, Margin DEF Issue, TypeOK, OrderShape, vars, order, ca, Ordering,
      Running, None
<1>8. CASE IssueFails
  BY <1>8, Margin DEF IssueFails, OrderFails, TypeOK, OrderShape, vars, order,
      ca, Ordering, Running, None
<1>9. CASE Renew
  BY <1>9, Margin DEF Renew, BeginOrder, NeedsRenewal, TypeOK, OrderShape,
      vars, order, ca, Ordering, Running, None
<1>10. CASE Finish
  BY <1>10, Margin DEF Finish, TypeOK, OrderShape, vars, order, ca, Ordering,
      Running, None
<1>11. CASE Stop
  BY <1>11, Margin DEF Stop, TypeOK, OrderShape, vars, order, ca, Ordering,
      Running, None
<1>12. CASE GoDown
  BY <1>12, Margin DEF GoDown, TypeOK, OrderShape, vars, order, ca, Ordering,
      Running, None
<1>13. CASE ComeUp
  BY <1>13, Margin DEF ComeUp, TypeOK, OrderShape, vars, order, ca, Ordering,
      Running, None
<1>14. CASE Pass
  BY <1>14, Margin DEF Pass, TypeOK, OrderShape, vars, order, ca, Ordering,
      Running, None
<1>15. CASE UNCHANGED vars
  BY <1>15 DEF TypeOK, OrderShape, vars, order, ca, Ordering, Running, None
<1> QED
  BY <1>1, <1>2, <1>3, <1>4, <1>5, <1>6, <1>7, <1>8, <1>9, <1>10, <1>11,
      <1>12, <1>13, <1>14, <1>15 DEF Next, Order

\* Each step keeps the slot in line with the order.
LEMMA SlotStep ==
    ASSUME TypeOK, OrderShape, ChallengeReady, [Next]_vars
    PROVE  ChallengeReady'
<1>1. CASE Start
  BY <1>1, Margin DEF Start, BeginOrder, TypeOK, OrderShape, ChallengeReady,
      vars, order, ca, Ordering, Running, None
<1>2. CASE Present
  BY <1>2, Margin DEF Present, TypeOK, OrderShape, ChallengeReady, vars,
      order, ca, Ordering, Running, None
<1>3. CASE PresentFails
  BY <1>3, Margin DEF PresentFails, OrderFails, TypeOK, OrderShape,
      ChallengeReady, vars, order, ca, Ordering, Running, None
<1>4. CASE Solve
  BY <1>4, Margin DEF Solve, TypeOK, OrderShape, ChallengeReady, vars, order,
      ca, Ordering, Running, None
<1>5. CASE SolveFails
  BY <1>5, Margin DEF SolveFails, TypeOK, OrderShape, ChallengeReady, vars,
      order, ca, Ordering, Running, None
<1>6. CASE CleanUp
  BY <1>6, Margin DEF CleanUp, OrderFails, TypeOK, OrderShape, ChallengeReady,
      vars, order, ca, Ordering, Running, None
<1>7. CASE Issue
  BY <1>7, Margin DEF Issue, TypeOK, OrderShape, ChallengeReady, vars, order,
      ca, Ordering, Running, None
<1>8. CASE IssueFails
  BY <1>8, Margin DEF IssueFails, OrderFails, TypeOK, OrderShape,
      ChallengeReady, vars, order, ca, Ordering, Running, None
<1>9. CASE Renew
  BY <1>9, Margin DEF Renew, BeginOrder, NeedsRenewal, TypeOK, OrderShape,
      ChallengeReady, vars, order, ca, Ordering, Running, None
<1>10. CASE Finish
  BY <1>10, Margin DEF Finish, TypeOK, OrderShape, ChallengeReady, vars,
      order, ca, Ordering, Running, None
<1>11. CASE Stop
  BY <1>11, Margin DEF Stop, TypeOK, OrderShape, ChallengeReady, vars, order,
      ca, Ordering, Running, None
<1>12. CASE GoDown
  BY <1>12, Margin DEF GoDown, TypeOK, OrderShape, ChallengeReady, vars,
      order, ca, Ordering, Running, None
<1>13. CASE ComeUp
  BY <1>13, Margin DEF ComeUp, TypeOK, OrderShape, ChallengeReady, vars,
      order, ca, Ordering, Running, None
<1>14. CASE Pass
  BY <1>14, Margin DEF Pass, TypeOK, OrderShape, ChallengeReady, vars, order,
      ca, Ordering, Running, None
<1>15. CASE UNCHANGED vars
  BY <1>15 DEF TypeOK, OrderShape, ChallengeReady, vars, order, ca, Ordering,
      Running, None
<1> QED
  BY <1>1, <1>2, <1>3, <1>4, <1>5, <1>6, <1>7, <1>8, <1>9, <1>10, <1>11,
      <1>12, <1>13, <1>14, <1>15 DEF Next, Order

\* Before an outage: the age follows from the last tick and the order.
LEMMA BeforeStep ==
    ASSUME IndInv, [Next]_vars
    PROVE  AgeBefore'
<1>1. CASE Start
  BY <1>1, Margin DEF Start, BeginOrder, IndInv, TypeOK, OrderShape,
      ChallengeReady, AgeBefore, Doomed, vars, order, ca, Ordering, Running,
      None
<1>2. CASE Present
  BY <1>2, Margin DEF Present, IndInv, TypeOK, OrderShape, ChallengeReady,
      AgeBefore, Doomed, vars, order, ca, Ordering, Running, None
<1>3. CASE PresentFails
  BY <1>3, Margin DEF PresentFails, OrderFails, IndInv, TypeOK, OrderShape,
      ChallengeReady, AgeBefore, Doomed, vars, order, ca, Ordering, Running,
      None
<1>4. CASE Solve
  BY <1>4, Margin DEF Solve, IndInv, TypeOK, OrderShape, ChallengeReady,
      AgeBefore, Doomed, vars, order, ca, Ordering, Running, None
<1>5. CASE SolveFails
  BY <1>5, Margin DEF SolveFails, IndInv, TypeOK, OrderShape, ChallengeReady,
      AgeBefore, Doomed, vars, order, ca, Ordering, Running, None
<1>6. CASE CleanUp
  BY <1>6, Margin DEF CleanUp, OrderFails, IndInv, TypeOK, OrderShape,
      ChallengeReady, AgeBefore, Doomed, vars, order, ca, Ordering, Running,
      None
<1>7. CASE Issue
  BY <1>7, Margin DEF Issue, IndInv, TypeOK, OrderShape, ChallengeReady,
      AgeBefore, Doomed, vars, order, ca, Ordering, Running, None
<1>8. CASE IssueFails
  BY <1>8, Margin DEF IssueFails, OrderFails, IndInv, TypeOK, OrderShape,
      ChallengeReady, AgeBefore, Doomed, vars, order, ca, Ordering, Running,
      None
<1>9. CASE Renew
  BY <1>9, Margin DEF Renew, BeginOrder, NeedsRenewal, IndInv, TypeOK,
      OrderShape, ChallengeReady, AgeBefore, Doomed, vars, order, ca,
      Ordering, Running, None
<1>10. CASE Finish
  BY <1>10, Margin DEF Finish, IndInv, TypeOK, OrderShape, ChallengeReady,
      AgeBefore, Doomed, vars, order, ca, Ordering, Running, None
<1>11. CASE Stop
  BY <1>11, Margin DEF Stop, IndInv, TypeOK, OrderShape, ChallengeReady,
      AgeBefore, Doomed, vars, order, ca, Ordering, Running, None
<1>12. CASE GoDown
  BY <1>12, Margin DEF GoDown, IndInv, TypeOK, OrderShape, ChallengeReady,
      AgeBefore, Doomed, vars, order, ca, Ordering, Running, None
<1>13. CASE ComeUp
  BY <1>13, Margin DEF ComeUp, IndInv, TypeOK, OrderShape, ChallengeReady,
      AgeBefore, Doomed, vars, order, ca, Ordering, Running, None
<1>14. CASE Pass
  BY <1>14, Margin DEF Pass, IndInv, TypeOK, OrderShape, ChallengeReady,
      AgeBefore, Doomed, vars, order, ca, Ordering, Running, None
<1>15. CASE UNCHANGED vars
  BY <1>15 DEF IndInv, TypeOK, OrderShape, ChallengeReady, AgeBefore, Doomed,
      vars, order, ca, Ordering, Running, None
<1> QED
  BY <1>1, <1>2, <1>3, <1>4, <1>5, <1>6, <1>7, <1>8, <1>9, <1>10, <1>11,
      <1>12, <1>13, <1>14, <1>15 DEF Next, Order

\* During an outage: the age grows with it.
LEMMA DuringStep ==
    ASSUME IndInv, [Next]_vars
    PROVE  AgeDuring'
<1>1. CASE Start
  BY <1>1, Margin DEF Start, BeginOrder, IndInv, TypeOK, OrderShape,
      AgeBefore, AgeDuring, vars, order, ca, Ordering, Running, None
<1>2. CASE Present
  BY <1>2, Margin DEF Present, IndInv, TypeOK, OrderShape, AgeBefore,
      AgeDuring, vars, order, ca, Ordering, Running, None
<1>3. CASE PresentFails
  BY <1>3, Margin DEF PresentFails, OrderFails, IndInv, TypeOK, OrderShape,
      AgeBefore, AgeDuring, vars, order, ca, Ordering, Running, None
<1>4. CASE Solve
  BY <1>4, Margin DEF Solve, IndInv, TypeOK, OrderShape, AgeBefore, AgeDuring,
      vars, order, ca, Ordering, Running, None
<1>5. CASE SolveFails
  BY <1>5, Margin DEF SolveFails, IndInv, TypeOK, OrderShape, AgeBefore,
      AgeDuring, vars, order, ca, Ordering, Running, None
<1>6. CASE CleanUp
  BY <1>6, Margin DEF CleanUp, OrderFails, IndInv, TypeOK, OrderShape,
      AgeBefore, AgeDuring, vars, order, ca, Ordering, Running, None
<1>7. CASE Issue
  BY <1>7, Margin DEF Issue, IndInv, TypeOK, OrderShape, AgeBefore, AgeDuring,
      vars, order, ca, Ordering, Running, None
<1>8. CASE IssueFails
  BY <1>8, Margin DEF IssueFails, OrderFails, IndInv, TypeOK, OrderShape,
      AgeBefore, AgeDuring, vars, order, ca, Ordering, Running, None
<1>9. CASE Renew
  BY <1>9, Margin DEF Renew, BeginOrder, NeedsRenewal, IndInv, TypeOK,
      OrderShape, AgeBefore, AgeDuring, vars, order, ca, Ordering, Running,
      None
<1>10. CASE Finish
  BY <1>10, Margin DEF Finish, IndInv, TypeOK, OrderShape, AgeBefore,
      AgeDuring, vars, order, ca, Ordering, Running, None
<1>11. CASE Stop
  BY <1>11, Margin DEF Stop, IndInv, TypeOK, OrderShape, AgeBefore, AgeDuring,
      vars, order, ca, Ordering, Running, None
<1>12. CASE GoDown
  BY <1>12, Margin DEF GoDown, IndInv, TypeOK, OrderShape, AgeBefore,
      AgeDuring, vars, order, ca, Ordering, Running, None
<1>13. CASE ComeUp
  BY <1>13, Margin DEF ComeUp, IndInv, TypeOK, OrderShape, AgeBefore,
      AgeDuring, vars, order, ca, Ordering, Running, None
<1>14. CASE Pass
  BY <1>14, Margin DEF Pass, IndInv, TypeOK, OrderShape, AgeBefore, AgeDuring,
      vars, order, ca, Ordering, Running, None
<1>15. CASE UNCHANGED vars
  BY <1>15 DEF IndInv, TypeOK, OrderShape, AgeBefore, AgeDuring, vars, order,
      ca, Ordering, Running, None
<1> QED
  BY <1>1, <1>2, <1>3, <1>4, <1>5, <1>6, <1>7, <1>8, <1>9, <1>10, <1>11,
      <1>12, <1>13, <1>14, <1>15 DEF Next, Order

\* After an outage: at most one more order fails.
LEMMA AfterStep ==
    ASSUME IndInv, [Next]_vars
    PROVE  AgeAfter'
<1>1. CASE Start
  BY <1>1, Margin DEF Start, BeginOrder, IndInv, TypeOK, OrderShape,
      ChallengeReady, AgeDuring, AgeAfter, Doomed, AgeAfterOutage, vars,
      order, ca, Ordering, Running, None
<1>2. CASE Present
  BY <1>2, Margin DEF Present, IndInv, TypeOK, OrderShape, ChallengeReady,
      AgeDuring, AgeAfter, Doomed, AgeAfterOutage, vars, order, ca, Ordering,
      Running, None
<1>3. CASE PresentFails
  BY <1>3, Margin DEF PresentFails, OrderFails, IndInv, TypeOK, OrderShape,
      ChallengeReady, AgeDuring, AgeAfter, Doomed, AgeAfterOutage, vars,
      order, ca, Ordering, Running, None
<1>4. CASE Solve
  BY <1>4, Margin DEF Solve, IndInv, TypeOK, OrderShape, ChallengeReady,
      AgeDuring, AgeAfter, Doomed, AgeAfterOutage, vars, order, ca, Ordering,
      Running, None
<1>5. CASE SolveFails
  BY <1>5, Margin DEF SolveFails, IndInv, TypeOK, OrderShape, ChallengeReady,
      AgeDuring, AgeAfter, Doomed, AgeAfterOutage, vars, order, ca, Ordering,
      Running, None
<1>6. CASE CleanUp
  BY <1>6, Margin DEF CleanUp, OrderFails, IndInv, TypeOK, OrderShape,
      ChallengeReady, AgeDuring, AgeAfter, Doomed, AgeAfterOutage, vars,
      order, ca, Ordering, Running, None
<1>7. CASE Issue
  BY <1>7, Margin DEF Issue, IndInv, TypeOK, OrderShape, ChallengeReady,
      AgeDuring, AgeAfter, Doomed, AgeAfterOutage, vars, order, ca, Ordering,
      Running, None
<1>8. CASE IssueFails
  BY <1>8, Margin DEF IssueFails, OrderFails, IndInv, TypeOK, OrderShape,
      ChallengeReady, AgeDuring, AgeAfter, Doomed, AgeAfterOutage, vars,
      order, ca, Ordering, Running, None
<1>9. CASE Renew
  BY <1>9, Margin DEF Renew, BeginOrder, NeedsRenewal, IndInv, TypeOK,
      OrderShape, ChallengeReady, AgeDuring, AgeAfter, Doomed, AgeAfterOutage,
      vars, order, ca, Ordering, Running, None
<1>10. CASE Finish
  BY <1>10, Margin DEF Finish, IndInv, TypeOK, OrderShape, ChallengeReady,
      AgeDuring, AgeAfter, Doomed, AgeAfterOutage, vars, order, ca, Ordering,
      Running, None
<1>11. CASE Stop
  BY <1>11, Margin DEF Stop, IndInv, TypeOK, OrderShape, ChallengeReady,
      AgeDuring, AgeAfter, Doomed, AgeAfterOutage, vars, order, ca, Ordering,
      Running, None
<1>12. CASE GoDown
  BY <1>12, Margin DEF GoDown, IndInv, TypeOK, OrderShape, ChallengeReady,
      AgeDuring, AgeAfter, Doomed, AgeAfterOutage, vars, order, ca, Ordering,
      Running, None
<1>13. CASE ComeUp
  BY <1>13, Margin DEF ComeUp, IndInv, TypeOK, OrderShape, ChallengeReady,
      AgeDuring, AgeAfter, Doomed, AgeAfterOutage, vars, order, ca, Ordering,
      Running, None
<1>14. CASE Pass
  BY <1>14, Margin DEF Pass, IndInv, TypeOK, OrderShape, ChallengeReady,
      AgeDuring, AgeAfter, Doomed, AgeAfterOutage, vars, order, ca, Ordering,
      Running, None
<1>15. CASE UNCHANGED vars
  BY <1>15 DEF IndInv, TypeOK, OrderShape, ChallengeReady, AgeDuring,
      AgeAfter, Doomed, AgeAfterOutage, vars, order, ca, Ordering, Running,
      None
<1> QED
  BY <1>1, <1>2, <1>3, <1>4, <1>5, <1>6, <1>7, <1>8, <1>9, <1>10, <1>11,
      <1>12, <1>13, <1>14, <1>15 DEF Next, Order

LEMMA Inductive == IndInv /\ [Next]_vars => IndInv'
  BY TypeStep, ShapeStep, SlotStep, BeforeStep, DuringStep, AfterStep DEF IndInv

LEMMA Initial == Init => IndInv
<1> SUFFICES ASSUME Init
             PROVE  IndInv
  OBVIOUS
<1>1. TypeOK
  BY Ranges DEF Init, TypeOK, None
<1>2. OrderShape
  BY DEF Init, OrderShape, Ordering, Running
<1>3. ChallengeReady
  BY DEF Init, ChallengeReady
<1>4. AgeBefore /\ AgeAfter
  BY DEF Init, AgeBefore, AgeAfter, Running
<1>5. AgeDuring
  BY DEF Init, AgeDuring, Running
<1> QED
  BY <1>1, <1>2, <1>3, <1>4, <1>5 DEF IndInv

LEMMA Invariance == Spec => []IndInv
  BY Initial, Inductive, PTL DEF Spec

-----------------------------------------------------------------------------
\* Every variable of the certificate manager keeps to its type.
THEOREM Typed == Spec => []TypeOK
<1>1. IndInv => TypeOK
  BY DEF IndInv
<1> QED
  BY <1>1, Invariance, PTL

\* The one slot of TLSALPN01Provider always holds the challenge that lego waits
\* for, and nothing between the orders, for any number of domains.
THEOREM OneSlot == Spec => []ChallengeReady
<1>1. IndInv => ChallengeReady
  BY DEF IndInv
<1> QED
  BY <1>1, Invariance, PTL

\* Renewing at 2/3 of the lifetime lets no certificate expire under runRenewal,
\* if the third that is left covers one outage and the orders around it.
THEOREM Resilient == Spec => []NeverExpired
<1>1. IndInv => NeverExpired
  <2> SUFFICES ASSUME IndInv, Running
               PROVE  issued /\ age <= Life
    BY DEF NeverExpired
  <2>1. issued
    BY DEF IndInv, OrderShape
  <2>2. age <= AgeAfterOutage + 2 * OrderMax
    BY Margin DEF IndInv, TypeOK, Running, AgeBefore, AgeDuring, AgeAfter, AgeAfterOutage
  <2>3. age <= Life
    BY <2>2, Margin DEF IndInv, TypeOK
  <2> QED
    BY <2>1, <2>3
<1> QED
  BY <1>1, Invariance, PTL
=============================================================================
