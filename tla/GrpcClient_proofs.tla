--------------------------- MODULE GrpcClient_proofs ---------------------------
(***************************************************************************)
(* GrpcClient for any calls, timeouts and bounds of the clock.             *)
(***************************************************************************)
EXTENDS GrpcClient, TLAPS

CallRecord == [method : Methods \cup {"none"}, since : 0..MaxNow,
               timeout : Timeouts \cup {0, DEFAULT_TIMEOUT_SEC, Infinity}]

\* No call is made behind LastCall, and the clock does not pass a deadline:
\* it stands until whoever is due has ended.
OnTime == \A c \in Calls :
  /\ call[c].since <= LastCall /\ call[c].since <= now
  /\ InFlight(c) => now <= call[c].since + call[c].timeout

Inv == TypeOK /\ OnTime

Fits == \A c \in Calls : InFlight(c) /\ call[c].timeout # Infinity =>
                           call[c].since + call[c].timeout <= MaxNow

LEMMA TimesAreNaturals ==
  /\ LastCall \in Nat /\ MaxNow \in Nat /\ Timeouts \subseteq Nat /\ Infinity \in Nat
  /\ LastCall <= MaxNow
<1>1. /\ LastCall \in Nat /\ MaxNow \in Nat /\ Timeouts \subseteq Nat
      /\ LastCall + DEFAULT_TIMEOUT_SEC <= MaxNow
  BY ClockOutlastsDeadlines
<1> QED
  BY <1>1 DEF Infinity, DEFAULT_TIMEOUT_SEC

LEMMA InitInv == Init => Inv
BY TimesAreNaturals DEF Init, Inv, TypeOK, OnTime, InFlight, NotYet, Methods, Outcomes

LEMMA IssueInv ==
  ASSUME Inv, NEW c \in Calls, NEW method \in Methods,
         NEW timeout \in Timeouts \cup {0, DEFAULT_TIMEOUT_SEC, Infinity},
         Issue(c, method, timeout)
  PROVE  Inv'
<1> DEFINE new == [method |-> method, since |-> now, timeout |-> timeout]
<1>1. /\ call \in [Calls -> CallRecord] /\ outcome \in [Calls -> Outcomes] /\ now \in 0..MaxNow
      /\ now <= LastCall /\ now' = now /\ channel' = channel /\ answered' = answered
      /\ call' = [call EXCEPT ![c] = new]
      /\ outcome' = [outcome EXCEPT ![c] = IF channel = "open" THEN "none" ELSE "unavailable"]
  BY DEF Issue, Inv, TypeOK, CallRecord
<1>2. new \in CallRecord /\ new.since = now /\ new.timeout = timeout /\ timeout \in Nat
  BY <1>1, TimesAreNaturals DEF CallRecord, DEFAULT_TIMEOUT_SEC
<1>3. call' \in [Calls -> CallRecord] /\ outcome' \in [Calls -> Outcomes]
  BY <1>1, <1>2 DEF Outcomes
<1>4. TypeOK'
  BY <1>1, <1>3 DEF Inv, TypeOK, CallRecord
<1>5. ASSUME NEW d \in Calls \ {c}
      PROVE  /\ call'[d].since <= LastCall /\ call'[d].since <= now'
             /\ InFlight(d)' => now' <= call'[d].since + call'[d].timeout
  BY <1>1 DEF Inv, OnTime, InFlight
<1>6. /\ call'[c].since <= LastCall /\ call'[c].since <= now'
      /\ now' <= call'[c].since + call'[c].timeout
  BY <1>1, <1>2, TimesAreNaturals
<1> QED
  BY <1>4, <1>5, <1>6 DEF Inv, OnTime

LEMMA NextInv == Inv /\ [Next]_vars => Inv'
<1> SUFFICES ASSUME Inv, [Next]_vars PROVE Inv'
  OBVIOUS
<1>1. ASSUME NEW c \in Calls, Client(c) PROVE Inv'
  BY <1>1, IssueInv DEF Client, Parse, ParseWithTimeout, Info, Methods
<1>2. ASSUME NEW c \in Calls, Answer(c) PROVE Inv'
  BY <1>2 DEF Answer, Inv, TypeOK, OnTime, InFlight
<1>3. ASSUME NEW c \in Calls, NEW how \in Outcomes \ {"none"}, End(c, how) PROVE Inv'
  BY <1>3 DEF End, Inv, TypeOK, OnTime, InFlight
<1>4. ASSUME NEW c \in Calls, Ends(c) PROVE Inv'
  BY <1>3, <1>4 DEF Ends, Deliver, NetworkFails, DeadlineExceeded, Cancel, Outcomes
<1>5. CASE Close
  BY <1>5 DEF Close, Inv, TypeOK, OnTime, InFlight
<1>6. CASE Tick
  <2>1. now' = now + 1 /\ now' \in 0..MaxNow /\ now \in 0..MaxNow
        /\ call' = call /\ outcome' = outcome /\ channel' = channel /\ answered' = answered
        /\ call \in [Calls -> CallRecord]
    BY <1>6, TimesAreNaturals DEF Tick, Inv, TypeOK, CallRecord
  <2>2. ASSUME NEW c \in Calls
        PROVE  /\ call'[c].since <= LastCall /\ call'[c].since <= now'
               /\ InFlight(c)' => now' <= call'[c].since + call'[c].timeout
    <3>1. /\ call[c].since \in Nat /\ call[c].timeout \in Nat
      <4>1. call[c] \in CallRecord
        BY <2>1
      <4>2. call[c].since \in 0..MaxNow
        BY <4>1 DEF CallRecord
      <4>3. call[c].timeout \in Timeouts \cup {0, DEFAULT_TIMEOUT_SEC, Infinity}
        BY <4>1 DEF CallRecord
      <4>4. call[c].since \in Nat
        BY <4>2, TimesAreNaturals
      <4>5. Timeouts \cup {0, DEFAULT_TIMEOUT_SEC, Infinity} \subseteq Nat
        BY TimesAreNaturals DEF DEFAULT_TIMEOUT_SEC
      <4> QED
        BY <4>3, <4>4, <4>5
    <3>2. InFlight(c) => now < call[c].since + call[c].timeout
      BY <1>6, <2>1, <3>1 DEF Tick, Due
    <3> QED
      BY <2>1, <3>1, <3>2 DEF Inv, OnTime, InFlight
  <2> QED
    BY <2>1, <2>2 DEF Inv, TypeOK, OnTime
<1>7. CASE UNCHANGED vars
  BY <1>7 DEF vars, Inv, TypeOK, OnTime, InFlight
<1> QED
  BY <1>1, <1>2, <1>4, <1>5, <1>6, <1>7 DEF Next

LEMMA Invariance == Spec => []Inv
BY InitInv, NextInv, PTL DEF Spec

\* The clock, the channel and every call keep their types.
THEOREM TypeCorrect == Spec => []TypeOK
<1>1. Inv => TypeOK
  BY DEF Inv
<1> QED
  BY <1>1, Invariance, PTL

\* The bound of the clock is far enough: with any call made that waits under a
\* deadline, there is time left for the deadline to come.
THEOREM DeadlinesFit == Spec => []Fits
<1>1. ASSUME Inv, NEW c \in Calls, InFlight(c), call[c].timeout # Infinity
      PROVE  call[c].since + call[c].timeout <= MaxNow
  <2>1. /\ call[c].since \in Nat /\ call[c].since <= LastCall
        /\ call[c].timeout \in Timeouts \cup {0, DEFAULT_TIMEOUT_SEC}
    BY <1>1 DEF Inv, TypeOK, OnTime
  <2>2. call[c].timeout \in Nat /\ LastCall + call[c].timeout <= MaxNow
    BY <2>1, TimesAreNaturals, ClockOutlastsDeadlines DEF DEFAULT_TIMEOUT_SEC
  <2> QED
    BY <2>1, <2>2, TimesAreNaturals
<1>2. Inv => Fits
  BY <1>1 DEF Fits
<1> QED
  BY <1>2, Invariance, PTL
=============================================================================
