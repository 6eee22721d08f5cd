------------------------------ MODULE GrpcClient ------------------------------
(***************************************************************************)
(* BblfshClient: blocking calls over one gRPC channel.  parse() sets a     *)
(* deadline; version() and supportedLanguages() set none; close() is       *)
(* channel.shutdownNow().                                                  *)
(*                                                                         *)
(* The channel is gRPC's and is modelled by what the client relies on: a   *)
(* call in flight ends with the server's answer, with an error of the      *)
(* network, at its deadline, or cancelled after shutdownNow(); a call on a *)
(* channel that is shut down fails at once.  Each end is a separate step,  *)
(* so an answer races the deadline and the shutdown.  A deadline is kept:  *)
(* no second passes over a call that is due.                               *)
(***************************************************************************)
EXTENDS Naturals

CONSTANTS
  Calls,     \* calls of the client, each made once by a thread of its own
  Timeouts,  \* the timeouts callers pass, in seconds
  LastCall,  \* bound: no call is made after this second
  MaxNow     \* bound of the clock: behind the deadline of the last call

\* BblfshClient.DEFAULT_TIMEOUT_SEC
DEFAULT_TIMEOUT_SEC == 60

ASSUME ClockOutlastsDeadlines ==
  /\ Timeouts \subseteq Nat
  /\ LastCall \in Nat
  /\ MaxNow \in Nat
  /\ \A timeout \in Timeouts \cup {DEFAULT_TIMEOUT_SEC} : LastCall + timeout <= MaxNow

VARIABLES
  now,      \* the clock, in seconds
  channel,  \* the state of the channel
  call,     \* where each call is: which method, since when, until when
  answered, \* calls whose answer is on its way
  outcome   \* what the method returned or threw

vars == <<now, channel, call, answered, outcome>>

Infinity == MaxNow + 1
NotYet   == [method |-> "none", since |-> 0, timeout |-> 0]

Methods  == {"parse", "parseWithTimeout", "info"}
Outcomes == {"none", "answer", "deadlineExceeded", "networkError", "unavailable", "cancelled"}

TypeOK ==
  /\ now \in 0..MaxNow
  /\ channel \in {"open", "shutdown", "shutdownNow"}
  /\ call \in [Calls -> [method : Methods \cup {"none"}, since : 0..MaxNow,
                         timeout : Timeouts \cup {0, DEFAULT_TIMEOUT_SEC, Infinity}]]
  /\ answered \subseteq Calls
  /\ outcome \in [Calls -> Outcomes]

Init ==
  /\ now = 0
  /\ channel = "open"
  /\ call = [c \in Calls |-> NotYet]
  /\ answered = {}
  /\ outcome = [c \in Calls |-> "none"]

-----------------------------------------------------------------------------
InFlight(c) == call[c].method # "none" /\ outcome[c] = "none"
Due(c)      == InFlight(c) /\ now >= call[c].since + call[c].timeout

\* A blocking call on the stub, on an open channel or on one shut down.
Issue(c, method, timeout) ==
  /\ call[c] = NotYet
  /\ now <= LastCall
  /\ call' = [call EXCEPT ![c] = [method |-> method, since |-> now, timeout |-> timeout]]
  /\ outcome' = [outcome EXCEPT ![c] = IF channel = "open" THEN "none" ELSE "unavailable"]
  /\ UNCHANGED <<now, channel, answered>>

\* parse() with the default timeout taken for milliseconds.
ParseMillis(c) == Issue(c, "parse", 1000 * DEFAULT_TIMEOUT_SEC)

\* parse() without withDeadlineAfter.
ParseUnlimited(c) == Issue(c, "parse", Infinity)

Parse(c) == Issue(c, "parse", DEFAULT_TIMEOUT_SEC)

ParseWithTimeout(c) == \E timeout \in Timeouts : Issue(c, "parseWithTimeout", timeout)

\* version() and supportedLanguages(), on the other stub of the same channel.
Info(c) == Issue(c, "info", Infinity)

\* close() with shutdown(), which lets the calls in flight go on.
CloseGently == channel' = "shutdown" /\ UNCHANGED <<now, call, answered, outcome>>

Close == channel' = "shutdownNow" /\ UNCHANGED <<now, call, answered, outcome>>

-----------------------------------------------------------------------------
(***************************************************************************)
(* gRPC and the server.                                                    *)
(***************************************************************************)
Answer(c) ==
  /\ InFlight(c) /\ c \notin answered
  /\ answered' = answered \cup {c}
  /\ UNCHANGED <<now, channel, call, outcome>>

End(c, how) ==
  /\ InFlight(c)
  /\ outcome' = [outcome EXCEPT ![c] = how]
  /\ answered' = answered \ {c}   \* a late answer is dropped
  /\ UNCHANGED <<now, channel, call>>

Deliver(c)          == c \in answered /\ End(c, "answer")
NetworkFails(c)     == End(c, "networkError")
DeadlineExceeded(c) == Due(c) /\ End(c, "deadlineExceeded")
Cancel(c)           == channel = "shutdownNow" /\ End(c, "cancelled")

Tick ==
  /\ now < MaxNow
  /\ \A c \in Calls : ~Due(c)
  /\ now' = now + 1
  /\ UNCHANGED <<channel, call, answered, outcome>>

Client(c) == Parse(c) \/ ParseWithTimeout(c) \/ Info(c)

Ends(c) == Deliver(c) \/ NetworkFails(c) \/ DeadlineExceeded(c) \/ Cancel(c)

Next ==
  \/ \E c \in Calls : Client(c) \/ Answer(c) \/ Ends(c)
  \/ Close \/ Tick

Spec == Init /\ [][Next]_vars

(***************************************************************************)
(* Time passes, and gRPC keeps deadlines and carries out shutdownNow().    *)
(* Nothing is asked of the server or of the network.                       *)
(***************************************************************************)
Fairness ==
  /\ WF_vars(Tick)
  /\ \A c \in Calls : WF_vars(DeadlineExceeded(c)) /\ WF_vars(Cancel(c))

FairSpec == Spec /\ Fairness

-----------------------------------------------------------------------------
(***************************************************************************)
(* Properties.                                                             *)
(***************************************************************************)

\* A thread that parses gets its control back, whatever the server does: at
\* the deadline at the latest, by the default one if it gave none.
ParseReturns ==
  \A c \in Calls : InFlight(c) /\ call[c].method # "info" ~> ~InFlight(c)

\* close() ends every call, those without a deadline too: nobody is left
\* waiting on a channel that is closed.
CloseReleasesCallers ==
  \A c \in Calls : InFlight(c) /\ channel # "open" ~> ~InFlight(c)

\* What BblfshClient.scala:57 says: a default timeout of 5 seconds is applied
\* to parse().  The constant is 60, and a call may wait so long.
DefaultTimeoutIsFive ==
  \A c \in Calls : InFlight(c) /\ call[c].method = "parse" => now <= call[c].since + 5

\* What BblfshClient.scala:32-33 says of the timeout of a parse: it does not
\* have any effect.  It is the call's deadline.
TimeoutHasNoEffect ==
  \A c \in Calls : call[c].method = "parseWithTimeout" => outcome[c] # "deadlineExceeded"
=============================================================================
