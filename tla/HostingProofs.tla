--------------------------- MODULE HostingProofs ---------------------------
(***************************************************************************)
(* Proofs about Hosting for any number of services, with any names.        *)
(*                                                                         *)
(* Run waits for names, services end.  That the two agree is what the      *)
(* invariant says: names differ once the loop is entered, an ending that   *)
(* is unread is awaited under a name of its own, and a name that is no     *)
(* longer awaited is that of a service that has ended.                     *)
(***************************************************************************)
EXTENDS Hosting, FiniteSetTheorems, TLAPS

(* Run got as far as its loop.                                             *)
Started == host = "loops" \/ result \in {"nil", "timeout"}

NotStarted ==
    ~Started => /\ \A s \in Services : service[s] = "unborn"
                /\ messages = <<>> /\ serviceErrors = <<>>

ResultOfReturn == host = "returned" <=> result # "none"

NamesDiffer ==
    Started => \A s, t \in Services : nameOf[s] = nameOf[t] => s = t

ForgottenHaveEnded ==
    Started => \A s \in Services : nameOf[s] \notin running => service[s] = "ended"

EndingsAreAwaited ==
    \A i \in 1..Len(messages) :
        /\ messages[i].name \in running
        /\ \E s \in Services : service[s] = "ended" /\ nameOf[s] = messages[i].name

EndingsDiffer ==
    \A i, j \in 1..Len(messages) : messages[i].name = messages[j].name => i = j

(* The failures that were handed on.                                       *)
ErrorsAreForgotten ==
    \A i \in 1..Len(serviceErrors) :
        /\ serviceErrors[i] \notin running
        /\ \E s \in Services : nameOf[s] = serviceErrors[i]

ErrorsDiffer ==
    \A i, j \in 1..Len(serviceErrors) : serviceErrors[i] = serviceErrors[j] => i = j

Unread(s) == \E i \in 1..Len(messages) : messages[i] = [name |-> nameOf[s], err |-> TRUE]
Handed(s) == \E i \in 1..Len(serviceErrors) : serviceErrors[i] = nameOf[s]

FailuresAreSomewhere ==
    \A s \in Services : s \in failed /\ service[s] = "ended" <=> Unread(s) \/ Handed(s)

Returned ==
    /\ result = "nil" => running = {}
    /\ timeout = "sent" => signaled
    /\ result = "timeout" => signaled
    /\ process = "crashed" => result = "timeout"

(* TypeOK but for the lengths of the channels.                             *)
TypeInv ==
    /\ nameOf   \in Namings /\ nameOf \in [Services -> Names]
    /\ caller   \in {"exits", "waits"}
    /\ process  \in {"up", "exited", "crashed"}
    /\ signaled \in BOOLEAN
    /\ service  \in [Services -> {"unborn", "runs", "stopping", "sends", "ended"}]
    /\ failed   \subseteq Services
    /\ streams  \in BOOLEAN
    /\ host     \in {"checks", "loops", "returned"}
    /\ running  \subseteq Names
    /\ messages \in Seq(Message)
    /\ serviceErrors \in Seq(Names)
    /\ timeout  \in {"unborn", "waits", "sent"}
    /\ result   \in {"none", "nil", "noService", "duplicate", "timeout"}

EndingsInv == EndingsAreAwaited /\ EndingsDiffer
ErrorsInv  == ErrorsAreForgotten /\ ErrorsDiffer /\ FailuresAreSomewhere

IInv ==
    /\ TypeInv
    /\ NotStarted /\ ResultOfReturn /\ NamesDiffer /\ ForgottenHaveEnded
    /\ EndingsInv
    /\ ErrorsInv
    /\ Returned

-----------------------------------------------------------------------------
LEMMA InitIInv == Init => IInv
<1> SUFFICES ASSUME Init PROVE IInv
  OBVIOUS
<1>1. TypeInv
  <2>1. nameOf \in [Services -> Names]
    BY HostingAssumption DEF Init
  <2>2. messages \in Seq(Message) /\ serviceErrors \in Seq(Names)
    BY DEF Init
  <2> QED BY <2>1, <2>2 DEF Init, TypeInv
<1>2. NotStarted /\ ResultOfReturn /\ NamesDiffer /\ ForgottenHaveEnded /\ Returned
  BY DEF Init, NotStarted, Started, ResultOfReturn, NamesDiffer, ForgottenHaveEnded, Returned
<1>3. Len(messages) = 0 /\ Len(serviceErrors) = 0
  BY DEF Init
<1>4. EndingsInv
  BY <1>3 DEF EndingsInv, EndingsAreAwaited, EndingsDiffer
<1>5. ErrorsInv
  BY <1>3 DEF Init, ErrorsInv, ErrorsAreForgotten, ErrorsDiffer, FailuresAreSomewhere, Unread, Handed
<1> QED BY <1>1, <1>2, <1>4, <1>5 DEF IInv

(* The step that brings an ending into the channel.                        *)
LEMMA SendsIInv ==
    ASSUME IInv, NEW s \in Services, ServiceSends(s)
    PROVE  IInv'
<1> DEFINE ending == [name |-> nameOf[s], err |-> s \in failed]
<1>1. CASE host = "returned"
  <2>1. /\ process' = "crashed" /\ service[s] = "sends"
        /\ UNCHANGED <<service, messages, nameOf, caller, signaled, failed, streams,
                       host, running, serviceErrors, timeout, result>>
    BY <1>1 DEF ServiceSends, given
  <2>2. result = "timeout"
    BY <2>1, <1>1 DEF IInv, TypeInv, NotStarted, Started, ResultOfReturn, Returned,
                      ForgottenHaveEnded
  <2> QED
    BY <2>1, <2>2, SMT
       DEF IInv, TypeInv, NotStarted, Started, ResultOfReturn, NamesDiffer,
           ForgottenHaveEnded, EndingsInv, EndingsAreAwaited, EndingsDiffer, ErrorsInv,
           ErrorsAreForgotten, ErrorsDiffer, FailuresAreSomewhere, Unread, Handed, Returned
<1>2. CASE host # "returned"
  <2>1. /\ service[s] = "sends" /\ service' = [service EXCEPT ![s] = "ended"]
        /\ messages' = Append(messages, ending)
        /\ UNCHANGED <<process, nameOf, caller, signaled, failed, streams,
                       host, running, serviceErrors, timeout, result>>
    BY <1>2 DEF ServiceSends, given
  <2>2. ending \in Message /\ ending.name = nameOf[s]
    BY DEF IInv, TypeInv, Message
  <2>3. /\ messages' \in Seq(Message) /\ Len(messages') = Len(messages) + 1
        /\ messages'[Len(messages) + 1] = ending
        /\ \A i \in 1..Len(messages) : messages'[i] = messages[i]
        /\ Len(messages) \in Nat
    BY <2>1, <2>2 DEF IInv, TypeInv
  <2>4. TypeInv'
    BY <2>1, <2>3 DEF IInv, TypeInv
  <2>5. Started /\ Started'
    BY <2>1 DEF IInv, NotStarted, Started
  <2>6. nameOf[s] \in running
    BY <2>1, <2>5 DEF IInv, ForgottenHaveEnded
  <2>7. NotStarted' /\ ResultOfReturn' /\ NamesDiffer' /\ ForgottenHaveEnded' /\ Returned'
    BY <2>1, <2>5 DEF IInv, TypeInv, NotStarted, ResultOfReturn, NamesDiffer,
                      ForgottenHaveEnded, Returned, Started
  <2>8. \A t \in Services : service'[t] = "ended" <=> service[t] = "ended" \/ t = s
    BY <2>1 DEF IInv, TypeInv
  <2>9. EndingsAreAwaited'
    BY <2>1, <2>2, <2>3, <2>6, <2>8 DEF IInv, EndingsInv, EndingsAreAwaited
  <2>10. \A i \in 1..Len(messages) : messages[i].name # nameOf[s]
    BY <2>1, <2>5 DEF IInv, NamesDiffer, EndingsInv, EndingsAreAwaited
  <2>11. EndingsDiffer'
    BY <2>2, <2>3, <2>10 DEF IInv, EndingsInv, EndingsDiffer
  <2>12. ErrorsAreForgotten' /\ ErrorsDiffer'
    BY <2>1 DEF IInv, ErrorsInv, ErrorsAreForgotten, ErrorsDiffer
  <2>13. \A t \in Services : Handed(t)' <=> Handed(t)
    BY <2>1 DEF Handed
  <2>14. \A m : (\E i \in 1..Len(messages') : messages'[i] = m)
                  <=> (\E i \in 1..Len(messages) : messages[i] = m) \/ m = ending
    <3> HIDE DEF ending
    <3> QED BY <2>3
  <2>15. \A t \in Services : t # s => (Unread(t)' <=> Unread(t))
    <3> SUFFICES ASSUME NEW t \in Services, t # s PROVE Unread(t)' <=> Unread(t)
      OBVIOUS
    <3>1. nameOf[t] # nameOf[s]
      BY <2>5 DEF IInv, NamesDiffer
    <3>2. ending # [name |-> nameOf[t], err |-> TRUE]
      BY <3>1
    <3> QED BY <2>1, <2>14, <3>2 DEF Unread
  <2>16. Unread(s)' <=> s \in failed
    <3>1. ~Unread(s)
      BY <2>10 DEF Unread
    <3>2. CASE s \in failed
      <4>1. ending = [name |-> nameOf'[s], err |-> TRUE]
        BY <3>2, <2>1
      <4> QED BY <2>3, <3>2, <4>1 DEF Unread
    <3>3. CASE s \notin failed
      <4>1. ending # [name |-> nameOf[s], err |-> TRUE]
        BY <3>3
      <4> QED BY <2>1, <2>14, <3>1, <3>3, <4>1 DEF Unread
    <3> QED BY <3>2, <3>3
  <2>17. ~Handed(s)
    BY <2>6 DEF IInv, ErrorsInv, ErrorsAreForgotten, Handed
  <2>18. FailuresAreSomewhere'
    BY <2>1, <2>8, <2>13, <2>15, <2>16, <2>17 DEF IInv, ErrorsInv, FailuresAreSomewhere
  <2> QED
    BY <2>4, <2>7, <2>9, <2>11, <2>12, <2>18 DEF IInv, EndingsInv, ErrorsInv
<1> QED BY <1>1, <1>2

-----------------------------------------------------------------------------
(* A failure is taken from one channel and put into the other.             *)
LEMMA ReceivesIInv ==
    ASSUME IInv, HostReceives
    PROVE  IInv'
<1> DEFINE message == Head(messages)
<1>1. /\ process = "up" /\ host = "loops" /\ messages # <<>>
      /\ messages' = Tail(messages) /\ running' = running \ {message.name}
      /\ serviceErrors' = IF message.err THEN Append(serviceErrors, message.name)
                                         ELSE serviceErrors
      /\ UNCHANGED <<process, nameOf, caller, signaled, service, failed, streams,
                     host, timeout, result>>
  BY DEF HostReceives, given
<1>2. /\ Len(messages) \in Nat /\ Len(messages) > 0
      /\ messages' \in Seq(Message) /\ Len(messages') = Len(messages) - 1
      /\ \A i \in 1..Len(messages') : messages'[i] = messages[i + 1]
      /\ message = messages[1]
  BY <1>1 DEF IInv, TypeInv
<1>3. message \in Message /\ message.name \in Names /\ message.err \in BOOLEAN
  <2>1. message \in Message
    BY <1>2 DEF IInv, TypeInv
  <2> HIDE DEF message
  <2> QED BY <2>1 DEF Message
<1>4. PICK s \in Services : service[s] = "ended" /\ nameOf[s] = message.name
  BY <1>2 DEF IInv, EndingsInv, EndingsAreAwaited
<1>5. Started /\ Started'
  BY <1>1 DEF Started
<1>6. \A t \in Services : nameOf[t] = message.name => t = s
  BY <1>4, <1>5 DEF IInv, NamesDiffer
<1>7. message.name \in running
  BY <1>2 DEF IInv, EndingsInv, EndingsAreAwaited
<1>8. /\ Len(serviceErrors) \in Nat /\ serviceErrors' \in Seq(Names)
      /\ ~message.err => serviceErrors' = serviceErrors
      /\ message.err => /\ Len(serviceErrors') = Len(serviceErrors) + 1
                       /\ serviceErrors'[Len(serviceErrors) + 1] = message.name
                       /\ \A i \in 1..Len(serviceErrors) :
                            serviceErrors'[i] = serviceErrors[i]
  BY <1>1, <1>3 DEF IInv, TypeInv
<1>9. TypeInv'
  BY <1>1, <1>2, <1>8 DEF IInv, TypeInv
<1>10. NotStarted' /\ ResultOfReturn' /\ NamesDiffer' /\ Returned'
  BY <1>1, <1>5 DEF IInv, NotStarted, ResultOfReturn, NamesDiffer, Returned, Started
<1>11. ForgottenHaveEnded'
  BY <1>1, <1>4, <1>5, <1>6 DEF IInv, ForgottenHaveEnded
<1>12. \A i \in 1..Len(messages') : i + 1 \in 1..Len(messages) /\ i + 1 # 1
  BY <1>2
<1>13. \A i \in 1..Len(messages') : messages'[i].name # message.name
  BY <1>2, <1>12 DEF IInv, EndingsInv, EndingsDiffer
<1>14. EndingsAreAwaited'
  BY <1>1, <1>2, <1>12, <1>13 DEF IInv, EndingsInv, EndingsAreAwaited
<1>15. EndingsDiffer'
  BY <1>1, <1>2, <1>12 DEF IInv, EndingsInv, EndingsDiffer
<1>16. ErrorsAreForgotten'
  BY <1>1, <1>4, <1>8 DEF IInv, ErrorsInv, ErrorsAreForgotten
<1>17. \A i \in 1..Len(serviceErrors) : serviceErrors[i] # message.name
  BY <1>7 DEF IInv, ErrorsInv, ErrorsAreForgotten
<1>18. ErrorsDiffer'
  BY <1>8, <1>17 DEF IInv, ErrorsInv, ErrorsDiffer
<1>19. \A m : (\E i \in 1..Len(messages) : messages[i] = m)
              <=> (\E i \in 1..Len(messages') : messages'[i] = m) \/ m = message
  <2>1. \A i \in 1..Len(messages) : i = 1 \/ i - 1 \in 1..Len(messages')
    BY <1>2
  <2>2. \A i \in 1..Len(messages) : i = 1 \/ messages[i] = messages'[i - 1]
    BY <1>2, <2>1
  <2> HIDE DEF message
  <2> QED BY <1>2, <1>12, <2>1, <2>2
<1>20. \A t \in Services : t # s =>
          (Unread(t)' <=> Unread(t)) /\ (Handed(t)' <=> Handed(t))
  <2> SUFFICES ASSUME NEW t \in Services, t # s
               PROVE  (Unread(t)' <=> Unread(t)) /\ (Handed(t)' <=> Handed(t))
    OBVIOUS
  <2>1. nameOf[t] # message.name
    BY <1>6
  <2>2. message # [name |-> nameOf[t], err |-> TRUE]
    BY <2>1
  <2>3. Unread(t)' <=> Unread(t)
    BY <1>1, <1>19, <2>2 DEF Unread
  <2>4. Handed(t)' <=> Handed(t)
    BY <1>1, <1>3, <1>8, <2>1 DEF Handed
  <2> QED BY <2>3, <2>4
<1>21. ~Handed(s) /\ ~Unread(s)'
  <2>1. ~Handed(s)
    BY <1>4, <1>17 DEF Handed
  <2>2. ~Unread(s)'
    BY <1>1, <1>4, <1>13 DEF Unread
  <2> QED BY <2>1, <2>2
<1>22. Unread(s) <=> message.err
  <2>1. \A i \in 1..Len(messages) :
          messages[i] = [name |-> nameOf[s], err |-> TRUE] => i = 1
    BY <1>2, <1>4 DEF IInv, EndingsInv, EndingsDiffer
  <2>2. message.err => message = [name |-> nameOf[s], err |-> TRUE]
    BY <1>3, <1>4 DEF Message
  <2>3. message = [name |-> nameOf[s], err |-> TRUE] => message.err
    OBVIOUS
  <2> HIDE DEF message
  <2>4. 1 \in 1..Len(messages)
    BY <1>2
  <2>5. ASSUME message.err PROVE Unread(s)
    BY <1>2, <2>2, <2>4, <2>5 DEF Unread
  <2>6. ASSUME Unread(s) PROVE message.err
    BY <1>2, <2>1, <2>3, <2>6 DEF Unread
  <2> QED BY <1>3, <2>5, <2>6
<1>23. Handed(s)' <=> message.err
  BY <1>1, <1>3, <1>4, <1>8, <1>21 DEF Handed
<1>24. FailuresAreSomewhere'
  BY <1>1, <1>20, <1>21, <1>22, <1>23 DEF IInv, ErrorsInv, FailuresAreSomewhere
<1> QED
  BY <1>9, <1>10, <1>11, <1>14, <1>15, <1>16, <1>18, <1>24 DEF IInv, EndingsInv, ErrorsInv

(* The entry of the loop, which names that are not distinct do not pass.   *)
LEMMA StartsIInv ==
    ASSUME IInv, HostStarts
    PROVE  IInv'
<1>1. ~Started
  BY DEF IInv, ResultOfReturn, Started, HostStarts
<1>2. /\ messages = <<>> /\ serviceErrors = <<>> /\ Len(messages) = 0 /\ Len(serviceErrors) = 0
      /\ \A s \in Services : service[s] = "unborn"
  BY <1>1 DEF IInv, NotStarted
<1>3. /\ UNCHANGED <<nameOf, caller, process, signaled, failed, streams, messages,
                     serviceErrors>>
      /\ process = "up" /\ host = "checks"
  BY DEF HostStarts, given
<1>4. EndingsInv' /\ ErrorsAreForgotten' /\ ErrorsDiffer'
  BY <1>2, <1>3 DEF EndingsInv, EndingsAreAwaited, EndingsDiffer, ErrorsAreForgotten, ErrorsDiffer
<1>5. \A s \in Services : ~Unread(s)' /\ ~Handed(s)' /\ service'[s] # "ended"
  BY <1>2, <1>3 DEF Unread, Handed, HostStarts
<1>6. ErrorsInv'
  BY <1>4, <1>5 DEF ErrorsInv, FailuresAreSomewhere
<1>7. CASE /\ host' = "returned" /\ result' \in {"noService", "duplicate"}
           /\ UNCHANGED <<running, service, timeout>>
  BY <1>2, <1>3, <1>4, <1>6, <1>7, SMT
     DEF IInv, TypeInv, NotStarted, Started, ResultOfReturn, NamesDiffer,
         ForgottenHaveEnded, Returned
<1>8. CASE /\ \A s, t \in Services : nameOf[s] = nameOf[t] => s = t
           /\ host' = "loops" /\ running' = {nameOf[s] : s \in Services}
           /\ service' = [s \in Services |-> "runs"]
           /\ timeout' = "waits" /\ UNCHANGED result
  <2>1. TypeInv'
    BY <1>3, <1>8 DEF IInv, TypeInv
  <2>2. NotStarted' /\ ResultOfReturn' /\ NamesDiffer' /\ ForgottenHaveEnded' /\ Returned'
    BY <1>3, <1>8 DEF IInv, TypeInv, NotStarted, Started, ResultOfReturn, NamesDiffer,
                      ForgottenHaveEnded, Returned
  <2> QED BY <1>4, <1>6, <2>1, <2>2 DEF IInv
<1> QED
  BY <1>7, <1>8 DEF HostStarts, Returns

-----------------------------------------------------------------------------
(* The steps that touch neither channel nor names.                         *)
Channels == <<nameOf, caller, running, messages, serviceErrors>>

LEMMA ServiceIInv ==
    ASSUME IInv, UNCHANGED <<Channels, host, result, timeout, signaled, process>>,
           service' \in [Services -> {"unborn", "runs", "stopping", "sends", "ended"}],
           failed' \subseteq Services, streams' \in BOOLEAN,
           NEW s \in Services, service[s] \notin {"unborn", "ended"},
           service'[s] \notin {"unborn", "ended"},
           \A t \in Services : t # s => service'[t] = service[t] /\ (t \in failed' <=> t \in failed)
    PROVE  IInv'
<1>1. /\ UNCHANGED <<nameOf, caller, running, messages, serviceErrors>>
      /\ Started' <=> Started
      /\ Started
  BY DEF Channels, Started, IInv, NotStarted
<1>2. \A t \in Services : service'[t] = "ended" <=> service[t] = "ended"
  OBVIOUS
<1>3. TypeInv'
  BY <1>1 DEF IInv, TypeInv
<1>4. NotStarted' /\ ResultOfReturn' /\ NamesDiffer' /\ ForgottenHaveEnded' /\ Returned'
  BY <1>1, <1>2 DEF IInv, NotStarted, ResultOfReturn, NamesDiffer, ForgottenHaveEnded, Returned
<1>5. EndingsInv'
  BY <1>1, <1>2 DEF IInv, EndingsInv, EndingsAreAwaited, EndingsDiffer
<1>6. ErrorsInv'
  BY <1>1, <1>2 DEF IInv, ErrorsInv, ErrorsAreForgotten, ErrorsDiffer, FailuresAreSomewhere,
                    Unread, Handed
<1> QED BY <1>3, <1>4, <1>5, <1>6 DEF IInv

LEMMA QuietIInv ==
    ASSUME IInv, UNCHANGED <<Channels, service, failed>>,
           ResultOfReturn', Returned', NotStarted',
           Started => Started', ~Started => ~Started',
           streams' \in BOOLEAN, signaled' \in BOOLEAN,
           process' \in {"up", "exited", "crashed"},
           host' \in {"checks", "loops", "returned"},
           timeout' \in {"unborn", "waits", "sent"},
           result' \in {"none", "nil", "noService", "duplicate", "timeout"}
    PROVE  IInv'
<1>1. UNCHANGED <<nameOf, caller, running, messages, serviceErrors, service, failed>>
  BY DEF Channels
<1>2. TypeInv'
  BY <1>1 DEF IInv, TypeInv
<1>3. NamesDiffer' /\ ForgottenHaveEnded'
  BY <1>1 DEF IInv, NamesDiffer, ForgottenHaveEnded
<1>4. EndingsInv'
  BY <1>1 DEF IInv, EndingsInv, EndingsAreAwaited, EndingsDiffer
<1>5. ErrorsInv'
  BY <1>1 DEF IInv, ErrorsInv, ErrorsAreForgotten, ErrorsDiffer, FailuresAreSomewhere,
              Unread, Handed
<1> QED BY <1>2, <1>3, <1>4, <1>5 DEF IInv

LEMMA NextIInv == IInv /\ [Next]_vars => IInv'
<1> SUFFICES ASSUME IInv, [Next]_vars PROVE IInv'
  OBVIOUS
<1> USE DEF hostVars, given
<1>1. CASE HostStarts
  BY <1>1, StartsIInv
<1>2. CASE HostReceives
  BY <1>2, ReceivesIInv
<1>3. CASE HostReturns
  BY <1>3, QuietIInv DEF HostReturns, Returns, IInv, TypeInv, ResultOfReturn, Returned,
                         NotStarted, Started, Channels
<1>4. CASE TimeoutSends
  BY <1>4, QuietIInv DEF TimeoutSends, IInv, TypeInv, ResultOfReturn, Returned,
                         NotStarted, Started, Channels
<1>5. ASSUME NEW s \in Services, ServiceFails(s) PROVE IInv'
  <2>1. service' = [service EXCEPT ![s] = "sends"] /\ service[s] = "runs"
    BY <1>5 DEF ServiceFails
  <2> QED BY <1>5, <2>1, ServiceIInv DEF ServiceFails, IInv, TypeInv, Channels
<1>6. ASSUME NEW s \in Services, ServiceStops(s) PROVE IInv'
  <2>1. service' = [service EXCEPT ![s] = "sends"] /\ service[s] \in {"runs", "stopping"}
    BY <1>6 DEF ServiceStops
  <2> QED BY <1>6, <2>1, ServiceIInv DEF ServiceStops, IInv, TypeInv, Channels
<1>7. ASSUME NEW s \in Services, ServiceSends(s) PROVE IInv'
  BY <1>7, SendsIInv
<1>8. CASE GracefulStop
  <2>1. /\ service' = [service EXCEPT ![Grpc] = "stopping"]
        /\ Grpc \in Services /\ service[Grpc] = "runs"
    BY <1>8 DEF GracefulStop
  <2> QED BY <1>8, <2>1, ServiceIInv DEF GracefulStop, IInv, TypeInv, Channels
<1>9. CASE AgentWatches \/ AgentLeaves
  BY <1>9, QuietIInv DEF AgentWatches, AgentLeaves, IInv, TypeInv, ResultOfReturn, Returned,
                         NotStarted, Started, Channels
<1>10. CASE Signal
  BY <1>10, QuietIInv DEF Signal, IInv, TypeInv, ResultOfReturn, Returned,
                          NotStarted, Started, Channels
<1>11. CASE MainReturns
  BY <1>11, QuietIInv DEF MainReturns, IInv, TypeInv, ResultOfReturn, Returned,
                          NotStarted, Started, Channels
<1>12. CASE UNCHANGED vars
  BY <1>12, QuietIInv DEF vars, IInv, TypeInv, ResultOfReturn, Returned,
                          NotStarted, Started, Channels
<1> QED
  BY <1>1, <1>2, <1>3, <1>4, <1>5, <1>6, <1>7, <1>8, <1>9, <1>10, <1>11, <1>12 DEF Next

(* The invariant holds whatever services there are and however they end    *)
(* (pkg/components/hosting/hosting.go).                                    *)
THEOREM Invariant == Spec => []IInv
<1> QED BY InitIInv, NextIInv, PTL DEF Spec

-----------------------------------------------------------------------------
(* Names that differ are as many as services at most.                      *)
LEMMA NamesFit ==
    ASSUME NEW n \in Nat, NEW name,
           \A i \in 1..n : \E s \in Services : nameOf[s] = name[i],
           \A i, j \in 1..n : name[i] = name[j] => i = j
    PROVE  n <= Cardinality(Services)
<1> DEFINE of == [i \in 1..n |-> CHOOSE s \in Services : nameOf[s] = name[i]]
<1>1. \A i \in 1..n : of[i] \in Services /\ nameOf[of[i]] = name[i]
  OBVIOUS
<1>2. of \in [1..n -> Services]
  BY <1>1
<1>3. of \in Injection(1..n, Services)
  BY <1>1, <1>2 DEF Injection, IsInjective
<1>4. Cardinality(1..n) <= Cardinality(Services)
  BY <1>3, FS_Injection, HostingAssumption
<1>5. Cardinality(1..n) = n
  BY FS_Interval
<1> QED BY <1>4, <1>5

LEMMA ChannelsFit ==
    ASSUME IInv
    PROVE  /\ Len(messages) <= Cardinality(Services)
           /\ Len(serviceErrors) <= Cardinality(Services)
           /\ host = "loops" /\ messages # <<>> => Len(serviceErrors) < Cardinality(Services)
<1>1. Len(messages) \in Nat /\ Len(serviceErrors) \in Nat /\ Cardinality(Services) \in Nat
  BY HostingAssumption, FS_CardinalityType DEF IInv, TypeInv
<1>2. Len(messages) <= Cardinality(Services)
  <2> DEFINE name == [i \in 1..Len(messages) |-> messages[i].name]
  <2>1. \A i \in 1..Len(messages) : \E s \in Services : nameOf[s] = name[i]
    BY DEF IInv, EndingsInv, EndingsAreAwaited
  <2>2. \A i, j \in 1..Len(messages) : name[i] = name[j] => i = j
    BY DEF IInv, EndingsInv, EndingsDiffer
  <2> HIDE DEF name
  <2> QED BY <1>1, <2>1, <2>2, NamesFit
<1>3. Len(serviceErrors) <= Cardinality(Services)
  <2>1. \A i \in 1..Len(serviceErrors) : \E s \in Services : nameOf[s] = serviceErrors[i]
    BY DEF IInv, ErrorsInv, ErrorsAreForgotten
  <2>2. \A i, j \in 1..Len(serviceErrors) : serviceErrors[i] = serviceErrors[j] => i = j
    BY DEF IInv, ErrorsInv, ErrorsDiffer
  <2> QED BY <1>1, <2>1, <2>2, NamesFit
<1>4. ASSUME host = "loops", messages # <<>>
      PROVE  Len(serviceErrors) < Cardinality(Services)
  <2> DEFINE n == Len(serviceErrors) + 1
             name == [i \in 1..n |-> IF i = n THEN messages[1].name ELSE serviceErrors[i]]
  <2>1. 1 \in 1..Len(messages)
    BY <1>4 DEF IInv, TypeInv
  <2>2. messages[1].name \in running /\ \E s \in Services : nameOf[s] = messages[1].name
    BY <2>1 DEF IInv, EndingsInv, EndingsAreAwaited
  <2>3. \A i \in 1..n : i = n \/ i \in 1..Len(serviceErrors)
    BY <1>1
  <2>4. \A i \in 1..n : \E s \in Services : nameOf[s] = name[i]
    BY <2>2, <2>3 DEF IInv, ErrorsInv, ErrorsAreForgotten
  <2>5. \A i \in 1..Len(serviceErrors) : serviceErrors[i] # messages[1].name
    BY <2>2 DEF IInv, ErrorsInv, ErrorsAreForgotten
  <2>6. \A i, j \in 1..n : name[i] = name[j] => i = j
    BY <2>3, <2>5 DEF IInv, ErrorsInv, ErrorsDiffer
  <2>7. n \in Nat
    BY <1>1
  <2>8. n <= Cardinality(Services)
    <3> HIDE DEF name, n
    <3> QED BY <2>4, <2>6, <2>7, NamesFit
  <2> QED BY <1>1, <2>8
<1> QED BY <1>2, <1>3, <1>4

(* A set of positions that are all the same has at most one element.       *)
LEMMA AtMostOne ==
    ASSUME NEW S, \A x, y \in S : x = y
    PROVE  Cardinality(S) = IF S = {} THEN 0 ELSE 1
<1>1. CASE S = {}
  BY <1>1, FS_EmptySet
<1>2. CASE S # {}
  <2>1. PICK x : S = {x}
    BY <1>2
  <2> QED BY <1>2, <2>1, FS_Singleton
<1> QED BY <1>1, <1>2

(* The invariant says of each failure where it is; that it is there once.  *)
LEMMA HandedOnce == IInv => FailuresAreHandedOn
<1> SUFFICES ASSUME IInv, host = "loops", NEW s \in Services
             PROVE  Cardinality({i \in DOMAIN messages : messages[i] = [name |-> nameOf[s], err |-> TRUE]})
                    + Cardinality({i \in DOMAIN serviceErrors : serviceErrors[i] = nameOf[s]})
                      = IF s \in failed /\ service[s] = "ended" THEN 1 ELSE 0
  BY DEF FailuresAreHandedOn
<1> DEFINE U == {i \in DOMAIN messages : messages[i] = [name |-> nameOf[s], err |-> TRUE]}
           H == {i \in DOMAIN serviceErrors : serviceErrors[i] = nameOf[s]}
<1>1. DOMAIN messages = 1..Len(messages) /\ DOMAIN serviceErrors = 1..Len(serviceErrors)
  BY DEF IInv, TypeInv
<1>2. (U # {} <=> Unread(s)) /\ (H # {} <=> Handed(s))
  BY <1>1 DEF Unread, Handed
<1>3. Cardinality(U) = IF U = {} THEN 0 ELSE 1
  <2>1. \A i, j \in U : i = j
    BY <1>1 DEF IInv, EndingsInv, EndingsDiffer
  <2> HIDE DEF U
  <2> QED BY <2>1, AtMostOne
<1>4. Cardinality(H) = IF H = {} THEN 0 ELSE 1
  <2>1. \A i, j \in H : i = j
    BY <1>1 DEF IInv, ErrorsInv, ErrorsDiffer
  <2> HIDE DEF H
  <2> QED BY <2>1, AtMostOne
<1>5. ~(Unread(s) /\ Handed(s))
  <2>1. Unread(s) => nameOf[s] \in running
    BY DEF Unread, IInv, EndingsInv, EndingsAreAwaited
  <2>2. Handed(s) => nameOf[s] \notin running
    BY DEF Handed, IInv, ErrorsInv, ErrorsAreForgotten
  <2> QED BY <2>1, <2>2
<1>6. s \in failed /\ service[s] = "ended" <=> Unread(s) \/ Handed(s)
  BY DEF IInv, ErrorsInv, FailuresAreSomewhere
<1> HIDE DEF U, H
<1>7. Cardinality(U) + Cardinality(H) = IF s \in failed /\ service[s] = "ended" THEN 1 ELSE 0
  BY <1>2, <1>3, <1>4, <1>5, <1>6
<1> QED BY <1>7 DEF U, H

-----------------------------------------------------------------------------
(* Every variable keeps its type, and neither channel ever holds more than *)
(* its buffer (hosting.go): no send waits.                                 *)
THEOREM TypeCorrect == Spec => []TypeOK
<1>1. IInv => TypeOK
  BY ChannelsFit DEF IInv, TypeInv, TypeOK
<1> QED BY Invariant, <1>1, PTL

(* The loop of Run never blocks when it hands a failure to the caller,     *)
(* even if the caller reads none: the buffer has room for one more.        *)
THEOREM LoopNeverBlocks ==
    Spec => [](host = "loops" /\ messages # <<>> => Len(serviceErrors) < Cardinality(Services))
<1>1. IInv => (host = "loops" /\ messages # <<>> => Len(serviceErrors) < Cardinality(Services))
  BY ChannelsFit
<1> QED BY Invariant, <1>1, PTL

(* Run returns nil only when every service has ended and every ending was  *)
(* read; it does so whether or not services failed, and the channel of     *)
(* errors then names exactly those that did (hosting.go).                  *)
THEOREM NilTellsAll == Spec => []NilMeansAllTold
<1>1. IInv => NilMeansAllTold
  <2> DEFINE told == { serviceErrors[i] : i \in DOMAIN serviceErrors }
  <2> SUFFICES ASSUME IInv, result = "nil"
               PROVE  /\ \A s \in Services : service[s] = "ended"
                      /\ messages = <<>>
                      /\ told = { nameOf[s] : s \in failed }
    BY DEF NilMeansAllTold
  <2>1. Started /\ running = {}
    BY DEF Started, IInv, Returned
  <2>2. \A s \in Services : service[s] = "ended"
    BY <2>1 DEF IInv, ForgottenHaveEnded
  <2>3. \A i \in 1..Len(messages) : FALSE
    BY <2>1 DEF IInv, EndingsInv, EndingsAreAwaited
  <2>4. Len(messages) = 0
    BY <2>3 DEF IInv, TypeInv
  <2>5. messages = <<>>
    BY <2>4 DEF IInv, TypeInv
  <2>6. DOMAIN serviceErrors = 1..Len(serviceErrors) /\ failed \subseteq Services
    BY DEF IInv, TypeInv
  <2>7. \A s \in Services : s \in failed <=> Handed(s)
    BY <2>2, <2>3 DEF IInv, ErrorsInv, FailuresAreSomewhere, Unread
  <2>8. \A s \in failed : nameOf[s] \in told
    BY <2>6, <2>7 DEF Handed
  <2>9. ASSUME NEW i \in DOMAIN serviceErrors
        PROVE  \E s \in failed : serviceErrors[i] = nameOf[s]
    <3>1. PICK s \in Services : nameOf[s] = serviceErrors[i]
      BY <2>6, <2>9 DEF IInv, ErrorsInv, ErrorsAreForgotten
    <3>2. Handed(s)
      BY <2>6, <2>9, <3>1 DEF Handed
    <3> QED BY <2>7, <3>1, <3>2
  <2>10. told = { nameOf[s] : s \in failed }
    BY <2>8, <2>9
  <2> QED BY <2>2, <2>5, <2>10
<1> QED BY Invariant, <1>1, PTL

(* While Run loops a failure that was sent is unread or was handed on,     *)
(* exactly once.                                                           *)
THEOREM NoFailureIsLost == Spec => []FailuresAreHandedOn
<1> QED BY Invariant, HandedOnce, PTL

(* Only a service that ends after the timeout brings the process down.     *)
THEOREM OnlyTheTimeoutCrashes == Spec => []CrashesOnlyAfterTimeout
<1>1. IInv => CrashesOnlyAfterTimeout
  BY DEF IInv, Returned, CrashesOnlyAfterTimeout
<1> QED BY Invariant, <1>1, PTL
=============================================================================
