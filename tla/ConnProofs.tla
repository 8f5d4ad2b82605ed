----------------------------- MODULE ConnProofs -----------------------------
(***************************************************************************)
(* Proofs about BackendConn, for any set of clients and any number of      *)
(* unread answers.  OwnAnswers and CleanHandout are not inductive: they    *)
(* follow from what Settled says of every place in the code, not only of   *)
(* the two where a client reads or is given the connection.                *)
(***************************************************************************)
EXTENDS BackendConn, SequenceTheorems, TLAPS

\* No position query has failed on this connection and every client so far has
\* waited for its answers.
InStep == left \cap {"answer", "early"} = {}

\* Nothing is left but what an undetected statement may have left in routing mode.
Wiped == ~dirty \/ "state" \in left

\* The unread answers: none where the session or the pool has the connection to
\* itself; the one answer where the proxy waits for its own query; the client's
\* where a relay runs, one if it runs a message at a time.
Read ==
    /\ pc \in {"closed", "pooled", "given", "held", "copy", "fence", "undo", "wipe"}
         => pending = <<>>
    /\ pc \in {"ping", "lsn", "rollback", "discard"} => Len(pending) = 1
    /\ pc = "reply" =>
         /\ Len(pending) > 0
         /\ hold # "relay" => Len(pending) = 1
         /\ \A i \in 1 .. Len(pending) :
              pending[i].to = user /\ pending[i].kind # "rest"
    /\ Len(pending) > 0 => pending[Len(pending)].status = tx

\* The server's session: idle and wiped where the next client may get it, and on
\* the way there.
Calm ==
    /\ pc \in {"closed", "pooled", "ping", "given", "fence", "lsn", "wipe", "discard",
               "rollback"} => tx = "I"
    /\ pc \in {"closed", "pooled", "ping", "given", "fence", "lsn"} => Wiped
    /\ pc = "discard" => ~dirty
    /\ mode = "routing" /\ hold = "no" /\ pc \in {"reply", "held", "copy"} => Wiped

Settled == InStep => Read /\ Calm

Inv == TypeOK /\ Settled
-----------------------------------------------------------------------------
(* Answers *)

\* The empty queue of answers is a queue of answers.
LEMMA NoAnswers == <<>> \in Seq(Answer) /\ Len(<<>>) = 0
  BY EmptySeq

\* What is left of the first answer keeps its place.
LEMMA RestFacts ==
    ASSUME TypeOK, arrived > 0, pending' = [pending EXCEPT ![1].kind = "rest"]
    PROVE  pending' \in Seq(Answer) /\ Len(pending') = Len(pending)
<1>1. Len(pending) \in Nat /\ arrived \in 0 .. Len(pending) /\ pending \in Seq(Answer)
  BY LenProperties DEF TypeOK
<1>2. pending[1] \in Answer /\ 1 \in 1 .. Len(pending)
  BY <1>1, ElementOfSeq
<1>3. [pending[1] EXCEPT !.kind = "rest"] \in Answer
  BY <1>2 DEF Answer
<1>4. pending' = [pending EXCEPT ![1] = [pending[1] EXCEPT !.kind = "rest"]]
  OBVIOUS
<1>5. QED
  BY <1>1, <1>2, <1>3, <1>4, ExceptSeq

\* Append adds one answer at the end.
LEMMA SendFacts ==
    ASSUME TypeOK, NEW who \in Clients \cup {"proxy"},
           NEW kind \in {"ok", "error", "rest"}, NEW status \in {"I", "T"},
           Send(who, kind, status)
    PROVE  /\ pending' \in Seq(Answer) /\ Len(pending') = Len(pending) + 1
           /\ \A i \in 1 .. Len(pending) : pending'[i] = pending[i]
           /\ pending'[Len(pending')].to = who
           /\ pending'[Len(pending')].kind = kind
           /\ pending'[Len(pending')].status = status
           /\ arrived' = arrived /\ arrived' \in 0 .. Len(pending')
<1> DEFINE a == [to |-> who, kind |-> kind, status |-> status]
<1>1. a \in Answer
  BY DEF Answer
<1>2. pending \in Seq(Answer) /\ Len(pending) \in Nat /\ arrived \in 0 .. Len(pending)
  BY LenProperties DEF TypeOK
<1>3. pending' = Append(pending, a) /\ arrived' = arrived
  BY DEF Send
<1> HIDE DEF a
<1>4. /\ pending' \in Seq(Answer) /\ Len(pending') = Len(pending) + 1
      /\ \A i \in 1 .. Len(pending) : pending'[i] = pending[i]
      /\ pending'[Len(pending) + 1] = a
  BY <1>1, <1>2, <1>3, AppendProperties
<1>5. QED
  BY <1>2, <1>3, <1>4 DEF a

\* Take drops answers from the front.
LEMMA TakeFacts ==
    ASSUME TypeOK, NEW n \in 1 .. arrived, Take(n)
    PROVE  /\ pending' \in Seq(Answer) /\ Len(pending') = Len(pending) - n
           /\ \A i \in 1 .. Len(pending') : pending'[i] = pending[n + i]
           /\ arrived' \in 0 .. Len(pending')
<1>1. pending \in Seq(Answer) /\ Len(pending) \in Nat /\ arrived \in 0 .. Len(pending)
  BY LenProperties DEF TypeOK
<1>2. \A i \in n + 1 .. Len(pending) : pending[i] \in Answer
  BY <1>1, ElementOfSeq
<1>3. pending' = SubSeq(pending, n + 1, Len(pending)) /\ arrived' = arrived - n
  BY DEF Take
<1>4. /\ pending' \in Seq(Answer) /\ Len(pending') = Len(pending) - n
      /\ \A i \in 1 .. Len(pending') : pending'[i] = pending[n + i]
  BY <1>1, <1>2, <1>3
<1>5. QED
  BY <1>1, <1>3, <1>4

\* Reading an answer takes at least one out.
LEMMA ReadAnswerFacts ==
    ASSUME TypeOK, ReadAnswer
    PROVE  /\ pending' \in Seq(Answer) /\ Len(pending') < Len(pending)
           /\ arrived' \in 0 .. Len(pending')
<1>1. PICK n \in 1 .. arrived : Take(n)
  BY DEF ReadAnswer
<1>2. QED
  BY <1>1, TakeFacts, LenProperties DEF TypeOK

\* An error read in part keeps its place, as the ReadyForQuery that follows it.
LEMMA ReadErrorFacts ==
    ASSUME TypeOK, ReadError
    PROVE  pending' \in Seq(Answer) /\ arrived' \in 0 .. Len(pending')
<1>1. pending \in Seq(Answer) /\ Len(pending) \in Nat /\ arrived \in 0 .. Len(pending)
  BY LenProperties DEF TypeOK
<1>2. CASE pending' = [pending EXCEPT ![1].kind = "rest"] /\ arrived' = arrived
  BY <1>1, <1>2, RestFacts DEF ReadError
<1>3. ASSUME NEW n \in 1 .. arrived, Take(n)
      PROVE  pending' \in Seq(Answer) /\ arrived' \in 0 .. Len(pending')
  BY <1>3, TakeFacts
<1>4. QED
  BY <1>2, <1>3 DEF ReadError
-----------------------------------------------------------------------------
(* Types *)

\* A connection starts with the types it keeps.
LEMMA TypeInit == Init => TypeOK
<1> SUFFICES ASSUME Init PROVE TypeOK
  OBVIOUS
<1>1. pending \in Seq(Answer) /\ arrived \in 0 .. Len(pending)
  BY NoAnswers DEF Init
<1>2. QED
  BY <1>1, Zenon DEF Init, TypeOK

\* Every step keeps the types.
LEMMA TypeStep == TypeOK /\ [Next]_vars => TypeOK'
<1> SUFFICES ASSUME TypeOK, [Next]_vars PROVE TypeOK'
  OBVIOUS
<1> USE BackendConnAssumption
<1>1. CASE Arrive
  BY <1>1, LenProperties DEF Arrive, TypeOK, session
<1>2. ASSUME Close PROVE TypeOK'
  <2>1. pending' \in Seq(Answer) /\ arrived' \in 0 .. Len(pending')
    BY <1>2, NoAnswers DEF Close
  <2>2. QED
    BY <1>2, <2>1, Zenon DEF Close, TypeOK
<1>3. CASE Discard
  BY <1>2, <1>3 DEF Discard
<1>4. ASSUME NEW c \in Clients, Dial(c) PROVE TypeOK'
  BY <1>4 DEF Dial, Go, Give, TypeOK
<1>5. ASSUME NEW c \in Clients, Ping(c) PROVE TypeOK'
  <2>1. tx \in {"I", "T"}
    BY DEF TypeOK
  <2>2. pending' \in Seq(Answer) /\ arrived' \in 0 .. Len(pending')
    BY <1>5, <2>1, SendFacts DEF Ping
  <2>3. QED
    BY <1>5, <2>2 DEF Ping, Go, Give, TypeOK
<1>6. CASE StartupRelease
  BY <1>6, Zenon DEF StartupRelease, Release, TypeOK
<1>7. ASSUME NEW k \in Statements, Query(k) PROVE TypeOK'
  <2>1. PICK kind \in {"ok", "error"} :
          /\ tx' = IF kind = "error" THEN tx
                   ELSE IF k = "begin" THEN "T" ELSE IF k = "end" THEN "I" ELSE tx
          /\ dirty' = (dirty \/ (kind = "ok" /\ k \in {"set", "quiet", "extended"}))
          /\ Send(user, kind, tx')
    BY <1>7 DEF Query
  <2>2. tx' \in {"I", "T"} /\ dirty' \in BOOLEAN
    BY <2>1 DEF TypeOK
  <2>3. pending' \in Seq(Answer) /\ arrived' \in 0 .. Len(pending')
    BY <2>1, <2>2, SendFacts DEF TypeOK
  <2>4. hold' \in {"no", "loop", "relay"} /\ wrote' \in BOOLEAN
    BY <1>7 DEF Query, Hold, TypeOK
  <2>5. left' \subseteq {"answer", "state", "early"}
    BY <1>7 DEF Query, TypeOK
  <2>6. QED
    BY <1>7, <2>2, <2>3, <2>4, <2>5 DEF Query, TypeOK
<1>8. CASE Copy
  BY <1>8 DEF Copy, TypeOK
<1>9. CASE CopyData
  <2>1. pending' \in Seq(Answer) /\ arrived' \in 0 .. Len(pending')
    BY <1>9, SendFacts DEF CopyData, TypeOK
  <2>2. QED
    BY <1>9, <2>1 DEF CopyData, Go, TypeOK, session
<1>10. CASE Terminate
  BY <1>10 DEF Terminate, TypeOK, session
<1>11. CASE TerminateEarly
  <2>1. pending' \in Seq(Answer) /\ Len(pending') = Len(pending)
    <3>1. CASE pending' = pending
      BY <3>1 DEF TypeOK
    <3>2. CASE arrived > 0 /\ pending' = [pending EXCEPT ![1].kind = "rest"]
      BY <3>2, RestFacts
    <3>3. QED
      BY <1>11, <3>1, <3>2 DEF TerminateEarly
  <2>2. QED
    BY <1>11, <2>1 DEF TerminateEarly, Go, TypeOK, session
<1>12. CASE PingOK
  BY <1>12, ReadAnswerFacts DEF PingOK, Go, TypeOK, session
<1>13. CASE Relay
  <2>1. 1 \in 1 .. arrived
    BY <1>13, LenProperties DEF Relay, TypeOK
  <2>2. pending' \in Seq(Answer) /\ arrived' \in 0 .. Len(pending')
    BY <1>13, <2>1, TakeFacts DEF Relay
  <2>3. QED
    BY <1>13, <2>2, Zenon DEF Relay, Release, TypeOK, session
<1>14. CASE AskLSN
  <2>1. pending' \in Seq(Answer) /\ arrived' \in 0 .. Len(pending')
    BY <1>14, SendFacts DEF AskLSN, TypeOK
  <2>2. QED
    BY <1>14, <2>1 DEF AskLSN, Go, TypeOK, session
<1>15. CASE GotLSN
  <2>1. pending' \in Seq(Answer) /\ arrived' \in 0 .. Len(pending')
    BY <1>15, ReadAnswerFacts, ReadErrorFacts DEF GotLSN, TypeOK
  <2>2. left' \subseteq {"answer", "state", "early"}
    BY <1>15, Zenon DEF GotLSN, TypeOK
  <2>3. QED
    BY <1>15, <2>1, <2>2, Zenon DEF GotLSN, Release, TypeOK
<1>16. CASE Rollback
  <2>1. pending' \in Seq(Answer) /\ arrived' \in 0 .. Len(pending')
    BY <1>16, SendFacts DEF Rollback
  <2>2. QED
    BY <1>16, <2>1 DEF Rollback, Go, TypeOK, session
<1>17. CASE RolledBack
  <2>1. 1 \in 1 .. arrived
    BY <1>17, LenProperties DEF RolledBack, TypeOK
  <2>2. pending' \in Seq(Answer) /\ arrived' \in 0 .. Len(pending')
    BY <1>17, <2>1, TakeFacts DEF RolledBack
  <2>3. QED
    BY <1>17, <2>2 DEF RolledBack, Go, TypeOK, session
<1>18. CASE DiscardAll
  <2>1. pending' \in Seq(Answer) /\ arrived' \in 0 .. Len(pending')
    BY <1>18, SendFacts DEF DiscardAll, TypeOK
  <2>2. QED
    BY <1>18, <2>1 DEF DiscardAll, Go, TypeOK, session
<1>19. CASE Cleaned
  BY <1>19, ReadAnswerFacts, Zenon DEF Cleaned, Release, TypeOK
<1>20. CASE CleanFails
  BY <1>2, <1>20 DEF CleanFails
<1>21. CASE UNCHANGED vars
  BY <1>21 DEF vars, session, TypeOK
<1>22. QED
  BY <1>1, <1>3, <1>4, <1>5, <1>6, <1>7, <1>8, <1>9, <1>10, <1>11, <1>12, <1>13,
     <1>14, <1>15, <1>16, <1>17, <1>18, <1>19, <1>20, <1>21 DEF Next, Housekeeping
-----------------------------------------------------------------------------
(* What is in the socket and in the server's session *)

\* Before the first Dial nothing is unread and nobody holds the connection.
LEMMA SettledInit == Init => Settled
  BY NoAnswers DEF Init, Settled, Read, Calm, Wiped

\* Every step keeps Settled.
LEMMA SettledStep == TypeOK /\ TypeOK' /\ Settled /\ [Next]_vars => Settled'
<1> SUFFICES ASSUME TypeOK, TypeOK', Settled, [Next]_vars, InStep'
             PROVE  Read' /\ Calm'
  BY DEF Settled
<1> USE BackendConnAssumption
<1>0. /\ Len(pending) \in Nat /\ Len(pending') \in Nat
      /\ Len(pending) = 0 => pending = <<>>
      /\ Len(pending') = 0 => pending' = <<>>
      /\ Len(<<>>) = 0
  BY LenProperties, EmptySeq, NoAnswers DEF TypeOK
\* Only Close and Cleaned take something out of left, and the latter no exception.
<1>1. CASE Close
  BY <1>0, <1>1 DEF Close, Read, Calm, Wiped
<1>2. ASSUME ~Close PROVE InStep
  <2>1. left \cap {"answer", "early"} \subseteq left'
    BY <1>2 DEF Next, Housekeeping, Arrive, Discard, Dial, Ping, StartupRelease, Query,
       Copy, CopyData, Terminate, TerminateEarly, PingOK, Relay, AskLSN, GotLSN,
       Rollback, RolledBack, DiscardAll, Cleaned, CleanFails, vars
  <2>2. QED
    BY <2>1 DEF InStep
<1>3. SUFFICES ASSUME ~Close, Read, Calm PROVE Read' /\ Calm'
  BY <1>1, <1>2 DEF Settled
<1>4. CASE Arrive
  BY <1>3, <1>4 DEF Arrive, session, Read, Calm, Wiped
<1>5. ASSUME NEW c \in Clients, Dial(c) PROVE Read' /\ Calm'
  BY <1>0, <1>3, <1>5 DEF Dial, Go, Give, Read, Calm, Wiped
<1>6. ASSUME NEW c \in Clients, Ping(c) PROVE Read' /\ Calm'
  <2>1. tx \in {"I", "T"} /\ pending = <<>>
    BY <1>3, <1>6 DEF TypeOK, Ping, Go, Read
  <2>2. Len(pending') = 1 /\ pending'[Len(pending')].status = tx
    BY <1>0, <1>6, <2>1, SendFacts DEF Ping
  <2>3. QED
    BY <1>3, <1>6, <2>2 DEF Ping, Go, Give, Read, Calm, Wiped
<1>7. CASE StartupRelease
  BY <1>0, <1>3, <1>7 DEF StartupRelease, Release, Read, Calm, Wiped
<1>8. ASSUME NEW k \in Statements, Query(k) PROVE Read' /\ Calm'
  <2>1. PICK kind \in {"ok", "error"} :
          /\ tx' = IF kind = "error" THEN tx
                   ELSE IF k = "begin" THEN "T" ELSE IF k = "end" THEN "I" ELSE tx
          /\ dirty' = (dirty \/ (kind = "ok" /\ k \in {"set", "quiet", "extended"}))
          /\ Send(user, kind, tx')
    BY <1>8 DEF Query
  <2>2. tx' \in {"I", "T"} /\ user \in Clients \cup {"proxy"}
    BY DEF TypeOK
  <2>3. /\ Len(pending') = Len(pending) + 1
        /\ \A i \in 1 .. Len(pending) : pending'[i] = pending[i]
        /\ pending'[Len(pending')].to = user
        /\ pending'[Len(pending')].kind = kind
        /\ pending'[Len(pending')].status = tx'
    BY <2>1, <2>2, SendFacts
  <2>4. \A i \in 1 .. Len(pending) : pending[i].to = user /\ pending[i].kind # "rest"
    BY <1>0, <1>3, <1>8 DEF Query, Read
  <2>5. \A i \in 1 .. Len(pending') : pending'[i].to = user /\ pending'[i].kind # "rest"
    BY <1>0, <2>3, <2>4
  <2>6. hold' # "relay" => Len(pending') = 1
    BY <1>0, <1>3, <1>8, <2>3 DEF Query, Hold, Read
  <2>7. Read'
    BY <1>0, <1>8, <2>3, <2>5, <2>6 DEF Query, Read
  <2>8. Calm'
    BY <1>3, <1>8, <2>1, Zenon DEF Query, Hold, Calm, Wiped
  <2>9. QED
    BY <2>7, <2>8
<1>9. CASE Copy
  BY <1>3, <1>9 DEF Copy, Read, Calm, Wiped
<1>10. CASE CopyData
  <2>1. PICK kind \in {"ok", "error"} : Send(user, kind, tx)
    BY <1>10 DEF CopyData
  <2>2. tx \in {"I", "T"} /\ user \in Clients \cup {"proxy"} /\ pending = <<>>
    BY <1>3, <1>10 DEF TypeOK, CopyData, Go, Read
  <2>3. /\ Len(pending') = 1 /\ pending'[Len(pending')].to = user
        /\ pending'[Len(pending')].kind = kind /\ pending'[Len(pending')].status = tx
    BY <1>0, <2>1, <2>2, SendFacts
  <2>4. QED
    BY <1>3, <1>10, <2>3 DEF CopyData, Go, session, Read, Calm, Wiped
<1>11. CASE Terminate
  BY <1>3, <1>11 DEF Terminate, session, Read, Calm, Wiped
<1>12. CASE TerminateEarly
  BY <1>12 DEF TerminateEarly, InStep
<1>13. CASE PingOK
  <2>1. Len(pending) = 1
    BY <1>3, <1>13 DEF PingOK, Go, Read
  <2>2. pending' = <<>>
    BY <1>0, <1>13, <2>1, ReadAnswerFacts DEF PingOK
  <2>3. QED
    BY <1>0, <1>3, <1>13, <2>2 DEF PingOK, Go, session, Read, Calm, Wiped
<1>14. CASE Relay
  <2>1. 1 \in 1 .. arrived /\ pc = "reply" /\ Take(1)
    BY <1>14 DEF Relay, TypeOK
  <2>2. /\ Len(pending') = Len(pending) - 1
        /\ \A i \in 1 .. Len(pending') : pending'[i] = pending[1 + i]
    BY <2>1, TakeFacts
  <2>3. UNCHANGED <<tx, dirty, left>>
    BY <1>14 DEF Relay
  <2>4. Len(pending') > 0 => pending'[Len(pending')].status = tx
    BY <1>0, <1>3, <2>2 DEF Read
  <2>5. CASE hold = "relay" /\ UNCHANGED session
                  /\ pc' = IF Len(pending) = 1 THEN "held" ELSE "reply"
    <3>1. user' = user /\ hold' = hold /\ mode' = mode
      BY <2>5 DEF session
    <3>2. \A i \in 1 .. Len(pending') :
            pending'[i].to = user' /\ pending'[i].kind # "rest"
      BY <1>0, <1>3, <2>1, <2>2, <3>1 DEF Read
    <3>3. Read'
      BY <1>0, <1>3, <2>1, <2>2, <2>3, <2>4, <2>5, <3>1, <3>2 DEF Read
    <3>4. Calm'
      BY <1>3, <2>3, <2>5, <3>1 DEF Calm
    <3>5. QED
      BY <3>3, <3>4
  <2>6. CASE hold # "relay"
    <3>1. Len(pending) = 1 /\ pending' = <<>>
      BY <1>0, <1>3, <2>1, <2>2, <2>6 DEF Read
    <3>2. Head(pending).status = tx
      BY <1>0, <1>3, <2>1, <3>1 DEF Read
    <3>3. Read'
      BY <1>0, <1>14, <2>3, <2>6, <3>1 DEF Relay, Release, Read
    <3>4. Calm'
      BY <1>3, <1>14, <2>3, <2>6, <3>2 DEF Relay, Release, session, Calm, Wiped
    <3>5. QED
      BY <3>3, <3>4
  <2>7. QED
    BY <1>14, <2>5, <2>6 DEF Relay
<1>15. CASE AskLSN
  <2>1. PICK kind \in {"ok", "error"} : Send("proxy", kind, tx)
    BY <1>15 DEF AskLSN
  <2>2. tx \in {"I", "T"} /\ pending = <<>>
    BY <1>3, <1>15 DEF TypeOK, AskLSN, Go, Read
  <2>3. Len(pending') = 1 /\ pending'[Len(pending')].status = tx
    BY <1>0, <2>1, <2>2, SendFacts
  <2>4. QED
    BY <1>3, <1>15, <2>3 DEF AskLSN, Go, session, Read, Calm, Wiped
<1>16. CASE GotLSN
  <2>1. ReadAnswer /\ UNCHANGED left
    BY <1>16 DEF GotLSN, InStep
  <2>2. Len(pending) = 1
    BY <1>3, <1>16 DEF GotLSN, Read
  <2>3. pending' = <<>>
    BY <1>0, <2>1, <2>2, ReadAnswerFacts
  <2>4. QED
    BY <1>0, <1>3, <1>16, <2>1, <2>3 DEF GotLSN, Release, Read, Calm, Wiped
<1>17. CASE Rollback
  <2>1. pending = <<>>
    BY <1>3, <1>17 DEF Rollback, Go, Read
  <2>2. Len(pending') = 1 /\ pending'[Len(pending')].status = "I"
    BY <1>0, <1>17, <2>1, SendFacts DEF Rollback
  <2>3. QED
    BY <1>3, <1>17, <2>2 DEF Rollback, Go, session, Read, Calm, Wiped
<1>18. CASE RolledBack
  <2>1. 1 \in 1 .. arrived
    BY <1>18 DEF RolledBack, TypeOK
  <2>2. Len(pending) = 1
    BY <1>3, <1>18 DEF RolledBack, Go, Read
  <2>3. pending' = <<>>
    BY <1>0, <1>18, <2>1, <2>2, TakeFacts DEF RolledBack
  <2>4. QED
    BY <1>0, <1>3, <1>18, <2>3 DEF RolledBack, Go, session, Read, Calm, Wiped
<1>19. CASE DiscardAll
  <2>1. tx = "I" /\ pending = <<>>
    BY <1>3, <1>19 DEF DiscardAll, Go, Read, Calm
  <2>2. Len(pending') = 1 /\ pending'[Len(pending')].status = "I"
    BY <1>0, <1>19, <2>1, SendFacts DEF DiscardAll
  <2>3. QED
    BY <1>3, <1>19, <2>1, <2>2, Zenon DEF DiscardAll, Go, session, Read, Calm, Wiped
<1>20. CASE Cleaned
  <2>1. Len(pending) = 1
    BY <1>3, <1>20 DEF Cleaned, Read
  <2>2. pending' = <<>>
    BY <1>0, <1>20, <2>1, ReadAnswerFacts DEF Cleaned
  <2>3. QED
    BY <1>0, <1>3, <1>20, <2>2 DEF Cleaned, Release, Read, Calm, Wiped
<1>21. CASE UNCHANGED vars
  BY <1>3, <1>21 DEF vars, session, Read, Calm, Wiped
<1>22. QED
  BY <1>3, <1>4, <1>5, <1>6, <1>7, <1>8, <1>9, <1>10, <1>11, <1>12, <1>13, <1>14,
     <1>15, <1>16, <1>17, <1>18, <1>19, <1>20, <1>21
     DEF Next, Housekeeping, Discard, CleanFails
-----------------------------------------------------------------------------
(* Theorems *)

\* The invariant holds in every reachable state of the connection.
LEMMA ConnInvariant == Spec => []Inv
<1>1. Init => Inv
  BY TypeInit, SettledInit DEF Inv
<1>2. Inv /\ [Next]_vars => Inv'
  BY TypeStep, SettledStep DEF Inv
<1>3. QED
  BY <1>1, <1>2, PTL DEF Spec

\* Types: the connection, the server's session and the socket stay in range,
\* through pings, queries, COPY, early Terminate, clean-up and failures.
THEOREM ConnTyped == Spec => []TypeOK
<1>1. Inv => TypeOK
  BY DEF Inv
<1>2. QED
  BY <1>1, ConnInvariant, PTL

\* A client only ever reads the answers to its own queries, with the exceptions
\* OwnAnswers names: relayResponse and relayPooled never meet what Ping, Reset,
\* DiscardAll or another client has left in the socket.
THEOREM ConnOwnAnswers == Spec => []OwnAnswers
<1>1. Inv => OwnAnswers
  BY NoAnswers DEF Inv, Settled, InStep, Read, OwnAnswers
<1>2. QED
  BY <1>1, ConnInvariant, PTL

\* A borrowed connection is idle and carries no session state of the client
\* before, with the exceptions CleanHandout names.
THEOREM ConnCleanHandout == Spec => []CleanHandout
<1>1. Inv => CleanHandout
  BY DEF Inv, Settled, InStep, Calm, Wiped, CleanHandout
<1>2. QED
  BY <1>1, ConnInvariant, PTL
=============================================================================
