--------------------------- MODULE RetryLoopProofs ---------------------------
(***************************************************************************)
(* For every set of providers and keys and every retry count: the client   *)
(* is sent the answer to the last attempt, a provider that was tried is    *)
(* not selected again, a pool's key answered 403 is left at once, the      *)
(* attempts of a request stay within the limits of the configuration, and  *)
(* a pool's key that was given up is not tried again.                      *)
(***************************************************************************)
EXTENDS RetryLoop, FiniteSetTheorems, TLAPS

(***************************************************************************)
(* The inductive invariant.                                                *)
(***************************************************************************)

\* There is a draw left whenever the pool is asked.
DrawLeft == pc = "key" => draws < MaxDraws

InFlight == pc \in {"upstream", "streaming", "aborted", "done"}

\* While nothing was sent to the client, every answer was a refusal and the
\* last of them is kept.
Kept ==
    pc \notin {"streaming", "done", "aborted"} =>
        /\ reply = None
        /\ ~shortRetryAfter
        /\ \A i \in 1 .. Len(answers) : answers[i] \in Refusals
        /\ last = IF answers = <<>> THEN None ELSE answers[Len(answers)]

\* Every attempt has its answer, but for the one that is with the upstream.
Matched ==
    /\ pc \notin {"upstream", "directSent", "aborted"} => Len(answers) = AttemptCount
    /\ pc \in {"upstream", "directSent"} => Len(answers) + 1 = AttemptCount

LoopPlaces == {"provider", "proxy", "key", "attempt", "upstream", "keyDone",
               "providerDone", "exhausted"}
DirectPlaces == {"direct", "directKey", "directAttempt", "directSent"}

\* The two ways of a request do not mix, and without retries there is one attempt.
OnItsWay ==
    /\ pc \in LoopPlaces => retrying
    /\ pc \in DirectPlaces => ~retrying
    /\ pc \in DirectPlaces \ {"directSent"} => triedKeys = <<>>

\* The providers tried are the excluded ones and the one being tried.
ProvidersKnown ==
    /\ ProvidersTried \subseteq excludedProviders \cup {provider}
    /\ pc \in {"provider", "proxy"} => ProvidersTried \subseteq excludedProviders

\* The attempt on the key has begun.
KeyInUse == pc \in {"upstream", "keyDone", "directSent"} \/ (pc = "attempt" /\ sameKeyAttempt > 0)

\* The keys tried are the excluded ones and the one in use; a pool's key is
\* taken only when it is not excluded, and kept only after a 429.
KeysKnown ==
    /\ pc \notin {"streaming", "done", "aborted"} =>
         \A i \in 1 .. AttemptCount :
             triedKeys[i] \in excludedKeys \/ (KeyInUse /\ triedKeys[i] = <<provider, key>>)
    /\ (pc = "attempt" /\ sameKeyAttempt = 0 /\ Pooled(provider)) =>
         <<provider, key>> \notin excludedKeys
    /\ (pc = "attempt" /\ sameKeyAttempt > 0) => last = Busy

Inv ==
    /\ TypeOK
    /\ DrawLeft
    /\ Kept
    /\ Matched
    /\ OnItsWay
    /\ ReplyIsLastAnswer
    /\ ProvidersKnown
    /\ KeysKnown

(***************************************************************************)
(* The initial states.                                                     *)
(***************************************************************************)

\* What is tried is the key of a pool or the one of a provider without.
LEMMA TriedKeys ==
    /\ \A p \in Providers : \A k \in KeysOf[p] : <<p, k>> \in Tried
    /\ \A p \in Providers : <<p, SingleKey>> \in Tried
    /\ \A t \in Tried : t[1] \in Providers
BY DEF Tried, PoolKeys

\* A new request satisfies the invariant.
LEMMA InitInv == Init => Inv
<1> SUFFICES ASSUME Init PROVE Inv
  OBVIOUS
<1>1. TypeOK
  <2>1. available \in SUBSET PoolKeys /\ excludedKeys \in SUBSET Tried /\ live \in SUBSET Providers
    BY DEF Init
  <2>2. triedKeys \in Seq(Tried) /\ answers \in Seq(Answers)
    BY DEF Init
  <2>3. provider \in Providers
    BY RetryAssumption DEF Init
  <2>4. /\ streaming \in BOOLEAN /\ shortRetryAfter \in BOOLEAN
        /\ endpoint \in Endpoints /\ retrying \in BOOLEAN /\ clientAuth \in BOOLEAN
    BY Zenon DEF Init
  <2>5. pc \in Places /\ pc \notin {"attempt", "upstream", "keyDone", "directAttempt"}
    BY DEF Init, Places
  <2>6. /\ providerAttempt \in Nat /\ keyAttempt \in Nat /\ sameKeyAttempt \in Nat
        /\ draws \in 0 .. MaxDraws
    BY DEF Init, MaxDraws
  <2>7. excludedProviders \in SUBSET Providers /\ last \in {None} \cup Answers
    BY DEF Init
  <2>8. reply \in Replies
    BY DEF Init, Replies
  <2> QED
    BY <2>1, <2>2, <2>3, <2>4, <2>5, <2>6, <2>7, <2>8 DEF TypeOK
<1>2. DrawLeft /\ Kept /\ Matched /\ OnItsWay /\ ReplyIsLastAnswer
  BY DEF Init, OnItsWay, LoopPlaces, DirectPlaces, DrawLeft, MaxDraws, Kept, Matched, ReplyIsLastAnswer, AttemptCount
<1>3. ProvidersKnown /\ KeysKnown
  BY DEF Init, ProvidersKnown, KeysKnown, KeyInUse, ProvidersTried, AttemptCount
<1> QED
  BY <1>1, <1>2, <1>3 DEF Inv

(***************************************************************************)
(* The steps.                                                              *)
(***************************************************************************)

\* Every step keeps the types.
LEMMA TypeStep ==
    ASSUME Inv, [Next]_vars
    PROVE  TypeOK'
<1> USE DEF configVars, counters, excluded, target, history, outcome
<1>1. CASE SelectProvider
  BY <1>1, TriedKeys, RetryAssumption DEF Inv, TypeOK, DrawLeft, Places, Replies, Answers, Refusals, MaxDraws, SelectProvider, NoneConfigured,
     Candidates
<1>2. CASE NoProvider
  BY <1>2, TriedKeys, RetryAssumption DEF Inv, TypeOK, DrawLeft, Places, Replies, Answers, Refusals, MaxDraws, NoProvider, GiveUp
<1>3. CASE GetProxy
  BY <1>3, TriedKeys, RetryAssumption DEF Inv, TypeOK, DrawLeft, Places, Replies, Answers, Refusals, MaxDraws, GetProxy
<1>4. CASE ProxyFails
  BY <1>4, TriedKeys, RetryAssumption DEF Inv, TypeOK, DrawLeft, Places, Replies, Answers, Refusals, MaxDraws, ProxyFails, GiveUp
<1>5. CASE ProviderDone
  BY <1>5, TriedKeys, RetryAssumption DEF Inv, TypeOK, DrawLeft, Places, Replies, Answers, Refusals, MaxDraws, ProviderDone
<1>6. CASE Exhausted
  BY <1>6, TriedKeys, RetryAssumption DEF Inv, TypeOK, DrawLeft, Places, Replies, Answers, Refusals, MaxDraws, Exhausted, GiveUp
<1>7. CASE SingleKeyTurn
  BY <1>7, TriedKeys, RetryAssumption DEF Inv, TypeOK, DrawLeft, Places, Replies, Answers, Refusals, MaxDraws, SingleKeyTurn, TakeKey
<1>8. CASE DrawKey
  <2>1. PICK k \in Drawable(provider) :
          \/ /\ <<provider, k>> \notin excludedKeys
             /\ TakeKey(k)
             /\ UNCHANGED draws
          \/ /\ <<provider, k>> \in excludedKeys
             /\ draws' = draws + 1
             /\ pc' = IF draws' < MaxDraws THEN "key" ELSE "providerDone"
             /\ UNCHANGED <<key, sameKeyAttempt>>
    BY <1>8 DEF DrawKey
  <2>2. <<provider, k>> \in Tried
    BY TriedKeys DEF Drawable, Inv, TypeOK
  <2>3. CASE TakeKey(k) /\ UNCHANGED draws
    BY <1>8, <2>2, <2>3 DEF Inv, TypeOK, Places, DrawKey, TakeKey
  <2>4. CASE /\ draws' = draws + 1
             /\ pc' = IF draws' < MaxDraws THEN "key" ELSE "providerDone"
             /\ UNCHANGED <<key, sameKeyAttempt>>
    BY <1>8, <2>4 DEF Inv, TypeOK, Places, DrawLeft, MaxDraws, DrawKey
  <2> QED
    BY <2>1, <2>3, <2>4
<1>9. CASE NoKey
  BY <1>9, TriedKeys, RetryAssumption DEF Inv, TypeOK, DrawLeft, Places, Replies, Answers, Refusals, MaxDraws, NoKey
<1>10. CASE KeysSpent
  BY <1>10, TriedKeys, RetryAssumption DEF Inv, TypeOK, DrawLeft, Places, Replies, Answers, Refusals, MaxDraws, KeysSpent
<1>11. CASE KeyDone
  BY <1>11, TriedKeys, SMTT(60) DEF Inv, TypeOK, DrawLeft, Places, Replies, Answers, Refusals, MaxDraws, KeyDone
<1>12. CASE Attempt
  BY <1>12, TriedKeys, RetryAssumption DEF Inv, TypeOK, DrawLeft, Places, Replies, Answers, Refusals, MaxDraws, Attempt
<1>13. CASE LeaveKey
  BY <1>13, TriedKeys, RetryAssumption DEF Inv, TypeOK, DrawLeft, Places, Replies, Answers, Refusals, MaxDraws, LeaveKey
<1>14. ASSUME NEW status \in Refusals, Refused(status)
       PROVE  TypeOK'
  BY <1>14, TriedKeys, RetryAssumption DEF Inv, TypeOK, DrawLeft, Places, Replies, Answers, Refusals, MaxDraws, Refused, Refusal, SameKeyAgain, Escalation
<1>15. CASE Answered
  BY <1>15, TriedKeys, RetryAssumption DEF Inv, TypeOK, DrawLeft, Places, Replies, Answers, Refusals, MaxDraws, Answered
<1>16. CASE StreamEnds
  BY <1>16, TriedKeys, RetryAssumption DEF Inv, TypeOK, DrawLeft, Places, Replies, Answers, Refusals, MaxDraws, StreamEnds
<1>17. CASE BodyBreaks
  BY <1>17, TriedKeys, RetryAssumption DEF Inv, TypeOK, DrawLeft, Places, Replies, Answers, Refusals, MaxDraws, BodyBreaks
<1>18. CASE Environment
  BY <1>18, TriedKeys, RetryAssumption DEF Inv, TypeOK, DrawLeft, Places, Replies, Answers, Refusals, MaxDraws, Environment
<1>19. CASE UNCHANGED vars
  BY <1>19, TriedKeys, RetryAssumption DEF Inv, TypeOK, DrawLeft, Places, Replies, Answers, Refusals, MaxDraws, vars
<1>20. CASE DirectSelect
  BY <1>20, TriedKeys, RetryAssumption DEF Inv, TypeOK, DrawLeft, OnItsWay, DirectPlaces, Places, Replies, Answers, Refusals, MaxDraws, DirectSelect, DirectCandidates
<1>21. CASE DirectNoProvider
  BY <1>21, TriedKeys, RetryAssumption DEF Inv, TypeOK, DrawLeft, OnItsWay, DirectPlaces, Places, Replies, Answers, Refusals, MaxDraws, DirectNoProvider, Refuse
<1>22. CASE DirectKey
  BY <1>22, TriedKeys, RetryAssumption DEF Inv, TypeOK, DrawLeft, OnItsWay, DirectPlaces, Places, Replies, Answers, Refusals, MaxDraws, DirectKey, Drawable
<1>23. CASE DirectNoKey
  BY <1>23, TriedKeys, RetryAssumption DEF Inv, TypeOK, DrawLeft, OnItsWay, DirectPlaces, Places, Replies, Answers, Refusals, MaxDraws, DirectNoKey, Refuse
<1>24. CASE DirectAttempt
  BY <1>24, TriedKeys, RetryAssumption DEF Inv, TypeOK, DrawLeft, OnItsWay, DirectPlaces, Places, Replies, Answers, Refusals, MaxDraws, DirectAttempt
<1>25. ASSUME NEW status \in Answers, DirectAnswered(status)
       PROVE  TypeOK'
  BY <1>25, TriedKeys, RetryAssumption DEF Inv, TypeOK, DrawLeft, OnItsWay, DirectPlaces, Places, Replies, Answers, Refusals, MaxDraws, DirectAnswered
<1> QED
  BY <1>1, <1>2, <1>3, <1>4, <1>5, <1>6, <1>7, <1>8, <1>9, <1>10, <1>11, <1>12, <1>13, <1>14, <1>15, <1>16, <1>17, <1>18, <1>19,
     <1>20, <1>21, <1>22, <1>23, <1>24, <1>25
  DEF Next, Step, ProviderLoop, KeyLoop, AttemptLoop, Direct

\* Giving up sends the last refusal, or an error when nothing was answered.
LEMMA GiveUpReplies ==
    ASSUME Inv, NEW error \in {Unavailable, ProxyError}, GiveUp(error),
           pc \in LoopPlaces \ {"upstream"},
           UNCHANGED <<history, retrying>>
    PROVE  (DrawLeft /\ Kept /\ Matched /\ OnItsWay /\ ReplyIsLastAnswer)'
<1>1. DrawLeft' /\ Kept' /\ Matched' /\ OnItsWay'
  BY DEF Inv, GiveUp, DrawLeft, Kept, Matched, OnItsWay, LoopPlaces, DirectPlaces, AttemptCount, history
<1>2. (\A i \in 1 .. Len(answers) - 1 : answers[i] \in Refusals)'
  BY DEF Inv, ReplyIsLastAnswer, history
<1>3. CASE answers = <<>>
  <2>1. last = None /\ reply' = error /\ ~shortRetryAfter'
    BY <1>3 DEF Inv, Kept, GiveUp, LoopPlaces
  <2>2. error \notin Refusals
    BY DEF Unavailable, ProxyError, Refusals, Busy, Forbidden
  <2> QED
    BY <1>1, <1>2, <1>3, <2>1, <2>2
    DEF Inv, Matched, OnItsWay, GiveUp, ReplyIsLastAnswer, history
<1>4. CASE answers # <<>>
  <2>1. Len(answers) \in Nat \ {0}
    BY <1>4 DEF Inv, TypeOK
  <2>2. last = answers[Len(answers)] /\ last \in Refusals
    BY <1>4, <2>1 DEF Inv, Kept, LoopPlaces
  <2>3. last # None
    BY <2>2 DEF Refusals, Busy, Forbidden, None
  <2>4. reply' = last /\ shortRetryAfter'
    BY <2>3 DEF GiveUp
  <2> QED
    BY <1>1, <1>2, <1>4, <2>2, <2>4
    DEF Inv, Matched, OnItsWay, GiveUp, ReplyIsLastAnswer, history
<1> QED
  BY <1>3, <1>4

\* A refusal without an attempt leaves nothing answered.
LEMMA RefuseReplies ==
    ASSUME Inv, NEW error \in {Unavailable, ProxyError, KeysExhausted}, Refuse(error),
           pc \in DirectPlaces \ {"directSent"}
    PROVE  (DrawLeft /\ Kept /\ Matched /\ OnItsWay /\ ReplyIsLastAnswer)'
<1>1. /\ answers = <<>> /\ triedKeys = <<>>
      /\ ~shortRetryAfter /\ ~retrying
  BY DEF Inv, TypeOK, Kept, Matched, OnItsWay, DirectPlaces, AttemptCount
<1>2. /\ pc' = "done" /\ reply' = error
      /\ UNCHANGED <<answers, triedKeys, shortRetryAfter, retrying>>
  BY DEF Refuse, configVars, history
<1>3. (DrawLeft /\ Kept /\ Matched /\ OnItsWay)'
  BY <1>1, <1>2 DEF DrawLeft, Kept, Matched, OnItsWay, LoopPlaces, DirectPlaces, AttemptCount
<1> QED
  BY <1>1, <1>2, <1>3 DEF ReplyIsLastAnswer, AttemptCount

\* Every step keeps what the client will be sent.
LEMMA ReplyStep ==
    ASSUME Inv, [Next]_vars
    PROVE  (DrawLeft /\ Kept /\ Matched /\ OnItsWay /\ ReplyIsLastAnswer)'
<1> USE DEF configVars, counters, excluded, target, history, outcome
<1>1. CASE SelectProvider
  BY <1>1 DEF Inv, TypeOK, DrawLeft, Kept, Matched, OnItsWay, LoopPlaces, DirectPlaces, ReplyIsLastAnswer,
               AttemptCount, Answers, Refusals, Busy, Forbidden, Final, None, Unavailable, ProxyError, KeysExhausted, SelectProvider
<1>2. CASE NoProvider
  BY <1>2, GiveUpReplies DEF NoProvider, LoopPlaces
<1>3. CASE GetProxy
  BY <1>3 DEF Inv, TypeOK, DrawLeft, MaxDraws, Kept, Matched, OnItsWay, LoopPlaces, DirectPlaces, ReplyIsLastAnswer,
               AttemptCount, GetProxy
<1>4. CASE ProxyFails
  BY <1>4, GiveUpReplies DEF ProxyFails, LoopPlaces
<1>5. CASE ProviderDone
  BY <1>5 DEF Inv, TypeOK, DrawLeft, Kept, Matched, OnItsWay, LoopPlaces, DirectPlaces, ReplyIsLastAnswer,
               AttemptCount, Answers, Refusals, Busy, Forbidden, Final, None, Unavailable, ProxyError, KeysExhausted, ProviderDone
<1>6. CASE Exhausted
  BY <1>6, GiveUpReplies DEF Exhausted, LoopPlaces
<1>7. CASE SingleKeyTurn
  BY <1>7 DEF Inv, TypeOK, DrawLeft, Kept, Matched, OnItsWay, LoopPlaces, DirectPlaces, ReplyIsLastAnswer,
               AttemptCount, Answers, Refusals, Busy, Forbidden, Final, None, Unavailable, ProxyError, KeysExhausted, SingleKeyTurn, TakeKey
<1>8. CASE DrawKey
  BY <1>8 DEF Inv, TypeOK, DrawLeft, Kept, Matched, OnItsWay, LoopPlaces, DirectPlaces, ReplyIsLastAnswer,
               AttemptCount, Answers, Refusals, Busy, Forbidden, Final, None, Unavailable, ProxyError, KeysExhausted, DrawKey, TakeKey, MaxDraws
<1>9. CASE NoKey
  BY <1>9 DEF Inv, TypeOK, DrawLeft, Kept, Matched, OnItsWay, LoopPlaces, DirectPlaces, ReplyIsLastAnswer,
               AttemptCount, Answers, Refusals, Busy, Forbidden, Final, None, Unavailable, ProxyError, KeysExhausted, NoKey
<1>10. CASE KeysSpent
  BY <1>10 DEF Inv, TypeOK, DrawLeft, Kept, Matched, OnItsWay, LoopPlaces, DirectPlaces, ReplyIsLastAnswer,
               AttemptCount, Answers, Refusals, Busy, Forbidden, Final, None, Unavailable, ProxyError, KeysExhausted, KeysSpent
<1>11. CASE KeyDone
  BY <1>11 DEF Inv, TypeOK, DrawLeft, MaxDraws, Kept, Matched, OnItsWay, LoopPlaces, DirectPlaces, ReplyIsLastAnswer,
               AttemptCount, KeyDone
<1>12. CASE Attempt
  BY <1>12 DEF Inv, TypeOK, DrawLeft, Kept, Matched, OnItsWay, LoopPlaces, DirectPlaces, ReplyIsLastAnswer,
               AttemptCount, Answers, Refusals, Busy, Forbidden, Final, None, Unavailable, ProxyError, KeysExhausted, Attempt
<1>13. CASE LeaveKey
  BY <1>13 DEF Inv, TypeOK, DrawLeft, Kept, Matched, OnItsWay, LoopPlaces, DirectPlaces, ReplyIsLastAnswer,
               AttemptCount, Answers, Refusals, Busy, Forbidden, Final, None, Unavailable, ProxyError, KeysExhausted, LeaveKey
<1>14. ASSUME NEW status \in Refusals, Refused(status)
       PROVE  (DrawLeft /\ Kept /\ Matched /\ OnItsWay /\ ReplyIsLastAnswer)'
  BY <1>14 DEF Inv, TypeOK, DrawLeft, Kept, Matched, OnItsWay, LoopPlaces, DirectPlaces, ReplyIsLastAnswer,
               AttemptCount, Answers, Refusals, Busy, Forbidden, Final, None, Unavailable, ProxyError, KeysExhausted, Refused, Refusal, SameKeyAgain, Escalation
<1>15. CASE Answered
  BY <1>15 DEF Inv, TypeOK, DrawLeft, Kept, Matched, OnItsWay, LoopPlaces, DirectPlaces, ReplyIsLastAnswer,
               AttemptCount, Answers, Refusals, Busy, Forbidden, Final, None, Unavailable, ProxyError, KeysExhausted, Answered
<1>16. CASE StreamEnds
  BY <1>16 DEF Inv, TypeOK, DrawLeft, Kept, Matched, OnItsWay, LoopPlaces, DirectPlaces, ReplyIsLastAnswer,
               AttemptCount, Answers, Refusals, Busy, Forbidden, Final, None, Unavailable, ProxyError, KeysExhausted, StreamEnds
<1>17. CASE BodyBreaks
  BY <1>17 DEF Inv, TypeOK, DrawLeft, Kept, Matched, OnItsWay, LoopPlaces, DirectPlaces, ReplyIsLastAnswer,
               AttemptCount, Answers, Refusals, Busy, Forbidden, Final, None, Unavailable, ProxyError, KeysExhausted, BodyBreaks
<1>18. CASE Environment
  BY <1>18 DEF Inv, TypeOK, DrawLeft, Kept, Matched, OnItsWay, LoopPlaces, DirectPlaces, ReplyIsLastAnswer,
               AttemptCount, Answers, Refusals, Busy, Forbidden, Final, None, Unavailable, ProxyError, KeysExhausted, Environment
<1>19. CASE UNCHANGED vars
  BY <1>19 DEF Inv, TypeOK, DrawLeft, Kept, Matched, OnItsWay, LoopPlaces, DirectPlaces, ReplyIsLastAnswer,
               AttemptCount, Answers, Refusals, Busy, Forbidden, Final, None, Unavailable, ProxyError, KeysExhausted, vars
<1>20. CASE DirectSelect
  BY <1>20 DEF Inv, TypeOK, DrawLeft, Kept, Matched, OnItsWay, LoopPlaces, DirectPlaces, ReplyIsLastAnswer,
               AttemptCount, Answers, Refusals, Busy, Forbidden, Final, None, Unavailable, ProxyError, KeysExhausted, DirectSelect, DirectCandidates
<1>21. CASE DirectNoProvider
  BY <1>21, RefuseReplies DEF DirectNoProvider, DirectPlaces
<1>22. CASE DirectKey
  BY <1>22 DEF Inv, TypeOK, DrawLeft, Kept, Matched, OnItsWay, LoopPlaces, DirectPlaces, ReplyIsLastAnswer,
               AttemptCount, Answers, Refusals, Busy, Forbidden, Final, None, Unavailable, ProxyError, KeysExhausted, DirectKey, Drawable
<1>23. CASE DirectNoKey
  BY <1>23, RefuseReplies DEF DirectNoKey, DirectPlaces
<1>24. CASE DirectAttempt
  BY <1>24 DEF Inv, TypeOK, DrawLeft, Kept, Matched, OnItsWay, LoopPlaces, DirectPlaces, ReplyIsLastAnswer,
               AttemptCount, Answers, Refusals, Busy, Forbidden, Final, None, Unavailable, ProxyError, KeysExhausted, DirectAttempt
<1>25. ASSUME NEW status \in Answers, DirectAnswered(status)
       PROVE  (DrawLeft /\ Kept /\ Matched /\ OnItsWay /\ ReplyIsLastAnswer)'
  <2>1. /\ answers \in Seq(Answers) /\ Len(answers) + 1 = AttemptCount
        /\ ~shortRetryAfter /\ ~retrying
        /\ \A i \in 1 .. Len(answers) : answers[i] \in Refusals
    BY <1>25 DEF Inv, TypeOK, Kept, Matched, OnItsWay, DirectPlaces, DirectAnswered
  <2>2. /\ answers' = Append(answers, status) /\ reply' = status
        /\ pc' \in {"streaming", "done"}
        /\ UNCHANGED <<triedKeys, shortRetryAfter, retrying>>
    BY <1>25 DEF DirectAnswered
  <2>3. (DrawLeft /\ Kept /\ Matched /\ OnItsWay)'
    BY <2>1, <2>2 DEF DrawLeft, Kept, Matched, OnItsWay, LoopPlaces, DirectPlaces, AttemptCount
  <2>4. ReplyIsLastAnswer'
    BY <2>1, <2>2 DEF ReplyIsLastAnswer, AttemptCount
  <2> QED
    BY <2>3, <2>4
<1> QED
  BY <1>1, <1>2, <1>3, <1>4, <1>5, <1>6, <1>7, <1>8, <1>9, <1>10, <1>11, <1>12, <1>13, <1>14, <1>15, <1>16, <1>17, <1>18, <1>19,
     <1>20, <1>21, <1>22, <1>23, <1>24, <1>25
  DEF Next, Step, ProviderLoop, KeyLoop, AttemptLoop, Direct

\* Every step keeps the account of the providers and keys tried.
LEMMA KnownStep ==
    ASSUME Inv, [Next]_vars
    PROVE  (ProvidersKnown /\ KeysKnown)'
<1> USE DEF configVars, counters, excluded, target, history, outcome
<1>1. CASE SelectProvider
  BY <1>1 DEF Inv, TypeOK, ProvidersKnown, KeysKnown, KeyInUse, ProvidersTried,
               AttemptCount, Refusals, Busy, Forbidden, SelectProvider
<1>2. CASE NoProvider
  BY <1>2 DEF Inv, TypeOK, ProvidersKnown, KeysKnown, KeyInUse, ProvidersTried,
               AttemptCount, Refusals, Busy, Forbidden, NoProvider, GiveUp
<1>3. CASE GetProxy
  BY <1>3 DEF Inv, TypeOK, ProvidersKnown, KeysKnown, KeyInUse, ProvidersTried,
               AttemptCount, Refusals, Busy, Forbidden, GetProxy
<1>4. CASE ProxyFails
  BY <1>4 DEF Inv, TypeOK, ProvidersKnown, KeysKnown, KeyInUse, ProvidersTried,
               AttemptCount, Refusals, Busy, Forbidden, ProxyFails, GiveUp
<1>5. CASE ProviderDone
  BY <1>5 DEF Inv, TypeOK, ProvidersKnown, KeysKnown, KeyInUse, ProvidersTried,
               AttemptCount, Refusals, Busy, Forbidden, ProviderDone
<1>6. CASE Exhausted
  BY <1>6 DEF Inv, TypeOK, ProvidersKnown, KeysKnown, KeyInUse, ProvidersTried,
               AttemptCount, Refusals, Busy, Forbidden, Exhausted, GiveUp
<1>7. CASE SingleKeyTurn
  BY <1>7 DEF Inv, TypeOK, ProvidersKnown, KeysKnown, KeyInUse, ProvidersTried,
               AttemptCount, Refusals, Busy, Forbidden, SingleKeyTurn, TakeKey
<1>8. CASE DrawKey
  <2>1. \/ /\ pc' = "attempt" /\ sameKeyAttempt' = 0
           /\ <<provider, key'>> \notin excludedKeys
        \/ pc' \in {"key", "providerDone"}
    BY <1>8 DEF DrawKey, TakeKey
  <2>2. pc = "key" /\ UNCHANGED <<provider, excludedProviders, excludedKeys, triedKeys, last>>
    BY <1>8 DEF DrawKey
  <2>3. ProvidersKnown'
    BY <2>1, <2>2 DEF Inv, ProvidersKnown, ProvidersTried, AttemptCount
  <2>4. KeysKnown'
    BY <2>1, <2>2 DEF Inv, KeysKnown, KeyInUse, AttemptCount
  <2> QED
    BY <2>3, <2>4
<1>9. CASE NoKey
  BY <1>9 DEF Inv, TypeOK, ProvidersKnown, KeysKnown, KeyInUse, ProvidersTried,
               AttemptCount, Refusals, Busy, Forbidden, NoKey
<1>10. CASE KeysSpent
  BY <1>10 DEF Inv, TypeOK, ProvidersKnown, KeysKnown, KeyInUse, ProvidersTried,
               AttemptCount, Refusals, Busy, Forbidden, KeysSpent
<1>11. CASE KeyDone
  BY <1>11 DEF Inv, TypeOK, ProvidersKnown, KeysKnown, KeyInUse, ProvidersTried,
               AttemptCount, Refusals, Busy, Forbidden, KeyDone
<1>12. CASE Attempt
  BY <1>12 DEF Inv, TypeOK, ProvidersKnown, KeysKnown, KeyInUse, ProvidersTried,
               AttemptCount, Refusals, Busy, Forbidden, Attempt
<1>13. CASE LeaveKey
  BY <1>13 DEF Inv, TypeOK, ProvidersKnown, KeysKnown, KeyInUse, ProvidersTried,
               AttemptCount, Refusals, Busy, Forbidden, LeaveKey
<1>14. ASSUME NEW status \in Refusals, Refused(status)
       PROVE  (ProvidersKnown /\ KeysKnown)'
  BY <1>14 DEF Inv, TypeOK, ProvidersKnown, KeysKnown, KeyInUse, ProvidersTried,
               AttemptCount, Refusals, Busy, Forbidden, Refused, Refusal, SameKeyAgain, Escalation
<1>15. CASE Answered
  BY <1>15 DEF Inv, TypeOK, ProvidersKnown, KeysKnown, KeyInUse, ProvidersTried,
               AttemptCount, Refusals, Busy, Forbidden, Answered
<1>16. CASE StreamEnds
  BY <1>16 DEF Inv, TypeOK, ProvidersKnown, KeysKnown, KeyInUse, ProvidersTried,
               AttemptCount, Refusals, Busy, Forbidden, StreamEnds
<1>17. CASE BodyBreaks
  BY <1>17 DEF Inv, TypeOK, ProvidersKnown, KeysKnown, KeyInUse, ProvidersTried,
               AttemptCount, Refusals, Busy, Forbidden, BodyBreaks
<1>18. CASE Environment
  BY <1>18 DEF Inv, TypeOK, ProvidersKnown, KeysKnown, KeyInUse, ProvidersTried,
               AttemptCount, Refusals, Busy, Forbidden, Environment
<1>19. CASE UNCHANGED vars
  BY <1>19 DEF Inv, TypeOK, ProvidersKnown, KeysKnown, KeyInUse, ProvidersTried,
               AttemptCount, Refusals, Busy, Forbidden, vars
<1>20. CASE DirectSelect
  BY <1>20 DEF Inv, TypeOK, OnItsWay, LoopPlaces, DirectPlaces, ProvidersKnown, KeysKnown, KeyInUse, ProvidersTried,
               AttemptCount, Refusals, Busy, Forbidden, DirectSelect, DirectCandidates
<1>21. CASE DirectNoProvider
  BY <1>21 DEF Inv, TypeOK, OnItsWay, LoopPlaces, DirectPlaces, ProvidersKnown, KeysKnown, KeyInUse, ProvidersTried,
               AttemptCount, Refusals, Busy, Forbidden, DirectNoProvider, Refuse
<1>22. CASE DirectKey
  BY <1>22 DEF Inv, TypeOK, OnItsWay, LoopPlaces, DirectPlaces, ProvidersKnown, KeysKnown, KeyInUse, ProvidersTried,
               AttemptCount, Refusals, Busy, Forbidden, DirectKey, Drawable
<1>23. CASE DirectNoKey
  BY <1>23 DEF Inv, TypeOK, OnItsWay, LoopPlaces, DirectPlaces, ProvidersKnown, KeysKnown, KeyInUse, ProvidersTried,
               AttemptCount, Refusals, Busy, Forbidden, DirectNoKey, Refuse
<1>24. CASE DirectAttempt
  BY <1>24 DEF Inv, TypeOK, OnItsWay, LoopPlaces, DirectPlaces, ProvidersKnown, KeysKnown, KeyInUse, ProvidersTried,
               AttemptCount, Refusals, Busy, Forbidden, DirectAttempt
<1>25. ASSUME NEW status \in Answers, DirectAnswered(status)
       PROVE  (ProvidersKnown /\ KeysKnown)'
  BY <1>25 DEF Inv, TypeOK, OnItsWay, LoopPlaces, DirectPlaces, ProvidersKnown, KeysKnown, KeyInUse, ProvidersTried,
               AttemptCount, Refusals, Busy, Forbidden, DirectAnswered
<1> QED
  BY <1>1, <1>2, <1>3, <1>4, <1>5, <1>6, <1>7, <1>8, <1>9, <1>10, <1>11, <1>12, <1>13, <1>14, <1>15, <1>16, <1>17, <1>18, <1>19,
     <1>20, <1>21, <1>22, <1>23, <1>24, <1>25
  DEF Next, Step, ProviderLoop, KeyLoop, AttemptLoop, Direct

\* The invariant is inductive.
LEMMA NextInv == Inv /\ [Next]_vars => Inv'
BY TypeStep, ReplyStep, KnownStep DEF Inv

(***************************************************************************)
(* The theorems.                                                           *)
(***************************************************************************)

\* The inductive invariant holds of every request.
THEOREM Invariant == Spec => []Inv
BY InitInv, NextInv, PTL DEF Spec

\* The loop counters, the exclusion lists and the attempts keep their types.
THEOREM TypeCorrect == Spec => []TypeOK
<1>1. Inv => TypeOK
  BY DEF Inv
<1> QED
  BY Invariant, <1>1, PTL

\* Whatever is refused, exhausted or unavailable, the client is sent the answer
\* to the last attempt (serveWithRetry, serveStreamingWithRetry).
THEOREM ReplyIsLastAnswerHolds == Spec => []ReplyIsLastAnswer
<1>1. Inv => ReplyIsLastAnswer
  BY DEF Inv
<1> QED
  BY Invariant, <1>1, PTL

\* A provider that was tried is not selected again while some provider is
\* enabled (excludeProvider, selectProviderExcluding).
THEOREM ProvidersVisitedOnceHolds == Spec => ProvidersVisitedOnce
<1>1. Inv /\ [Next]_vars =>
        [SelectProvider /\ live # {} => provider' \notin ProvidersTried]_vars
  BY DEF Inv, ProvidersKnown, SelectProvider, Candidates, NoneConfigured
<1> QED
  BY Invariant, <1>1, PTL DEF Spec, ProvidersVisitedOnce

\* The attempt after a 403 to a pool's key does not use that key (the break of
\* the same-key loop and excludeKey).
THEOREM ForbiddenPoolKeyHolds == Spec => ForbiddenPoolKeyNotRetried
<1>1. ASSUME Inv, Attempt, last = Forbidden, Pooled(provider)
      PROVE  LastTried' # LastTried
  <2>1. AttemptCount \in Nat \ {0}
    <3>1. answers # <<>>
      BY <1>1 DEF Inv, Kept, Attempt, None, Forbidden
    <3> QED
      BY <1>1, <3>1 DEF Inv, TypeOK, Matched, Attempt, AttemptCount
  <2>2. sameKeyAttempt = 0
    BY <1>1 DEF Inv, TypeOK, KeysKnown, Attempt, Busy, Forbidden
  <2>3. LastTried \in excludedKeys
    BY <1>1, <2>1, <2>2 DEF Inv, KeysKnown, KeyInUse, Attempt, LastTried, AttemptCount
  <2>4. LastTried' = <<provider, key>>
    BY <1>1, <2>1 DEF Inv, TypeOK, Attempt, LastTried, AttemptCount
  <2>5. <<provider, key>> \notin excludedKeys
    BY <1>1, <2>2 DEF Inv, KeysKnown, Attempt
  <2> QED
    BY <2>3, <2>4, <2>5
<1>2. Inv /\ [Next]_vars =>
        [Attempt /\ last = Forbidden /\ Pooled(provider) => LastTried' # LastTried]_vars
  BY <1>1
<1> QED
  BY Invariant, <1>2, PTL DEF Spec, ForbiddenPoolKeyNotRetried

--------------------------------------------------------------------------------
(***************************************************************************)
(* The budget: the inductive invariant of the limits on attempts.          *)
(***************************************************************************)

AttemptsCounted == AttemptCount <= IF retrying THEN MaxTotalAttempts ELSE 1

\* A turn of the provider loop excludes one provider.
ProvidersCounted ==
    pc \in LoopPlaces \ {"exhausted"} =>
        /\ IsFiniteSet(excludedProviders)
        /\ Cardinality(excludedProviders) <= providerAttempt
        /\ pc # "provider" => providerAttempt <= ProviderRetries

ExcludedOf(p) == {k \in KeysOf[p] \cup {SingleKey} : <<p, k>> \in excludedKeys}

KeyPlaces == {"key", "attempt", "upstream", "keyDone"}

\* A turn of the key loop excludes one key, and the loop starts with none
\* excluded: a provider with excluded keys is itself excluded.
KeysCounted ==
    live # {} =>
        /\ pc = "provider" => \A t \in excludedKeys : t[1] \in excludedProviders
        /\ pc = "proxy" => provider \notin excludedProviders
                           /\ \A t \in excludedKeys : t[1] \in excludedProviders
        /\ pc \in KeyPlaces \cup {"providerDone"} =>
             \A t \in excludedKeys : t[1] \in excludedProviders \cup {provider}
        /\ pc \in KeyPlaces => /\ IsFiniteSet(ExcludedOf(provider))
                               /\ Cardinality(ExcludedOf(provider)) <= keyAttempt
        /\ pc \in KeyPlaces \ {"key"} => keyAttempt <= KeyRetries

\* The attempts that the key in use has had.
Uses == IF pc = "upstream" THEN sameKeyAttempt + 1 ELSE sameKeyAttempt

\* They are the last ones of the request, and no others were made with it.
Consecutive ==
    (pc \in {"attempt", "upstream"} /\ Pooled(provider)) =>
        /\ Uses <= AttemptCount
        /\ pc = "upstream" => sameKeyAttempt <= SameKeyRetries
        /\ \A i \in 1 .. AttemptCount :
             triedKeys[i] = <<provider, key>> <=> i > AttemptCount - Uses

Budget ==
    /\ AttemptsCounted
    /\ ProvidersCounted
    /\ KeysCounted
    /\ Consecutive
    /\ AttemptsBounded
    /\ KeysVisitedOnce

\* A set grows by one element at most.
LEMMA OneMore ==
    ASSUME NEW S, IsFiniteSet(S), NEW x
    PROVE  /\ IsFiniteSet(S \cup {x})
           /\ Cardinality(S) \in Nat /\ Cardinality(S \cup {x}) \in Nat
           /\ Cardinality(S \cup {x}) <= Cardinality(S) + 1
<1>1. Cardinality(S) \in Nat
  BY FS_CardinalityType
<1>2. /\ IsFiniteSet(S \cup {x})
      /\ \/ Cardinality(S \cup {x}) = Cardinality(S)
         \/ Cardinality(S \cup {x}) = Cardinality(S) + 1
  BY FS_AddElement
<1> QED
  BY <1>1, <1>2

\* What is tried is a key of its provider.
LEMMA TriedPairs ==
    \A t \in Tried : /\ t = <<t[1], t[2]>>
                    /\ t[2] \in KeysOf[t[1]] \cup {SingleKey}
BY DEF Tried, PoolKeys

\* A new request has used nothing of its budget.
LEMMA InitBudget == Init => Budget
<1> SUFFICES ASSUME Init PROVE Budget
  OBVIOUS
<1>1. /\ triedKeys = <<>> /\ excludedKeys = {} /\ excludedProviders = {}
      /\ providerAttempt = 0
      /\ pc \in {"provider", "direct"}
  BY DEF Init
<1>2. Cardinality({}) = 0 /\ IsFiniteSet({})
  BY FS_EmptySet
<1>3. AttemptCount = 0
  BY <1>1 DEF AttemptCount
<1>4. AttemptsCounted
  BY <1>3, RetryAssumption DEF AttemptsCounted
<1>5. ProvidersCounted
  BY <1>1, <1>2 DEF ProvidersCounted, LoopPlaces
<1>6. KeysCounted /\ Consecutive
  BY <1>1 DEF KeysCounted, KeyPlaces, Consecutive
<1>7. KeysVisitedOnce
  BY <1>3 DEF KeysVisitedOnce
<1>8. ProvidersTried = {}
  BY <1>3 DEF ProvidersTried
<1>9. AttemptsBounded
  BY <1>2, <1>3, <1>4, <1>8, RetryAssumption DEF AttemptsBounded, AttemptsCounted
<1> QED
  BY <1>4, <1>5, <1>6, <1>7, <1>9 DEF Budget

\* Nothing else counts as an attempt.
LEMMA OnlyAttempts ==
    ASSUME [Next]_vars
    PROVE  /\ UNCHANGED <<retrying, live>>
           /\ UNCHANGED triedKeys \/ Attempt \/ DirectAttempt
BY DEF Next, Step, ProviderLoop, KeyLoop, AttemptLoop, Direct, Environment, vars,
   configVars, history, SelectProvider, NoProvider, GetProxy, ProxyFails, ProviderDone, Exhausted,
   SingleKeyTurn, DrawKey, NoKey, KeysSpent, KeyDone, LeaveKey, Refused, Refusal,
   Answered, StreamEnds, BodyBreaks, DirectSelect, DirectNoProvider, Refuse,
   DirectKey, DirectNoKey, DirectAnswered, Attempt, DirectAttempt

\* What changes the account of the providers.
LEMMA ProviderMoves ==
    ASSUME Inv, [Next]_vars, pc' \in LoopPlaces \ {"exhausted"}
    PROVE  \/ ProviderDone
           \/ SelectProvider
           \/ /\ UNCHANGED <<excludedProviders, providerAttempt>>
              /\ pc \in LoopPlaces \ {"exhausted"}
              /\ pc = "provider" <=> pc' = "provider"
BY DEF Inv, OnItsWay, LoopPlaces, DirectPlaces, Next, Step, ProviderLoop, KeyLoop, AttemptLoop, Direct, Environment, vars,
   counters, excluded, NoProvider, GiveUp, GetProxy, ProxyFails, Exhausted,
   SingleKeyTurn, DrawKey, TakeKey, NoKey, KeysSpent, KeyDone, Attempt, LeaveKey, Refused, Refusal,
   Escalation, SameKeyAgain, Answered, StreamEnds, BodyBreaks, DirectSelect, DirectNoProvider, Refuse,
   DirectKey, DirectNoKey, DirectAttempt, DirectAnswered

\* Every step keeps the account of the providers.
LEMMA ProvidersCountedStep ==
    ASSUME Inv, ProvidersCounted, [Next]_vars
    PROVE  ProvidersCounted'
<1> SUFFICES ASSUME pc' \in LoopPlaces \ {"exhausted"}
             PROVE  ProvidersCounted'
  BY DEF ProvidersCounted
<1>1. CASE ProviderDone
  <2>1. /\ IsFiniteSet(excludedProviders)
        /\ Cardinality(excludedProviders) <= providerAttempt
        /\ excludedProviders' = excludedProviders \cup {provider}
        /\ pc' = "provider" /\ providerAttempt' = providerAttempt + 1
    BY <1>1 DEF ProvidersCounted, ProviderDone, LoopPlaces
  <2>2. /\ IsFiniteSet(excludedProviders')
        /\ Cardinality(excludedProviders') <= Cardinality(excludedProviders) + 1
    BY <2>1, OneMore
  <2>3. providerAttempt \in Nat /\ Cardinality(excludedProviders) \in Nat
    BY <2>1, FS_CardinalityType DEF Inv, TypeOK
  <2>4. Cardinality(excludedProviders') \in Nat
    BY <2>2, FS_CardinalityType
  <2> QED
    BY <2>1, <2>2, <2>3, <2>4 DEF ProvidersCounted
<1>2. CASE SelectProvider
  BY <1>2 DEF ProvidersCounted, SelectProvider, LoopPlaces, counters, excluded
<1>3. CASE /\ UNCHANGED <<excludedProviders, providerAttempt>>
           /\ pc \in LoopPlaces \ {"exhausted"}
           /\ pc = "provider" <=> pc' = "provider"
  BY <1>3 DEF ProvidersCounted
<1> QED
  BY <1>1, <1>2, <1>3, ProviderMoves

\* What changes the account of the keys.
LEMMA KeyMoves ==
    ASSUME Inv, [Next]_vars, pc' \in KeyPlaces \cup {"provider", "proxy", "providerDone"}
    PROVE  \/ SelectProvider \/ GetProxy \/ ProviderDone \/ KeyDone
           \/ SingleKeyTurn \/ DrawKey
           \/ /\ UNCHANGED <<excludedKeys, excludedProviders, provider, keyAttempt>>
              /\ pc \in KeyPlaces \cup {"provider", "proxy", "providerDone"}
              /\ \/ pc' = pc
                 \/ pc \in KeyPlaces \ {"key"} /\ pc' \in KeyPlaces \ {"key"}
                 \/ pc = "key" /\ pc' = "providerDone"
BY DEF Inv, OnItsWay, LoopPlaces, DirectPlaces, KeyPlaces, Next, Step, ProviderLoop, KeyLoop, AttemptLoop, Direct, Environment, vars,
   counters, excluded, target, NoProvider, GiveUp, ProxyFails, Exhausted,
   NoKey, KeysSpent, Attempt, LeaveKey, Refused, Refusal,
   Escalation, SameKeyAgain, Answered, StreamEnds, BodyBreaks, DirectSelect, DirectNoProvider, Refuse,
   DirectKey, DirectNoKey, DirectAttempt, DirectAnswered

\* Every step keeps the account of the keys.
LEMMA KeysCountedStep ==
    ASSUME Inv, KeysCounted, [Next]_vars
    PROVE  KeysCounted'
<1> SUFFICES ASSUME live # {}, UNCHANGED live,
                    pc' \in KeyPlaces \cup {"provider", "proxy", "providerDone"}
             PROVE  KeysCounted'
  BY OnlyAttempts DEF KeysCounted, KeyPlaces
<1> USE DEF counters, excluded, target
<1>1. CASE SelectProvider
  BY <1>1 DEF KeysCounted, KeyPlaces, SelectProvider, NoneConfigured, Candidates
<1>2. CASE GetProxy
  <2>1. /\ pc = "proxy" /\ pc' = "key" /\ keyAttempt' = 0
        /\ UNCHANGED <<excludedKeys, excludedProviders, provider>>
        /\ provider \notin excludedProviders
        /\ \A t \in excludedKeys : t[1] \in excludedProviders
    BY <1>2 DEF GetProxy, KeysCounted
  <2>2. ExcludedOf(provider)' = {}
    BY <2>1 DEF ExcludedOf
  <2>3. IsFiniteSet({}) /\ Cardinality({}) = 0
    BY FS_EmptySet
  <2> QED
    BY <2>1, <2>2, <2>3 DEF KeysCounted, KeyPlaces
<1>3. CASE ProviderDone
  BY <1>3 DEF KeysCounted, KeyPlaces, ProviderDone
<1>4. CASE KeyDone
  <2>1. /\ pc = "keyDone" /\ pc' \in {"key", "providerDone"}
        /\ pc' = "key" => keyAttempt' = keyAttempt + 1
        /\ excludedKeys' = excludedKeys \cup {<<provider, key>>}
        /\ UNCHANGED <<excludedProviders, provider>>
    BY <1>4 DEF KeyDone
  <2>2. \A t \in excludedKeys' : t[1] \in excludedProviders' \cup {provider'}
    BY <2>1 DEF KeysCounted, KeyPlaces
  <2>3. ExcludedOf(provider)' = ExcludedOf(provider) \cup {key}
    <3>1. key \in KeysOf[provider] \cup {SingleKey}
      BY <2>1, TriedPairs DEF Inv, TypeOK
    <3> QED
      BY <2>1, <3>1 DEF ExcludedOf
  <2>4. /\ IsFiniteSet(ExcludedOf(provider))
        /\ Cardinality(ExcludedOf(provider)) <= keyAttempt
    BY <2>1 DEF KeysCounted, KeyPlaces
  <2>5. /\ IsFiniteSet(ExcludedOf(provider)')
        /\ Cardinality(ExcludedOf(provider)') <= Cardinality(ExcludedOf(provider)) + 1
    BY <2>3, <2>4, OneMore
  <2>6. /\ Cardinality(ExcludedOf(provider)') \in Nat
        /\ Cardinality(ExcludedOf(provider)) \in Nat
        /\ keyAttempt \in Nat
    BY <2>4, <2>5, FS_CardinalityType DEF Inv, TypeOK
  <2>7. pc' = "key" => Cardinality(ExcludedOf(provider)') <= keyAttempt'
    BY <2>1, <2>4, <2>5, <2>6
  <2> QED
    BY <2>1, <2>2, <2>5, <2>7 DEF KeysCounted, KeyPlaces
<1>5. CASE SingleKeyTurn
  <2>1. /\ pc = "key" /\ pc' = "attempt" /\ keyAttempt <= KeyRetries
        /\ UNCHANGED <<excludedKeys, excludedProviders, provider, keyAttempt>>
    BY <1>5 DEF SingleKeyTurn, TakeKey
  <2> QED
    BY <2>1 DEF KeysCounted, KeyPlaces, ExcludedOf
<1>6. CASE DrawKey
  <2>1. /\ pc = "key" /\ pc' \in {"key", "attempt", "providerDone"} /\ keyAttempt <= KeyRetries
        /\ UNCHANGED <<excludedKeys, excludedProviders, provider, keyAttempt>>
    BY <1>6 DEF DrawKey, TakeKey
  <2> QED
    BY <2>1 DEF KeysCounted, KeyPlaces, ExcludedOf
<1>7. CASE /\ UNCHANGED <<excludedKeys, excludedProviders, provider, keyAttempt>>
           /\ pc \in KeyPlaces \cup {"provider", "proxy", "providerDone"}
           /\ \/ pc' = pc
              \/ pc \in KeyPlaces \ {"key"} /\ pc' \in KeyPlaces \ {"key"}
              \/ pc = "key" /\ pc' = "providerDone"
  BY <1>7 DEF KeysCounted, KeyPlaces, ExcludedOf
<1> QED
  BY <1>1, <1>2, <1>3, <1>4, <1>5, <1>6, <1>7, KeyMoves

\* An attempt with a pool's key directly follows the earlier ones with it.
LEMMA ConsecutiveStep ==
    ASSUME Inv, Consecutive, [Next]_vars
    PROVE  Consecutive'
<1> SUFFICES ASSUME pc' \in {"attempt", "upstream"}, Pooled(provider')
             PROVE  Consecutive'
  BY DEF Consecutive, Pooled
<1> USE DEF configVars, counters, excluded, target, history
<1>1. AttemptCount \in Nat /\ sameKeyAttempt \in Nat
  BY DEF Inv, TypeOK, AttemptCount
<1>2. CASE DrawKey
  <2>1. /\ pc = "key" /\ pc' = "attempt" /\ sameKeyAttempt' = 0
        /\ <<provider, key'>> \notin excludedKeys
        /\ UNCHANGED <<provider, triedKeys>>
    BY <1>2 DEF DrawKey, TakeKey
  <2>2. \A i \in 1 .. AttemptCount : triedKeys[i] # <<provider, key'>>
    BY <2>1 DEF Inv, KeysKnown, KeyInUse
  <2> QED
    BY <1>1, <2>1, <2>2 DEF Consecutive, Uses, AttemptCount
<1>3. CASE Attempt
  <2>1. /\ pc = "attempt" /\ pc' = "upstream" /\ sameKeyAttempt <= SameKeyRetries
        /\ triedKeys' = Append(triedKeys, <<provider, key>>)
        /\ UNCHANGED <<provider, key, sameKeyAttempt>>
    BY <1>3 DEF Attempt
  <2>2. /\ AttemptCount' = AttemptCount + 1
        /\ triedKeys'[AttemptCount + 1] = <<provider, key>>
        /\ \A i \in 1 .. AttemptCount : triedKeys'[i] = triedKeys[i]
    BY <2>1 DEF Inv, TypeOK, AttemptCount
  <2>3. /\ sameKeyAttempt <= AttemptCount
        /\ \A i \in 1 .. AttemptCount :
             triedKeys[i] = <<provider, key>> <=> i > AttemptCount - sameKeyAttempt
    BY <2>1 DEF Consecutive, Uses
  <2>4. Uses' = sameKeyAttempt + 1
    BY <2>1 DEF Uses
  <2>5. ASSUME NEW i \in 1 .. AttemptCount + 1
        PROVE  triedKeys'[i] = <<provider, key>> <=> i > AttemptCount + 1 - (sameKeyAttempt + 1)
    BY <1>1, <2>2, <2>3
  <2>6. Uses' <= AttemptCount'
    BY <1>1, <2>2, <2>3, <2>4
  <2>7. \A i \in 1 .. AttemptCount + 1 :
             triedKeys'[i] = <<provider, key>> <=> i > AttemptCount + 1 - (sameKeyAttempt + 1)
    BY <2>5
  <2>8. ASSUME NEW i \in 1 .. AttemptCount'
        PROVE  triedKeys'[i] = <<provider', key'>> <=> i > AttemptCount' - Uses'
    <3>1. provider' = provider /\ key' = key
      BY <2>1
    <3>2. i \in 1 .. AttemptCount + 1
      BY <2>2
    <3>3. AttemptCount' - Uses' = AttemptCount + 1 - (sameKeyAttempt + 1)
      BY <1>1, <2>2, <2>4
    <3> QED
      BY <2>7, <3>1, <3>2, <3>3
  <2> QED
    BY <2>1, <2>6, <2>8 DEF Consecutive
<1>4. ASSUME NEW status \in Refusals, Refused(status)
      PROVE  Consecutive'
  <2>1. /\ pc = "upstream" /\ pc' = "attempt" /\ sameKeyAttempt' = sameKeyAttempt + 1
        /\ UNCHANGED <<provider, key, triedKeys>>
    BY <1>4 DEF Refused, Refusal, Escalation, SameKeyAgain
  <2>2. Uses' = Uses /\ AttemptCount' = AttemptCount
    BY <2>1 DEF Uses, AttemptCount
  <2> QED
    BY <2>1, <2>2 DEF Consecutive
<1>5. CASE UNCHANGED vars
  BY <1>5 DEF vars, Consecutive, Uses, AttemptCount
<1>6. [Next]_vars => DrawKey \/ Attempt \/ (\E status \in Refusals : Refused(status)) \/ UNCHANGED vars
  BY DEF Inv, OnItsWay, LoopPlaces, DirectPlaces, Next, Step, ProviderLoop, KeyLoop, AttemptLoop, Direct, Environment,
   SelectProvider, NoProvider, GiveUp, GetProxy, ProxyFails, ProviderDone, Exhausted,
   SingleKeyTurn, Pooled, NoKey, KeysSpent, KeyDone, LeaveKey,
   Answered, StreamEnds, BodyBreaks, DirectSelect, DirectNoProvider, Refuse,
   DirectKey, DirectNoKey, DirectAttempt, DirectAnswered
<1> QED
  BY <1>2, <1>3, <1>4, <1>5, <1>6

\* With one attempt there is one provider and one key.
LEMMA FirstAttempt ==
    ASSUME Inv, DirectAttempt
    PROVE  AttemptCount' = 1 /\ AttemptsBounded' /\ KeysVisitedOnce'
<1>1. /\ triedKeys = <<>> /\ ~retrying /\ retrying' = retrying
      /\ triedKeys' = Append(triedKeys, <<provider, key>>)
  BY DEF Inv, OnItsWay, DirectPlaces, DirectAttempt, configVars
<1>2. triedKeys' = << <<provider, key>> >>
  BY <1>1
<1>3. AttemptCount' = 1
  BY <1>2 DEF AttemptCount
<1>4. ProvidersTried' = {provider}
  BY <1>2, <1>3 DEF ProvidersTried
<1>5. ASSUME NEW p \in ProvidersTried'
      PROVE  Cardinality(KeysTriedOf(p)') <= KeyRetries + 1
  <2>1. KeysTriedOf(p)' = {key}
    BY <1>2, <1>3, <1>4 DEF KeysTriedOf
  <2>2. Cardinality({key}) = 1
    BY FS_Singleton
  <2> QED
    BY <2>1, <2>2, RetryAssumption
<1>6. Cardinality(ProvidersTried') <= ProviderRetries + 1
  <2>1. Cardinality({provider}) = 1
    BY FS_Singleton
  <2> QED
    BY <1>4, <2>1, RetryAssumption
<1>7. AttemptsBounded'
  BY <1>1, <1>3, <1>5, <1>6 DEF AttemptsBounded
<1>8. KeysVisitedOnce'
  BY <1>3 DEF KeysVisitedOnce
<1> QED
  BY <1>3, <1>7, <1>8

\* An attempt of the loop tries no more than the providers and keys the loop
\* has counted.
LEMMA AttemptBounded ==
    ASSUME Inv, Budget, Attempt
    PROVE  AttemptsBounded'
<1>1. /\ pc = "attempt" /\ retrying /\ retrying' = retrying /\ live' = live
      /\ AttemptCount < MaxTotalAttempts
      /\ triedKeys' = Append(triedKeys, <<provider, key>>)
  BY DEF Inv, OnItsWay, LoopPlaces, Attempt, CanRetry, configVars
<1>2. /\ AttemptCount \in Nat /\ AttemptCount' = AttemptCount + 1
      /\ triedKeys'[AttemptCount + 1] = <<provider, key>>
      /\ \A i \in 1 .. AttemptCount : triedKeys'[i] = triedKeys[i]
  BY <1>1 DEF Inv, TypeOK, AttemptCount
<1>3. AttemptCount' <= MaxTotalAttempts
  BY <1>1, <1>2, RetryAssumption
<1> SUFFICES ASSUME live # {}
             PROVE  /\ Cardinality(ProvidersTried') <= ProviderRetries + 1
                    /\ \A p \in ProvidersTried' : Cardinality(KeysTriedOf(p)') <= KeyRetries + 1
  BY <1>1, <1>3 DEF AttemptsBounded
<1>4. Cardinality(ProvidersTried') <= ProviderRetries + 1
  <2>1. ProvidersTried' \subseteq excludedProviders \cup {provider}
    <3>1. ProvidersTried' = ProvidersTried \cup {provider}
      BY <1>2 DEF ProvidersTried
    <3> QED
      BY <3>1 DEF Inv, ProvidersKnown
  <2>2. /\ IsFiniteSet(excludedProviders)
        /\ Cardinality(excludedProviders) <= ProviderRetries
    <3>1. /\ IsFiniteSet(excludedProviders)
          /\ Cardinality(excludedProviders) <= providerAttempt
          /\ providerAttempt <= ProviderRetries
      BY <1>1 DEF Budget, ProvidersCounted, LoopPlaces
    <3> QED
      BY <3>1, FS_CardinalityType, RetryAssumption DEF Inv, TypeOK
  <2>3. /\ IsFiniteSet(excludedProviders \cup {provider})
        /\ Cardinality(excludedProviders \cup {provider}) <= Cardinality(excludedProviders) + 1
    BY <2>2, OneMore
  <2>4. /\ Cardinality(ProvidersTried') <= Cardinality(excludedProviders \cup {provider})
        /\ Cardinality(ProvidersTried') \in Nat
    BY <2>1, <2>3, FS_Subset, FS_CardinalityType
  <2> QED
    BY <2>2, <2>3, <2>4, FS_CardinalityType, RetryAssumption
<1>5. ASSUME NEW p \in ProvidersTried'
      PROVE  Cardinality(KeysTriedOf(p)') <= KeyRetries + 1
  <2>1. CASE p = provider
    <3>1. KeysTriedOf(p)' \subseteq ExcludedOf(provider) \cup {key}
      <4> SUFFICES ASSUME NEW i \in 1 .. AttemptCount', triedKeys'[i][1] = provider
                   PROVE  triedKeys'[i][2] \in ExcludedOf(provider) \cup {key}
        BY <2>1 DEF KeysTriedOf
      <4>1. CASE i = AttemptCount + 1
        BY <1>2, <4>1
      <4>2. CASE i \in 1 .. AttemptCount
        <5>1. \/ triedKeys[i] \in excludedKeys
              \/ triedKeys[i] = <<provider, key>>
          BY <1>1, <4>2 DEF Inv, KeysKnown
        <5>2. triedKeys[i] \in Tried /\ triedKeys'[i] = triedKeys[i]
          BY <1>2, <4>2 DEF Inv, TypeOK, AttemptCount
        <5> QED
          BY <5>1, <5>2, TriedPairs DEF ExcludedOf
      <4> QED
        BY <1>2, <4>1, <4>2
    <3>2. /\ IsFiniteSet(ExcludedOf(provider))
          /\ Cardinality(ExcludedOf(provider)) <= KeyRetries
      <4>1. /\ IsFiniteSet(ExcludedOf(provider))
            /\ Cardinality(ExcludedOf(provider)) <= keyAttempt
            /\ keyAttempt <= KeyRetries
        BY <1>1 DEF Budget, KeysCounted, KeyPlaces
      <4> QED
        BY <4>1, FS_CardinalityType, RetryAssumption DEF Inv, TypeOK
    <3>3. /\ IsFiniteSet(ExcludedOf(provider) \cup {key})
          /\ Cardinality(ExcludedOf(provider) \cup {key}) <= Cardinality(ExcludedOf(provider)) + 1
      BY <3>2, OneMore
    <3>4. /\ Cardinality(KeysTriedOf(p)') <= Cardinality(ExcludedOf(provider) \cup {key})
          /\ Cardinality(KeysTriedOf(p)') \in Nat
      BY <3>1, <3>3, FS_Subset, FS_CardinalityType
    <3> QED
      BY <3>2, <3>3, <3>4, FS_CardinalityType, RetryAssumption
  <2>2. CASE p # provider
    <3>1. p \in ProvidersTried
      BY <1>2, <2>2 DEF ProvidersTried
    <3>2. KeysTriedOf(p)' = KeysTriedOf(p)
      BY <1>2, <2>2 DEF KeysTriedOf
    <3> QED
      BY <3>1, <3>2 DEF Budget, AttemptsBounded
  <2> QED
    BY <2>1, <2>2
<1> QED
  BY <1>4, <1>5

\* An attempt of the loop with a pool's key follows the earlier ones with it.
LEMMA AttemptVisits ==
    ASSUME Inv, Budget, Attempt
    PROVE  KeysVisitedOnce'
<1>1. /\ pc = "attempt" /\ sameKeyAttempt <= SameKeyRetries
      /\ triedKeys' = Append(triedKeys, <<provider, key>>)
  BY DEF Attempt
<1>2. /\ AttemptCount \in Nat /\ AttemptCount' = AttemptCount + 1
      /\ triedKeys'[AttemptCount + 1] = <<provider, key>>
      /\ \A i \in 1 .. AttemptCount : triedKeys'[i] = triedKeys[i]
  BY <1>1 DEF Inv, TypeOK, AttemptCount
<1> SUFFICES ASSUME NEW p \in Providers, Pooled(p),
                    NEW i \in 1 .. AttemptCount', NEW k \in 1 .. AttemptCount',
                    i < k, triedKeys'[i] = triedKeys'[k], triedKeys'[i][1] = p
             PROVE  k - i <= SameKeyRetries
                    /\ \A j \in i .. k : triedKeys'[j] = triedKeys'[i]
  BY DEF KeysVisitedOnce, Pooled
<1>3. CASE k \in 1 .. AttemptCount
  <2>1. i \in 1 .. AttemptCount /\ i .. k \subseteq 1 .. AttemptCount
    BY <1>2, <1>3
  <2>2. triedKeys[i] = triedKeys[k] /\ triedKeys[i][1] = p
    BY <1>2, <1>3, <2>1
  <2>3. k - i <= SameKeyRetries /\ \A j \in i .. k : triedKeys[j] = triedKeys[i]
    BY <1>3, <2>1, <2>2 DEF Budget, KeysVisitedOnce
  <2> QED
    BY <1>2, <2>1, <2>3
<1>4. CASE k = AttemptCount + 1
  <2>1. i \in 1 .. AttemptCount /\ triedKeys[i] = <<provider, key>> /\ p = provider
    BY <1>2, <1>4
  <2>2. \A j \in 1 .. AttemptCount :
             triedKeys[j] = <<provider, key>> <=> j > AttemptCount - sameKeyAttempt
    BY <1>1, <2>1 DEF Budget, Consecutive, Uses
  <2>3. sameKeyAttempt \in Nat /\ SameKeyRetries \in Nat
    BY RetryAssumption DEF Inv, TypeOK
  <2>4. i > AttemptCount - sameKeyAttempt
    BY <2>1, <2>2
  <2>5. k - i <= SameKeyRetries
    BY <1>1, <1>2, <1>4, <2>1, <2>3, <2>4
  <2>6. ASSUME NEW j \in i .. k
        PROVE  triedKeys'[j] = <<provider, key>>
    <3>1. CASE j = AttemptCount + 1
      BY <1>2, <3>1
    <3>2. CASE j \in 1 .. AttemptCount
      BY <1>2, <2>1, <2>2, <2>3, <2>4, <3>2
    <3> QED
      BY <1>2, <1>4, <3>1, <3>2
  <2> QED
    BY <1>2, <2>1, <2>5, <2>6
<1> QED
  BY <1>2, <1>3, <1>4

\* The budget is inductive on top of the invariant.
LEMMA NextBudget == Inv /\ Budget /\ [Next]_vars => Budget'
<1> SUFFICES ASSUME Inv, Budget, [Next]_vars
             PROVE  Budget'
  OBVIOUS
<1>1. (ProvidersCounted /\ KeysCounted /\ Consecutive)'
  BY ProvidersCountedStep, KeysCountedStep, ConsecutiveStep DEF Budget
<1>2. UNCHANGED <<retrying, live>>
  BY OnlyAttempts
<1>3. CASE UNCHANGED triedKeys
  <2>1. AttemptCount' = AttemptCount
    BY <1>3 DEF AttemptCount
  <2>2. AttemptsCounted' /\ KeysVisitedOnce'
    BY <1>2, <1>3, <2>1 DEF Budget, AttemptsCounted, KeysVisitedOnce, Pooled
  <2>3. ProvidersTried' = ProvidersTried
    BY <1>3, <2>1 DEF ProvidersTried
  <2>4. \A p : KeysTriedOf(p)' = KeysTriedOf(p)
    BY <1>3, <2>1 DEF KeysTriedOf
  <2>5. AttemptsBounded'
    BY <1>2, <2>1, <2>3, <2>4 DEF Budget, AttemptsBounded
  <2> QED
    BY <1>1, <2>2, <2>5 DEF Budget
<1>4. CASE Attempt
  BY <1>1, <1>4, AttemptBounded, AttemptVisits DEF Budget, AttemptsCounted, AttemptsBounded
<1>5. CASE DirectAttempt
  BY <1>1, <1>5, FirstAttempt DEF Budget, AttemptsCounted, AttemptsBounded
<1> QED
  BY <1>3, <1>4, <1>5, OnlyAttempts

\* The budget is kept by every request.
THEOREM BudgetKept == Spec => []Budget
BY InitBudget, NextBudget, Invariant, PTL DEF Spec

\* max_total_attempts bounds the attempts of all levels, provider_retries the
\* providers and key_retries the keys of each (canRetry, excludeProvider,
\* excludeKey).
THEOREM AttemptsBoundedHolds == Spec => []AttemptsBounded
<1>1. Budget => AttemptsBounded
  BY DEF Budget
<1> QED
  BY BudgetKept, <1>1, PTL

\* The attempts with a pool's key are consecutive and at most
\* same_key_retries + 1 (excludeKey, selectKeyFromPoolExcluding).
THEOREM KeysVisitedOnceHolds == Spec => []KeysVisitedOnce
<1>1. Budget => KeysVisitedOnce
  BY DEF Budget
<1> QED
  BY BudgetKept, <1>1, PTL

=============================================================================
