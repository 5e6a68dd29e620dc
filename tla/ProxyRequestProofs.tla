--------------------------- MODULE ProxyRequestProofs --------------------------
(***************************************************************************)
(* Proofs about ProxyRequest, for any number of requests, buckets and keys *)
(* and every configuration.                                                *)
(***************************************************************************)
EXTENDS ProxyRequest, TLAPS

\* What a request stores was really fetched; TypeOK alone is not inductive.
FetchedInHand == \A r \in Requests : pc[r] = "storekey" => fetched[r] \in Secrets
TypeInv == TypeOK /\ FetchedInHand

\* What every request's fixed data give: where it goes and who sent it.
LEMMA ShapeFacts ==
    ASSUME TypeOK, NEW r \in Requests
    PROVE  /\ req[r] \in Shape
           /\ Bucket(r) \in Buckets
           /\ AccessKey(r) \in AccessKeys
  <1>1. req[r] \in Shape
    BY RequestAssumption DEF TypeOK, RequestAssumption
  <1> QED BY <1>1 DEF Bucket, AccessKey, Shape

LEMMA SettingFacts == TypeOK => setting \in Setting
    BY RequestAssumption DEF TypeOK, RequestAssumption

--------------------------------------------------------------------------------
(* Type correctness                                                        *)

LEMMA TypeInit == Init => TypeInv
    BY RequestAssumption
    DEF RequestAssumption, Init, TypeInv, TypeOK, FetchedInHand, Configs, Stages

\* r went somewhere, with nothing to store, or was answered.
Moved(r) == \/ \E label \in Stages \ {"storekey"} : Goto(r, label)
            \/ \E answer \in Answers : Respond(r, answer)

\* TypeOK without the two variables that every step of a request changes.
OthersTyped ==
    /\ setting \in Settings
    /\ cosmap \in [Buckets -> Configs]
    /\ keystore \in [AccessKeys -> Secrets \cup {NoSecret}]
    /\ gauge \in Int
    /\ req \in [Requests -> Shapes]
    /\ signed \in [Requests -> Secrets \cup {NoSecret, WrongSecret}]
    /\ fetched \in [Requests -> Secrets \cup {NoSecret}]
    /\ config \in [Requests -> Configs]
    /\ retries \in [Requests -> 0..MaxRetries]
    /\ granted \subseteq Requests
    /\ verified \subseteq Requests
    /\ credFetches \in [Buckets -> Nat]
    /\ current \in [AccessKeys -> Secrets]
    /\ issued \in [AccessKeys -> SUBSET Secrets]

MoversTyped ==
    /\ pc \in [Requests -> Stages]
    /\ status \in [Requests -> Answers \cup {"none"}]

LEMMA TypeParts ==
    /\ TypeInv <=> OthersTyped /\ MoversTyped /\ FetchedInHand
    /\ TypeInv' <=> OthersTyped' /\ MoversTyped' /\ FetchedInHand'
    BY DEF TypeInv, TypeOK, OthersTyped, MoversTyped

\* A request that moves leaves the others where they are.
LEMMA MoveFacts ==
    ASSUME TypeInv, NEW r \in Requests, Moved(r)
    PROVE  /\ pc' = [pc EXCEPT ![r] = pc'[r]]
           /\ pc'[r] \in Stages \ {"storekey"}
           /\ MoversTyped'
  <1>1. MoversTyped BY TypeParts
  <1>2. CASE \E label \in Stages \ {"storekey"} : Goto(r, label)
    BY <1>1, <1>2 DEF Goto, MoversTyped
  <1>3. CASE \E answer \in Answers : Respond(r, answer)
    BY <1>1, <1>3 DEF Respond, MoversTyped, Stages
  <1> QED BY <1>2, <1>3, Moved(r) DEF Moved

LEMMA MoveTyped ==
    ASSUME TypeInv, NEW r \in Requests, Moved(r)
    PROVE  MoversTyped'
    BY MoveFacts

LEMMA MoveInHand ==
    ASSUME TypeInv, NEW r \in Requests, Moved(r), UNCHANGED fetched
    PROVE  FetchedInHand'
    BY MoveFacts, TypeParts DEF FetchedInHand, MoversTyped

LEMMA TypeFilter ==
    ASSUME TypeInv, NEW r \in Requests, Filter(r)
    PROVE  TypeInv'
  <1>0. /\ req[r] \in Shape
        /\ Bucket(r) \in Buckets
        /\ AccessKey(r) \in AccessKeys
    BY ShapeFacts DEF TypeInv
  <1> OthersTyped /\ MoversTyped /\ FetchedInHand BY TypeParts
  <1>1. CASE LimitReached(r)
    <2>1. Moved(r)
      BY <1>1 DEF LimitReached, Moved, Stages, Answers, HasCreds
    <2>2. OthersTyped'
      BY <1>1 DEF LimitReached, OthersTyped, shared, history, service, Configs
    <2>3. UNCHANGED fetched
      BY <1>1 DEF LimitReached
    <2> QED BY <2>1, <2>2, <2>3, MoveTyped, MoveInHand, TypeParts
  <1>2. CASE ShortCircuit(r)
    <2>1. Moved(r)
      BY <1>2 DEF ShortCircuit, Moved, Stages, Answers, HasCreds
    <2>2. OthersTyped'
      BY <1>2 DEF ShortCircuit, OthersTyped, shared, history, service, Configs
    <2>3. UNCHANGED fetched
      BY <1>2 DEF ShortCircuit
    <2> QED BY <2>1, <2>2, <2>3, MoveTyped, MoveInHand, TypeParts
  <1>3. CASE CloneConfig(r)
    <2>1. Moved(r)
      BY <1>3 DEF CloneConfig, Moved, Stages, Answers, HasCreds
    <2>2. OthersTyped'
      BY <1>0, <1>3 DEF CloneConfig, OthersTyped, shared, history, service, Configs
    <2>3. UNCHANGED fetched
      BY <1>3 DEF CloneConfig
    <2> QED BY <2>1, <2>2, <2>3, MoveTyped, MoveInHand, TypeParts
  <1>4. CASE HasKey(r)
    <2>1. Moved(r)
      BY <1>4 DEF HasKey, Moved, Stages, Answers, HasCreds
    <2>2. OthersTyped'
      BY <1>4 DEF HasKey, OthersTyped, shared, history, service, Configs
    <2>3. UNCHANGED fetched
      BY <1>4 DEF HasKey
    <2> QED BY <2>1, <2>2, <2>3, MoveTyped, MoveInHand, TypeParts
  <1>5. CASE FetchKey(r)
    <2>1. CASE Respond(r, "401") /\ UNCHANGED fetched
      <3>1. Moved(r) BY <2>1 DEF Moved, Answers
      <3>2. OthersTyped' BY <1>5, <2>1 DEF FetchKey, OthersTyped, shared, history, service
      <3> QED BY <2>1, <3>1, <3>2, MoveTyped, MoveInHand, TypeParts
    <2>2. CASE /\ fetched' = [fetched EXCEPT ![r] = current[AccessKey(r)]]
               /\ Goto(r, "storekey")
      <3>1. MoversTyped'
        BY <2>2 DEF MoversTyped, Goto, Stages
      <3>2. current[AccessKey(r)] \in Secrets BY <1>0 DEF OthersTyped
      <3>3. OthersTyped'
        BY <1>5, <2>2, <3>2 DEF FetchKey, OthersTyped, shared, history, service
      <3>4. FetchedInHand'
        BY <2>2, <3>2 DEF FetchedInHand, Goto, OthersTyped, MoversTyped
      <3> QED BY <3>1, <3>3, <3>4, TypeParts
    <2> QED BY <1>5, <2>1, <2>2 DEF FetchKey
  <1>6. CASE StoreKey(r)
    <2>1. Moved(r)
      BY <1>6 DEF StoreKey, Moved, Stages, Answers, HasCreds
    <2>2. OthersTyped'
      BY <1>0, <1>6 DEF StoreKey, OthersTyped, FetchedInHand, shared, history, service, Configs
    <2>3. UNCHANGED fetched
      BY <1>6 DEF StoreKey
    <2> QED BY <2>1, <2>2, <2>3, MoveTyped, MoveInHand, TypeParts
  <1>7. CASE CheckSignature(r)
    <2>1. Moved(r)
      BY <1>7 DEF CheckSignature, Moved, Stages, Answers
    <2>2. /\ verified' \subseteq Requests
          /\ UNCHANGED <<setting, shared, req, signed, fetched, config, retries,
                         granted, credFetches, service>>
      BY <1>7 DEF CheckSignature, OthersTyped
    <2>3. OthersTyped'
      BY <2>2 DEF OthersTyped, shared, service
    <2> QED BY <2>1, <2>2, <2>3, MoveTyped, MoveInHand, TypeParts
  <1>8. CASE Validate(r)
    <2>1. Moved(r)
      BY <1>8 DEF Validate, Moved, Stages, Answers, HasCreds
    <2>2. OthersTyped'
      BY <1>8 DEF Validate, OthersTyped, shared, history, service, Configs
    <2>3. UNCHANGED fetched
      BY <1>8 DEF Validate
    <2> QED BY <2>1, <2>2, <2>3, MoveTyped, MoveInHand, TypeParts
  <1>9. CASE NeedCredentials(r)
    <2>1. Moved(r)
      BY <1>9 DEF NeedCredentials, Moved, Stages, Answers, HasCreds
    <2>2. OthersTyped'
      BY <1>9 DEF NeedCredentials, OthersTyped, shared, history, service, Configs
    <2>3. UNCHANGED fetched
      BY <1>9 DEF NeedCredentials
    <2> QED BY <2>1, <2>2, <2>3, MoveTyped, MoveInHand, TypeParts
  <1>10. CASE FetchCredentials(r)
    <2>1. Moved(r)
      BY <1>10 DEF FetchCredentials, Moved, Stages, Answers
    <2>2. /\ config' \in [Requests -> Configs]
          /\ credFetches' \in [Buckets -> Nat]
          /\ UNCHANGED <<setting, shared, req, signed, fetched, retries, granted,
                         verified, service>>
      <3>1. credFetches' \in [Buckets -> Nat]
        BY <1>0, <1>10 DEF FetchCredentials, OthersTyped
      <3>2. config' \in [Requests -> Configs]
        BY <1>10 DEF FetchCredentials, OthersTyped, Configs
      <3> QED BY <1>10, <3>1, <3>2 DEF FetchCredentials
    <2>3. OthersTyped'
      BY <2>2 DEF OthersTyped, shared, service
    <2> QED BY <2>1, <2>2, <2>3, MoveTyped, MoveInHand, TypeParts
  <1>11. CASE WriteBack(r)
    <2>1. Moved(r)
      BY <1>11 DEF WriteBack, Moved, Stages, Answers, HasCreds
    <2>2. OthersTyped'
      BY <1>0, <1>11 DEF WriteBack, OthersTyped, shared, history, service, Configs
    <2>3. UNCHANGED fetched
      BY <1>11 DEF WriteBack
    <2> QED BY <2>1, <2>2, <2>3, MoveTyped, MoveInHand, TypeParts
  <1> QED BY <1>1, <1>2, <1>3, <1>4, <1>5, <1>6, <1>7, <1>8, <1>9, <1>10, <1>11,
             Filter(r) DEF Filter

LEMMA TypeForward ==
    ASSUME TypeInv, NEW r \in Requests, Send(r) \/ Forward(r)
    PROVE  TypeInv'
  <1>0. /\ req[r] \in Shape
        /\ AccessKey(r) \in AccessKeys
        /\ MaxRetries \in Nat
    BY ShapeFacts, RequestAssumption DEF TypeInv, RequestAssumption
  <1> OthersTyped /\ MoversTyped /\ FetchedInHand BY TypeParts
  <1>1. CASE Send(r)
    <2>1. Moved(r)
      BY <1>1 DEF Send, Moved, Stages, Answers, HasCreds
    <2>2. OthersTyped'
      BY <1>0, <1>1 DEF Send, OthersTyped, shared, history, service, Configs
    <2>3. UNCHANGED fetched
      BY <1>1 DEF Send
    <2> QED BY <2>1, <2>2, <2>3, MoveTyped, MoveInHand, TypeParts
  <1>2. CASE UpstreamPeer(r)
    <2>1. Moved(r)
      BY <1>2 DEF UpstreamPeer, Moved, Stages, Answers, HasCreds
    <2>2. OthersTyped'
      BY <1>2 DEF UpstreamPeer, OthersTyped, shared, history, service, Configs
    <2>3. UNCHANGED fetched
      BY <1>2 DEF UpstreamPeer
    <2> QED BY <2>1, <2>2, <2>3, MoveTyped, MoveInHand, TypeParts
  <1>3. CASE UpstreamRequest(r)
    <2>1. Moved(r)
      BY <1>3 DEF UpstreamRequest, Moved, Stages, Answers, HasCreds
    <2>2. OthersTyped'
      BY <1>3 DEF UpstreamRequest, OthersTyped, shared, history, service, Configs
    <2>3. UNCHANGED fetched
      BY <1>3 DEF UpstreamRequest
    <2> QED BY <2>1, <2>2, <2>3, MoveTyped, MoveInHand, TypeParts
  <1>4. CASE Retry(r)
    <2>1. Moved(r)
      BY <1>4 DEF Retry, Moved, Stages, Answers, HasCreds
    <2>2. OthersTyped'
      BY <1>0, <1>4 DEF Retry, OthersTyped, shared, history, service, Configs
    <2>3. UNCHANGED fetched
      BY <1>4 DEF Retry
    <2> QED BY <2>1, <2>2, <2>3, MoveTyped, MoveInHand, TypeParts
  <1>5. CASE Upstream(r)
    <2>1. Moved(r)
      BY <1>5 DEF Upstream, Moved, Stages, Answers, HasCreds
    <2>2. OthersTyped'
      BY <1>5 DEF Upstream, OthersTyped, shared, history, service, Configs
    <2>3. UNCHANGED fetched
      BY <1>5 DEF Upstream
    <2> QED BY <2>1, <2>2, <2>3, MoveTyped, MoveInHand, TypeParts
  <1>6. CASE Logging(r)
    <2>1. Moved(r)
      BY <1>6 DEF Logging, Moved, Stages, Answers, HasCreds
    <2>2. OthersTyped'
      BY <1>6 DEF Logging, OthersTyped, shared, history, service, Configs
    <2>3. UNCHANGED fetched
      BY <1>6 DEF Logging
    <2> QED BY <2>1, <2>2, <2>3, MoveTyped, MoveInHand, TypeParts
  <1> QED BY <1>1, <1>2, <1>3, <1>4, <1>5, <1>6, Send(r) \/ Forward(r) DEF Forward

LEMMA TypeStep == TypeInv /\ [Next]_vars => TypeInv'
  <1> SUFFICES ASSUME TypeInv, [Next]_vars PROVE TypeInv'
    OBVIOUS
  <1>1. ASSUME NEW r \in Requests, Send(r) \/ Filter(r) \/ Forward(r) PROVE TypeInv'
    BY <1>1, TypeFilter, TypeForward
  <1>2. ASSUME NEW a \in AccessKeys, NEW s \in Secrets, Rotate(a, s) PROVE TypeInv'
    BY <1>2 DEF Rotate, TypeInv, TypeOK, FetchedInHand, shared, history
  <1>3. CASE UNCHANGED vars
    BY <1>3 DEF vars, TypeInv, TypeOK, FetchedInHand, shared, history, service
  <1> QED BY <1>1, <1>2, <1>3 DEF Next

THEOREM TypeInvariant == Spec => []TypeInv
    BY TypeInit, TypeStep, PTL DEF Spec

\* Every variable keeps its type, whatever the requests do.
THEOREM TypeCorrect == Spec => []TypeOK
    BY TypeInvariant, PTL DEF TypeInv

--------------------------------------------------------------------------------
(* What a step of one request leaves to the others                         *)

Step(r) == Send(r) \/ Filter(r) \/ Forward(r)

Undisturbed(r) ==
    /\ req' = req /\ setting' = setting
    /\ \A q \in Requests \ {r} : pc'[q] = pc[q] /\ status'[q] = status[q]
    /\ \A q \in Requests \ {r} : config'[q] = config[q]
    /\ \A q \in Requests : pc[q] # "new" => signed'[q] = signed[q]
    /\ granted \subseteq granted' /\ verified \subseteq verified'
    /\ \A a \in AccessKeys : /\ issued[a] \subseteq issued'[a]
                             /\ keystore[a] # NoSecret => keystore'[a] # NoSecret

LEMMA StepFrame ==
    ASSUME TypeInv, NEW r \in Requests, Step(r)
    PROVE  Undisturbed(r)
  <1>0. /\ OthersTyped /\ MoversTyped /\ FetchedInHand
        /\ AccessKey(r) \in AccessKeys
        /\ NoSecret \notin Secrets
    BY TypeParts, ShapeFacts, RequestAssumption DEF TypeInv, RequestAssumption
  <1>1. \A q \in Requests \ {r} : pc'[q] = pc[q] /\ status'[q] = status[q]
    <2>1. pc' = [pc EXCEPT ![r] = pc'[r]] /\ status' = [status EXCEPT ![r] = status'[r]]
      <3>1. \/ \E label \in Stages : Goto(r, label)
            \/ \E answer \in Answers : Respond(r, answer)
        <4>1. CASE Send(r) BY <4>1 DEF Send, Stages, Answers, HasCreds
        <4>2. CASE LimitReached(r) BY <4>2 DEF LimitReached, Stages, Answers, HasCreds
        <4>3. CASE ShortCircuit(r) BY <4>3 DEF ShortCircuit, Stages, Answers, HasCreds
        <4>4. CASE CloneConfig(r) BY <4>4 DEF CloneConfig, Stages, Answers, HasCreds
        <4>5. CASE HasKey(r) BY <4>5 DEF HasKey, Stages, Answers, HasCreds
        <4>6. CASE FetchKey(r) BY <4>6 DEF FetchKey, Stages, Answers, HasCreds
        <4>7. CASE StoreKey(r) BY <4>7 DEF StoreKey, Stages, Answers, HasCreds
        <4>8. CASE CheckSignature(r) BY <4>8 DEF CheckSignature, Stages, Answers, HasCreds
        <4>9. CASE Validate(r) BY <4>9 DEF Validate, Stages, Answers, HasCreds
        <4>10. CASE NeedCredentials(r) BY <4>10 DEF NeedCredentials, Stages, Answers, HasCreds
        <4>11. CASE FetchCredentials(r) BY <4>11 DEF FetchCredentials, Stages, Answers, HasCreds
        <4>12. CASE WriteBack(r) BY <4>12 DEF WriteBack, Stages, Answers, HasCreds
        <4>13. CASE UpstreamPeer(r) BY <4>13 DEF UpstreamPeer, Stages, Answers, HasCreds
        <4>14. CASE UpstreamRequest(r) BY <4>14 DEF UpstreamRequest, Stages, Answers, HasCreds
        <4>15. CASE Retry(r) BY <4>15 DEF Retry, Stages, Answers, HasCreds
        <4>16. CASE Upstream(r) BY <4>16 DEF Upstream, Stages, Answers, HasCreds
        <4>17. CASE Logging(r) BY <4>17 DEF Logging, Stages, Answers, HasCreds
        <4> QED BY <4>1, <4>2, <4>3, <4>4, <4>5, <4>6, <4>7, <4>8, <4>9, <4>10,
                   <4>11, <4>12, <4>13, <4>14, <4>15, <4>16, <4>17,
                   Step(r) DEF Step, Filter, Forward
      <3> QED BY <1>0, <3>1 DEF Goto, Respond, MoversTyped
    <2> QED BY <1>0, <2>1 DEF MoversTyped
  <1>2. /\ req' = req /\ setting' = setting
        /\ granted \subseteq granted' /\ verified \subseteq verified'
    <2>1. CASE Send(r) BY <2>1 DEF Send, history
    <2>2. CASE LimitReached(r) BY <2>2 DEF LimitReached, history
    <2>3. CASE ShortCircuit(r) BY <2>3 DEF ShortCircuit, history
    <2>4. CASE CloneConfig(r) BY <2>4 DEF CloneConfig, history
    <2>5. CASE HasKey(r) BY <2>5 DEF HasKey, history
    <2>6. CASE FetchKey(r) BY <2>6 DEF FetchKey, history
    <2>7. CASE StoreKey(r) BY <2>7 DEF StoreKey, history
    <2>8. CASE CheckSignature(r) BY <2>8 DEF CheckSignature, history
    <2>9. CASE Validate(r) BY <2>9 DEF Validate, history
    <2>10. CASE NeedCredentials(r) BY <2>10 DEF NeedCredentials, history
    <2>11. CASE FetchCredentials(r) BY <2>11 DEF FetchCredentials, history
    <2>12. CASE WriteBack(r) BY <2>12 DEF WriteBack, history
    <2>13. CASE UpstreamPeer(r) BY <2>13 DEF UpstreamPeer, history
    <2>14. CASE UpstreamRequest(r) BY <2>14 DEF UpstreamRequest, history
    <2>15. CASE Retry(r) BY <2>15 DEF Retry, history
    <2>16. CASE Upstream(r) BY <2>16 DEF Upstream, history
    <2>17. CASE Logging(r) BY <2>17 DEF Logging, history
    <2> QED BY <2>1, <2>2, <2>3, <2>4, <2>5, <2>6, <2>7, <2>8, <2>9, <2>10,
               <2>11, <2>12, <2>13, <2>14, <2>15, <2>16, <2>17,
               Step(r) DEF Step, Filter, Forward
  <1>3. \A q \in Requests \ {r} : config'[q] = config[q]
    <2>1. CASE Send(r) BY <1>0, <2>1 DEF Send, OthersTyped
    <2>2. CASE LimitReached(r) BY <1>0, <2>2 DEF LimitReached, OthersTyped
    <2>3. CASE ShortCircuit(r) BY <1>0, <2>3 DEF ShortCircuit, OthersTyped
    <2>4. CASE CloneConfig(r) BY <1>0, <2>4 DEF CloneConfig, OthersTyped
    <2>5. CASE HasKey(r) BY <1>0, <2>5 DEF HasKey, OthersTyped
    <2>6. CASE FetchKey(r) BY <1>0, <2>6 DEF FetchKey, OthersTyped
    <2>7. CASE StoreKey(r) BY <1>0, <2>7 DEF StoreKey, OthersTyped
    <2>8. CASE CheckSignature(r) BY <1>0, <2>8 DEF CheckSignature, OthersTyped
    <2>9. CASE Validate(r) BY <1>0, <2>9 DEF Validate, OthersTyped
    <2>10. CASE NeedCredentials(r) BY <1>0, <2>10 DEF NeedCredentials, OthersTyped
    <2>11. CASE FetchCredentials(r) BY <1>0, <2>11 DEF FetchCredentials, OthersTyped
    <2>12. CASE WriteBack(r) BY <1>0, <2>12 DEF WriteBack, OthersTyped
    <2>13. CASE UpstreamPeer(r) BY <1>0, <2>13 DEF UpstreamPeer, OthersTyped
    <2>14. CASE UpstreamRequest(r) BY <1>0, <2>14 DEF UpstreamRequest, OthersTyped
    <2>15. CASE Retry(r) BY <1>0, <2>15 DEF Retry, OthersTyped
    <2>16. CASE Upstream(r) BY <1>0, <2>16 DEF Upstream, OthersTyped
    <2>17. CASE Logging(r) BY <1>0, <2>17 DEF Logging, OthersTyped
    <2> QED BY <2>1, <2>2, <2>3, <2>4, <2>5, <2>6, <2>7, <2>8, <2>9, <2>10,
               <2>11, <2>12, <2>13, <2>14, <2>15, <2>16, <2>17,
               Step(r) DEF Step, Filter, Forward
  <1>4. \A q \in Requests : pc[q] # "new" => signed'[q] = signed[q]
    <2>1. CASE Send(r) BY <1>0, <2>1 DEF Send, OthersTyped
    <2>2. CASE LimitReached(r) BY <1>0, <2>2 DEF LimitReached, OthersTyped
    <2>3. CASE ShortCircuit(r) BY <1>0, <2>3 DEF ShortCircuit, OthersTyped
    <2>4. CASE CloneConfig(r) BY <1>0, <2>4 DEF CloneConfig, OthersTyped
    <2>5. CASE HasKey(r) BY <1>0, <2>5 DEF HasKey, OthersTyped
    <2>6. CASE FetchKey(r) BY <1>0, <2>6 DEF FetchKey, OthersTyped
    <2>7. CASE StoreKey(r) BY <1>0, <2>7 DEF StoreKey, OthersTyped
    <2>8. CASE CheckSignature(r) BY <1>0, <2>8 DEF CheckSignature, OthersTyped
    <2>9. CASE Validate(r) BY <1>0, <2>9 DEF Validate, OthersTyped
    <2>10. CASE NeedCredentials(r) BY <1>0, <2>10 DEF NeedCredentials, OthersTyped
    <2>11. CASE FetchCredentials(r) BY <1>0, <2>11 DEF FetchCredentials, OthersTyped
    <2>12. CASE WriteBack(r) BY <1>0, <2>12 DEF WriteBack, OthersTyped
    <2>13. CASE UpstreamPeer(r) BY <1>0, <2>13 DEF UpstreamPeer, OthersTyped
    <2>14. CASE UpstreamRequest(r) BY <1>0, <2>14 DEF UpstreamRequest, OthersTyped
    <2>15. CASE Retry(r) BY <1>0, <2>15 DEF Retry, OthersTyped
    <2>16. CASE Upstream(r) BY <1>0, <2>16 DEF Upstream, OthersTyped
    <2>17. CASE Logging(r) BY <1>0, <2>17 DEF Logging, OthersTyped
    <2> QED BY <2>1, <2>2, <2>3, <2>4, <2>5, <2>6, <2>7, <2>8, <2>9, <2>10,
               <2>11, <2>12, <2>13, <2>14, <2>15, <2>16, <2>17,
               Step(r) DEF Step, Filter, Forward
  <1>5. \A a \in AccessKeys : /\ issued[a] \subseteq issued'[a]
                              /\ keystore[a] # NoSecret => keystore'[a] # NoSecret
    <2>1. CASE Send(r) BY <2>1 DEF Send, shared, service
    <2>2. CASE LimitReached(r) BY <2>2 DEF LimitReached, shared, service
    <2>3. CASE ShortCircuit(r) BY <2>3 DEF ShortCircuit, shared, service
    <2>4. CASE CloneConfig(r) BY <2>4 DEF CloneConfig, shared, service
    <2>5. CASE HasKey(r) BY <2>5 DEF HasKey, shared, service
    <2>6. CASE FetchKey(r) BY <2>6 DEF FetchKey, shared, service
    <2>7. CASE StoreKey(r)
      BY <1>0, <2>7 DEF StoreKey, OthersTyped, FetchedInHand
    <2>8. CASE CheckSignature(r) BY <2>8 DEF CheckSignature, shared, service
    <2>9. CASE Validate(r) BY <2>9 DEF Validate, shared, service
    <2>10. CASE NeedCredentials(r) BY <2>10 DEF NeedCredentials, shared, service
    <2>11. CASE FetchCredentials(r) BY <2>11 DEF FetchCredentials, shared, service
    <2>12. CASE WriteBack(r) BY <2>12 DEF WriteBack, shared, service
    <2>13. CASE UpstreamPeer(r) BY <2>13 DEF UpstreamPeer, shared, service
    <2>14. CASE UpstreamRequest(r) BY <2>14 DEF UpstreamRequest, shared, service
    <2>15. CASE Retry(r) BY <2>15 DEF Retry, shared, service
    <2>16. CASE Upstream(r) BY <2>16 DEF Upstream, shared, service
    <2>17. CASE Logging(r) BY <2>17 DEF Logging, shared, service
    <2> QED BY <2>1, <2>2, <2>3, <2>4, <2>5, <2>6, <2>7, <2>8, <2>9, <2>10,
               <2>11, <2>12, <2>13, <2>14, <2>15, <2>16, <2>17,
               Step(r) DEF Step, Filter, Forward
  <1> QED BY <1>1, <1>2, <1>3, <1>4, <1>5 DEF Undisturbed

--------------------------------------------------------------------------------
(* The bucket map: clones that are written back                            *)

\* What r has read, or has been told, of its bucket's configuration.
ConfigOf(r) ==
    /\ pc[r] = "writeback" => HasCreds(config[r])
    /\ pc[r] = "fetchcreds" => config[r] = "none"
    /\ config[r] # "unconfigured" => cosmap[Bucket(r)] # "unconfigured"
    /\ pc[r] \in Forwarding /\ ~req[r].expect => HasCreds(cosmap[Bucket(r)])

ConfigInv == \A r \in Requests : ConfigOf(r)

\* No entry of the map loses its credentials, none comes or goes.
Kept == \A b \in Buckets :
          /\ HasCreds(cosmap[b]) => HasCreds(cosmap'[b])
          /\ (cosmap[b] = "unconfigured") = (cosmap'[b] = "unconfigured")

LEMMA ConfigInit == Init => ConfigInv
    BY DEF Init, ConfigInv, ConfigOf, Forwarding

LEMMA KeptByStep ==
    ASSUME TypeInv, ConfigInv, NEW r \in Requests, Step(r)
    PROVE  Kept
  <1>0. OthersTyped /\ Bucket(r) \in Buckets
    BY TypeParts, ShapeFacts DEF TypeInv
  <1>1. CASE Send(r)
    BY <1>0, <1>1 DEF Send, Kept, shared
  <1>2. CASE LimitReached(r)
    BY <1>0, <1>2 DEF LimitReached, Kept, shared
  <1>3. CASE ShortCircuit(r)
    BY <1>0, <1>3 DEF ShortCircuit, Kept, shared
  <1>4. CASE CloneConfig(r)
    BY <1>0, <1>4 DEF CloneConfig, Kept, shared
  <1>5. CASE HasKey(r)
    BY <1>0, <1>5 DEF HasKey, Kept, shared
  <1>6. CASE FetchKey(r)
    BY <1>0, <1>6 DEF FetchKey, Kept, shared
  <1>7. CASE StoreKey(r)
    BY <1>0, <1>7 DEF StoreKey, Kept, shared
  <1>8. CASE CheckSignature(r)
    BY <1>0, <1>8 DEF CheckSignature, Kept, shared
  <1>9. CASE Validate(r)
    BY <1>0, <1>9 DEF Validate, Kept, shared
  <1>10. CASE NeedCredentials(r)
    BY <1>0, <1>10 DEF NeedCredentials, Kept, shared
  <1>11. CASE FetchCredentials(r)
    BY <1>0, <1>11 DEF FetchCredentials, Kept, shared
  <1>12. CASE WriteBack(r)
    <2>1. HasCreds(config[r]) /\ cosmap[Bucket(r)] # "unconfigured"
      BY <1>12 DEF WriteBack, ConfigInv, ConfigOf, HasCreds
    <2>2. cosmap' = [cosmap EXCEPT ![Bucket(r)] = config[r]]
      BY <1>12 DEF WriteBack
    <2> QED BY <1>0, <2>1, <2>2 DEF Kept, HasCreds, OthersTyped
  <1>13. CASE UpstreamPeer(r)
    BY <1>0, <1>13 DEF UpstreamPeer, Kept, shared
  <1>14. CASE UpstreamRequest(r)
    BY <1>0, <1>14 DEF UpstreamRequest, Kept, shared
  <1>15. CASE Retry(r)
    BY <1>0, <1>15 DEF Retry, Kept, shared
  <1>16. CASE Upstream(r)
    BY <1>0, <1>16 DEF Upstream, Kept, shared
  <1>17. CASE Logging(r)
    BY <1>0, <1>17 DEF Logging, Kept, shared
  <1> QED BY <1>1, <1>2, <1>3, <1>4, <1>5, <1>6, <1>7, <1>8, <1>9,
             <1>10, <1>11, <1>12, <1>13, <1>14, <1>15, <1>16, <1>17,
             Step(r) DEF Step, Filter, Forward

LEMMA ConfigStep ==
    ASSUME TypeInv, ConfigInv, NEW r \in Requests, Step(r)
    PROVE  ConfigInv'
  <1>0. /\ OthersTyped /\ MoversTyped /\ Bucket(r) \in Buckets
        /\ Undisturbed(r) /\ Kept /\ ConfigOf(r)
    BY TypeParts, ShapeFacts, StepFrame, KeptByStep DEF TypeInv, ConfigInv
  <1>1. ASSUME NEW q \in Requests, q # r PROVE ConfigOf(q)'
    <2>1. Bucket(q) \in Buckets /\ Bucket(q)' = Bucket(q)
      BY <1>0, ShapeFacts DEF TypeInv, Undisturbed, Bucket
    <2> QED BY <1>0, <1>1, <2>1 DEF ConfigInv, ConfigOf, Undisturbed, Kept, HasCreds
  <1>2. ConfigOf(r)'
    <2>0. Bucket(r)' = Bucket(r) /\ req' = req
      BY <1>0 DEF Undisturbed, Bucket
    <2>00. pc[r] \in Stages /\ config[r] \in Configs /\ r \in DOMAIN pc /\ r \in DOMAIN config
      BY <1>0 DEF MoversTyped, OthersTyped
    <2>1. CASE Send(r)
      BY <1>0, <2>0, <2>00, <2>1 DEF Send, ConfigOf, Kept, HasCreds, Goto, Respond, Forwarding,
        MoversTyped, OthersTyped, shared, Configs
    <2>2. CASE LimitReached(r)
      BY <1>0, <2>0, <2>00, <2>2 DEF LimitReached, ConfigOf, Kept, HasCreds, Goto, Respond, Forwarding,
        MoversTyped, OthersTyped, shared, Configs
    <2>3. CASE ShortCircuit(r)
      BY <1>0, <2>0, <2>00, <2>3 DEF ShortCircuit, ConfigOf, Kept, HasCreds, Goto, Respond, Forwarding,
        MoversTyped, OthersTyped, shared, Configs
    <2>4. CASE CloneConfig(r)
      BY <1>0, <2>0, <2>00, <2>4 DEF CloneConfig, ConfigOf, Kept, HasCreds, Goto, Respond, Forwarding,
        MoversTyped, OthersTyped, shared, Configs
    <2>5. CASE HasKey(r)
      BY <1>0, <2>0, <2>00, <2>5 DEF HasKey, ConfigOf, Kept, HasCreds, Goto, Respond, Forwarding,
        MoversTyped, OthersTyped, shared, Configs
    <2>6. CASE FetchKey(r)
      BY <1>0, <2>0, <2>00, <2>6 DEF FetchKey, ConfigOf, Kept, HasCreds, Goto, Respond, Forwarding,
        MoversTyped, OthersTyped, shared, Configs
    <2>7. CASE StoreKey(r)
      BY <1>0, <2>0, <2>00, <2>7 DEF StoreKey, ConfigOf, Kept, HasCreds, Goto, Respond, Forwarding,
        MoversTyped, OthersTyped, shared, Configs
    <2>8. CASE CheckSignature(r)
      BY <1>0, <2>0, <2>00, <2>8 DEF CheckSignature, ConfigOf, Kept, HasCreds, Goto, Respond, Forwarding,
        MoversTyped, OthersTyped, shared, Configs
    <2>9. CASE Validate(r)
      BY <1>0, <2>0, <2>00, <2>9 DEF Validate, ConfigOf, Kept, HasCreds, Goto, Respond, Forwarding,
        MoversTyped, OthersTyped, shared, Configs
    <2>10. CASE NeedCredentials(r)
      BY <1>0, <2>0, <2>00, <2>10 DEF NeedCredentials, ConfigOf, Kept, HasCreds, Goto, Respond, Forwarding,
        MoversTyped, OthersTyped, shared, Configs
    <2>11. CASE FetchCredentials(r)
      <3>1. pc[r] = "fetchcreds" /\ UNCHANGED cosmap
        BY <2>11 DEF FetchCredentials, shared
      <3>2. CASE \E c \in {"hmac", "api_key"} :
                   config' = [config EXCEPT ![r] = c] /\ Goto(r, "writeback")
        <4>1. cosmap[Bucket(r)] # "unconfigured"
          BY <2>11, <1>0 DEF FetchCredentials, ConfigOf
        <4> QED BY <2>0, <2>00, <3>1, <3>2, <4>1
                DEF ConfigOf, HasCreds, Goto, Forwarding
      <3>3. CASE Respond(r, "error") /\ UNCHANGED config
        BY <1>0, <2>0, <2>00, <3>1, <3>3 DEF ConfigOf, Respond, Forwarding
      <3> QED BY <2>11, <3>2, <3>3 DEF FetchCredentials
    <2>12. CASE WriteBack(r)
      BY <1>0, <2>0, <2>00, <2>12 DEF WriteBack, ConfigOf, Kept, HasCreds, Goto, Respond, Forwarding,
        MoversTyped, OthersTyped, shared, Configs
    <2>13. CASE UpstreamPeer(r)
      BY <1>0, <2>0, <2>00, <2>13 DEF UpstreamPeer, ConfigOf, Kept, HasCreds, Goto, Respond, Forwarding,
        MoversTyped, OthersTyped, shared, Configs
    <2>14. CASE UpstreamRequest(r)
      BY <1>0, <2>0, <2>00, <2>14 DEF UpstreamRequest, ConfigOf, Kept, HasCreds, Goto, Respond, Forwarding,
        MoversTyped, OthersTyped, shared, Configs
    <2>15. CASE Retry(r)
      BY <1>0, <2>0, <2>00, <2>15 DEF Retry, ConfigOf, Kept, HasCreds, Goto, Respond, Forwarding,
        MoversTyped, OthersTyped, shared, Configs
    <2>16. CASE Upstream(r)
      BY <1>0, <2>0, <2>00, <2>16 DEF Upstream, ConfigOf, Kept, HasCreds, Goto, Respond, Forwarding,
        MoversTyped, OthersTyped, shared, Configs
    <2>17. CASE Logging(r)
      BY <1>0, <2>0, <2>00, <2>17 DEF Logging, ConfigOf, Kept, HasCreds, Goto, Respond, Forwarding,
        MoversTyped, OthersTyped, shared, Configs
    <2> QED BY <2>1, <2>2, <2>3, <2>4, <2>5, <2>6, <2>7, <2>8, <2>9,
               <2>10, <2>11, <2>12, <2>13, <2>14, <2>15, <2>16, <2>17,
               Step(r) DEF Step, Filter, Forward
  <1> QED BY <1>1, <1>2 DEF ConfigInv

--------------------------------------------------------------------------------
(* The keystore: keys found missing, fetched and read again                *)

KeyOf(r) ==
    /\ pc[r] = "signature" => keystore[AccessKey(r)] # NoSecret
    /\ status[r] # "panic"

KeyInv == \A r \in Requests : KeyOf(r)

KeystoreIssued ==
    \A a \in AccessKeys : keystore[a] # NoSecret => keystore[a] \in issued[a]

LEMMA KeyInit == Init => KeyInv /\ KeystoreIssued
    BY DEF Init, KeyInv, KeyOf, KeystoreIssued

LEMMA IssuedStep ==
    ASSUME TypeInv, KeystoreIssued, NEW r \in Requests, Step(r)
    PROVE  KeystoreIssued'
  <1>0. OthersTyped /\ FetchedInHand /\ AccessKey(r) \in AccessKeys
    BY TypeParts, ShapeFacts DEF TypeInv
  <1>1. CASE Send(r)
    BY <1>0, <1>1 DEF Send, KeystoreIssued, shared, service
  <1>2. CASE LimitReached(r)
    BY <1>0, <1>2 DEF LimitReached, KeystoreIssued, shared, service
  <1>3. CASE ShortCircuit(r)
    BY <1>0, <1>3 DEF ShortCircuit, KeystoreIssued, shared, service
  <1>4. CASE CloneConfig(r)
    BY <1>0, <1>4 DEF CloneConfig, KeystoreIssued, shared, service
  <1>5. CASE HasKey(r)
    BY <1>0, <1>5 DEF HasKey, KeystoreIssued, shared, service
  <1>6. CASE FetchKey(r)
    BY <1>0, <1>6 DEF FetchKey, KeystoreIssued, shared, service
  <1>7. CASE StoreKey(r)
    BY <1>0, <1>7 DEF StoreKey, KeystoreIssued, OthersTyped, FetchedInHand
  <1>8. CASE CheckSignature(r)
    BY <1>0, <1>8 DEF CheckSignature, KeystoreIssued, shared, service
  <1>9. CASE Validate(r)
    BY <1>0, <1>9 DEF Validate, KeystoreIssued, shared, service
  <1>10. CASE NeedCredentials(r)
    BY <1>0, <1>10 DEF NeedCredentials, KeystoreIssued, shared, service
  <1>11. CASE FetchCredentials(r)
    BY <1>0, <1>11 DEF FetchCredentials, KeystoreIssued, shared, service
  <1>12. CASE WriteBack(r)
    BY <1>0, <1>12 DEF WriteBack, KeystoreIssued, shared, service
  <1>13. CASE UpstreamPeer(r)
    BY <1>0, <1>13 DEF UpstreamPeer, KeystoreIssued, shared, service
  <1>14. CASE UpstreamRequest(r)
    BY <1>0, <1>14 DEF UpstreamRequest, KeystoreIssued, shared, service
  <1>15. CASE Retry(r)
    BY <1>0, <1>15 DEF Retry, KeystoreIssued, shared, service
  <1>16. CASE Upstream(r)
    BY <1>0, <1>16 DEF Upstream, KeystoreIssued, shared, service
  <1>17. CASE Logging(r)
    BY <1>0, <1>17 DEF Logging, KeystoreIssued, shared, service
  <1> QED BY <1>1, <1>2, <1>3, <1>4, <1>5, <1>6, <1>7, <1>8, <1>9,
             <1>10, <1>11, <1>12, <1>13, <1>14, <1>15, <1>16, <1>17,
             Step(r) DEF Step, Filter, Forward

LEMMA KeyStep ==
    ASSUME TypeInv, KeyInv, NEW r \in Requests, Step(r)
    PROVE  KeyInv'
  <1>0. /\ OthersTyped /\ MoversTyped /\ FetchedInHand /\ AccessKey(r) \in AccessKeys
        /\ Undisturbed(r) /\ KeyOf(r) /\ NoSecret \notin Secrets
    BY TypeParts, ShapeFacts, StepFrame, RequestAssumption
    DEF TypeInv, KeyInv, RequestAssumption
  <1>00. /\ granted \subseteq granted' /\ verified \subseteq verified'
         /\ \A a \in AccessKeys : issued[a] \subseteq issued'[a]
         /\ \A a \in AccessKeys : keystore[a] # NoSecret => keystore'[a] # NoSecret
    BY <1>0 DEF Undisturbed
  <1>1. ASSUME NEW q \in Requests, q # r PROVE KeyOf(q)'
    <2>1. AccessKey(q) \in AccessKeys /\ AccessKey(q)' = AccessKey(q)
      BY <1>0, ShapeFacts DEF TypeInv, Undisturbed, AccessKey
    <2>2. KeyOf(q) /\ pc'[q] = pc[q] /\ status'[q] = status[q]
      BY <1>0, <1>1 DEF KeyInv, Undisturbed
    <2>3. keystore[AccessKey(q)] # NoSecret => keystore'[AccessKey(q)] # NoSecret
      BY <1>00, <2>1
    <2> QED BY <2>1, <2>2, <2>3 DEF KeyOf
  <1>2. KeyOf(r)'
    <2>0. AccessKey(r)' = AccessKey(r)
      BY <1>0 DEF Undisturbed, AccessKey
    <2>00. r \in DOMAIN pc /\ r \in DOMAIN status
      BY <1>0 DEF MoversTyped
    <2>1. CASE Send(r)
      BY <1>0, <2>0, <2>00, <2>1 DEF Send, KeyOf, Goto, Respond, shared
    <2>2. CASE LimitReached(r)
      BY <1>0, <2>0, <2>00, <2>2 DEF LimitReached, KeyOf, Goto, Respond, shared
    <2>3. CASE ShortCircuit(r)
      BY <1>0, <2>0, <2>00, <2>3 DEF ShortCircuit, KeyOf, Goto, Respond, shared
    <2>4. CASE CloneConfig(r)
      BY <1>0, <2>0, <2>00, <2>4 DEF CloneConfig, KeyOf, Goto, Respond, shared
    <2>5. CASE HasKey(r)
      BY <1>0, <2>0, <2>00, <2>5 DEF HasKey, KeyOf, Goto, Respond, shared
    <2>6. CASE FetchKey(r)
      BY <1>0, <2>0, <2>00, <2>6 DEF FetchKey, KeyOf, Goto, Respond, shared
    <2>7. CASE StoreKey(r)
      BY <1>0, <2>0, <2>00, <2>7
      DEF StoreKey, KeyOf, Goto, OthersTyped, FetchedInHand
    <2>8. CASE CheckSignature(r)
      BY <1>0, <2>0, <2>00, <2>8 DEF CheckSignature, KeyOf, Goto, Respond, shared
    <2>9. CASE Validate(r)
      BY <1>0, <2>0, <2>00, <2>9 DEF Validate, KeyOf, Goto, Respond, shared
    <2>10. CASE NeedCredentials(r)
      BY <1>0, <2>0, <2>00, <2>10 DEF NeedCredentials, KeyOf, Goto, Respond, shared
    <2>11. CASE FetchCredentials(r)
      BY <1>0, <2>0, <2>00, <2>11 DEF FetchCredentials, KeyOf, Goto, Respond, shared
    <2>12. CASE WriteBack(r)
      BY <1>0, <2>0, <2>00, <2>12 DEF WriteBack, KeyOf, Goto, Respond, shared
    <2>13. CASE UpstreamPeer(r)
      BY <1>0, <2>0, <2>00, <2>13 DEF UpstreamPeer, KeyOf, Goto, Respond, shared
    <2>14. CASE UpstreamRequest(r)
      BY <1>0, <2>0, <2>00, <2>14 DEF UpstreamRequest, KeyOf, Goto, Respond, shared
    <2>15. CASE Retry(r)
      BY <1>0, <2>0, <2>00, <2>15 DEF Retry, KeyOf, Goto, Respond, shared
    <2>16. CASE Upstream(r)
      BY <1>0, <2>0, <2>00, <2>16 DEF Upstream, KeyOf, Goto, Respond, shared
    <2>17. CASE Logging(r)
      BY <1>0, <2>0, <2>00, <2>17 DEF Logging, KeyOf, Goto, Respond, shared
    <2> QED BY <2>1, <2>2, <2>3, <2>4, <2>5, <2>6, <2>7, <2>8, <2>9,
               <2>10, <2>11, <2>12, <2>13, <2>14, <2>15, <2>16, <2>17,
               Step(r) DEF Step, Filter, Forward
  <1> QED BY <1>1, <1>2 DEF KeyInv

--------------------------------------------------------------------------------
(* What lets a request through                                             *)

Through == {"creds", "fetchcreds", "writeback"} \cup Forwarding

AuthOf(r) ==
    setting.validator /\ ~req[r].expect =>
        /\ pc[r] \in Through => r \in granted
        /\ setting.skip = "no" /\ ~req[r].multipart =>
             (pc[r] \in Through \cup {"validate"} =>
                r \in verified /\ signed[r] \in issued[AccessKey(r)])

AuthInv == \A r \in Requests : AuthOf(r)

LEMMA AuthInit == Init => AuthInv
    BY DEF Init, AuthInv, AuthOf, Through, Forwarding

LEMMA AuthStep ==
    ASSUME TypeInv, KeystoreIssued, AuthInv, NEW r \in Requests, Step(r)
    PROVE  AuthInv'
  <1>0. /\ OthersTyped /\ MoversTyped /\ AccessKey(r) \in AccessKeys
        /\ Undisturbed(r) /\ AuthOf(r)
    BY TypeParts, ShapeFacts, StepFrame DEF TypeInv, AuthInv
  <1>00. /\ granted \subseteq granted' /\ verified \subseteq verified'
         /\ \A a \in AccessKeys : issued[a] \subseteq issued'[a]
         /\ \A a \in AccessKeys : keystore[a] # NoSecret => keystore'[a] # NoSecret
    BY <1>0 DEF Undisturbed
  <1>1. ASSUME NEW q \in Requests, AuthOf(q), pc[q] # "new",
               pc'[q] \in Through => pc[q] \in Through \/ q \in granted',
               pc'[q] \in Through \cup {"validate"} => pc[q] \in Through \cup {"validate"}
        PROVE  AuthOf(q)'
    <2>1. /\ AccessKey(q) \in AccessKeys /\ AccessKey(q)' = AccessKey(q)
          /\ req' = req /\ setting' = setting /\ signed'[q] = signed[q]
      BY <1>0, <1>1, ShapeFacts DEF TypeInv, Undisturbed, AccessKey
    <2>2. /\ q \in granted => q \in granted'
          /\ q \in verified => q \in verified'
          /\ signed[q] \in issued[AccessKey(q)] => signed[q] \in issued'[AccessKey(q)]
      BY <1>00, <2>1
    <2> QED BY <1>1, <2>1, <2>2 DEF AuthOf
  <1>2. ASSUME NEW q \in Requests, pc'[q] \notin Through \cup {"validate"}
        PROVE  AuthOf(q)'
    BY <1>2 DEF AuthOf
  <1>3. ASSUME NEW q \in Requests, q # r PROVE AuthOf(q)'
    <2>1. pc'[q] = pc[q] /\ AuthOf(q)
      BY <1>0, <1>3 DEF Undisturbed, AuthInv
    <2>2. CASE pc[q] = "new"
      BY <1>2, <2>1, <2>2 DEF Through, Forwarding
    <2>3. CASE pc[q] # "new"
      BY <1>1, <2>1, <2>3
    <2> QED BY <2>2, <2>3
  <1>4. AuthOf(r)'
    <2>0. r \in DOMAIN pc /\ req' = req /\ setting' = setting
      BY <1>0 DEF MoversTyped, Undisturbed
    <2>1. CASE Send(r)
      <3>1. pc'[r] \notin Through \cup {"validate"}
        BY <2>1, <2>0 DEF Send, Goto, Respond, Through, Forwarding
      <3> QED BY <1>2, <3>1
    <2>2. CASE LimitReached(r)
      <3>1. pc'[r] \notin Through \cup {"validate"}
        BY <2>2, <2>0 DEF LimitReached, Goto, Respond, Through, Forwarding
      <3> QED BY <1>2, <3>1
    <2>5. CASE HasKey(r)
      <3>1. pc'[r] \notin Through \cup {"validate"}
        BY <2>5, <2>0 DEF HasKey, Goto, Respond, Through, Forwarding
      <3> QED BY <1>2, <3>1
    <2>6. CASE FetchKey(r)
      <3>1. pc'[r] \notin Through \cup {"validate"}
        BY <2>6, <2>0 DEF FetchKey, Goto, Respond, Through, Forwarding
      <3> QED BY <1>2, <3>1
    <2>7. CASE StoreKey(r)
      <3>1. pc'[r] \notin Through \cup {"validate"}
        BY <2>7, <2>0 DEF StoreKey, Goto, Respond, Through, Forwarding
      <3> QED BY <1>2, <3>1
    <2>17. CASE Logging(r)
      <3>1. pc'[r] \notin Through \cup {"validate"}
        BY <2>17, <2>0 DEF Logging, Goto, Respond, Through, Forwarding
      <3> QED BY <1>2, <3>1
    <2>16. CASE Upstream(r)
      <3>1. pc'[r] \notin Through \cup {"validate"}
        BY <2>16, <2>0 DEF Upstream, Goto, Respond, Through, Forwarding
      <3> QED BY <1>2, <3>1
    <2>10. CASE NeedCredentials(r)
      <3>1. pc[r] \in Through /\ pc[r] # "new"
        BY <2>10 DEF NeedCredentials, Through, Forwarding
      <3> QED BY <1>0, <1>1, <3>1
    <2>11. CASE FetchCredentials(r)
      <3>1. pc[r] \in Through /\ pc[r] # "new"
        BY <2>11 DEF FetchCredentials, Through, Forwarding
      <3> QED BY <1>0, <1>1, <3>1
    <2>12. CASE WriteBack(r)
      <3>1. pc[r] \in Through /\ pc[r] # "new"
        BY <2>12 DEF WriteBack, Through, Forwarding
      <3> QED BY <1>0, <1>1, <3>1
    <2>13. CASE UpstreamPeer(r)
      <3>1. pc[r] \in Through /\ pc[r] # "new"
        BY <2>13 DEF UpstreamPeer, Through, Forwarding
      <3> QED BY <1>0, <1>1, <3>1
    <2>14. CASE UpstreamRequest(r)
      <3>1. pc[r] \in Through /\ pc[r] # "new"
        BY <2>14 DEF UpstreamRequest, Through, Forwarding
      <3> QED BY <1>0, <1>1, <3>1
    <2>15. CASE Retry(r)
      <3>1. pc[r] \in Through /\ pc[r] # "new"
        BY <2>15 DEF Retry, Through, Forwarding
      <3> QED BY <1>0, <1>1, <3>1
    <2>3. CASE ShortCircuit(r)
      BY <2>3, <2>0 DEF ShortCircuit, AuthOf, Goto, Respond, Through, Forwarding
    <2>4. CASE CloneConfig(r)
      BY <2>4, <2>0 DEF CloneConfig, AuthOf, Goto, Through, Forwarding
    <2>8. CASE CheckSignature(r)
      <3>1. CASE pc'[r] = "validate"
        <4>1. /\ r \in verified' /\ signed' = signed /\ issued' = issued
              /\ keystore[AccessKey(r)] # NoSecret
              /\ signed[r] = keystore[AccessKey(r)]
          BY <2>8, <3>1, <2>0 DEF CheckSignature, Respond, service
        <4>2. signed[r] \in issued[AccessKey(r)]
          BY <4>1, <1>0 DEF KeystoreIssued
        <4>3. AccessKey(r)' = AccessKey(r) BY <2>0 DEF AccessKey
        <4> QED BY <3>1, <4>1, <4>2, <4>3 DEF AuthOf, Through, Forwarding
      <3>2. CASE pc'[r] # "validate"
        <4>1. pc'[r] = "logging"
          BY <2>8, <3>2, <2>0 DEF CheckSignature, Goto, Respond
        <4> QED BY <1>2, <4>1 DEF Through, Forwarding
      <3> QED BY <3>1, <3>2
    <2>9. CASE Validate(r)
      <3>1. pc[r] = "validate" /\ ((pc'[r] = "creds" /\ r \in granted') \/ pc'[r] = "logging")
        BY <2>9, <2>0 DEF Validate, Goto, Respond
      <3> QED BY <1>0, <1>1, <3>1 DEF Through, Forwarding
    <2> QED BY <2>1, <2>2, <2>3, <2>4, <2>5, <2>6, <2>7, <2>8, <2>9,
               <2>10, <2>11, <2>12, <2>13, <2>14, <2>15, <2>16, <2>17,
               Step(r) DEF Step, Filter, Forward
  <1> QED BY <1>3, <1>4 DEF AuthInv

--------------------------------------------------------------------------------
(* The inductive invariant, and what it gives                              *)

IInv == TypeInv /\ ConfigInv /\ KeyInv /\ KeystoreIssued /\ AuthInv

LEMMA IInvInit == Init => IInv
    BY TypeInit, ConfigInit, KeyInit, AuthInit DEF IInv

LEMMA IInvStep == IInv /\ [Next]_vars => IInv' /\ Kept
  <1> SUFFICES ASSUME IInv, [Next]_vars PROVE IInv' /\ Kept
    OBVIOUS
  <1>0. TypeInv'
    BY TypeStep DEF IInv
  <1>1. ASSUME NEW r \in Requests, Step(r) PROVE IInv' /\ Kept
    BY <1>0, <1>1, KeptByStep, ConfigStep, IssuedStep, KeyStep, AuthStep DEF IInv
  <1>2. ASSUME NEW a \in AccessKeys, NEW s \in Secrets, Rotate(a, s)
        PROVE  IInv' /\ Kept
    <2>1. UNCHANGED <<setting, shared, pc, req, signed, fetched, config, status,
                      retries, history, issued>>
      BY <1>2 DEF Rotate
    <2> QED BY <1>0, <2>1
            DEF IInv, Kept, ConfigInv, ConfigOf, KeyInv, KeyOf, KeystoreIssued,
                AuthInv, AuthOf, Bucket, AccessKey, shared, history
  <1>3. CASE UNCHANGED vars
    BY <1>0, <1>3
    DEF vars, IInv, Kept, ConfigInv, ConfigOf, KeyInv, KeyOf, KeystoreIssued,
        AuthInv, AuthOf, Bucket, AccessKey, shared, history, service
  <1> QED BY <1>1, <1>2, <1>3 DEF Next, Step

THEOREM Invariant == Spec => []IInv
    BY IInvInit, IInvStep, PTL DEF Spec

\* Whoever wrote back in between, a request that request_filter let through
\* finds credentials when it is signed for the backend.
THEOREM CredentialsFoundHolds == Spec => []CredentialsFound
  <1>1. IInv => CredentialsFound
    BY DEF IInv, ConfigInv, ConfigOf, CredentialsFound
  <1> QED BY <1>1, Invariant, PTL

\* No write-back of a clone takes credentials or an entry out of the map, or
\* puts an entry in.
THEOREM CredentialsKeptHolds == Spec => CredentialsKept
  <1>1. IInv /\ [Next]_vars => [Kept]_vars
    BY IInvStep
  <1>2. Spec => [][Kept]_vars
    BY <1>1, Invariant, PTL DEF Spec
  <1> QED BY <1>2, PTL DEF CredentialsKept, Kept

\* The key that was just inserted is there when it is read.
THEOREM NoPanicHolds == Spec => []NoPanic
  <1>1. IInv => NoPanic
    BY DEF IInv, KeyInv, KeyOf, NoPanic
  <1> QED BY <1>1, Invariant, PTL

\* But for Expect: 100-continue, which skips request_filter, what is forwarded
\* was granted and, where signatures count, verified with a secret that was
\* issued for its key at some time.
THEOREM ForwardedIsAuthorizedHolds == Spec => []ForwardedIsAuthorized
  <1>1. IInv => ForwardedIsAuthorized
    BY DEF IInv, AuthInv, AuthOf, ForwardedIsAuthorized, Unfiltered, Through
  <1> QED BY <1>1, Invariant, PTL
================================================================================
