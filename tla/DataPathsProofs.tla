--------------------------- MODULE DataPathsProofs ---------------------------
(***************************************************************************)
(* Proofs about the paths between the vehicle or the cloud and the owner:  *)
(* the requests of a coordinator (CloudRequests), a topic's messages       *)
(* (ParallaxTopics), a closure's frames (ClosureViews), the frames of a    *)
(* live session (LiveSignalling), the offer it sends (OfferTrimming), the  *)
(* charging graph (ChargingGraph), and what the sensors tell               *)
(* (SensorViews).  Each part states the inductive invariant of its module, *)
(* that every step keeps it, and what it gives; the offer and the graph    *)
(* rest on what the loops over a list return (Lists), the sensors on what  *)
(* the rows of their tables have in common.                                *)
(***************************************************************************)
EXTENDS CloudRequests, ParallaxTopics, ClosureViews, LiveSignalling, OfferTrimming,
        ChargingGraph, SensorViews, Lists, Integers, WellFoundedInduction, TLAPS

-----------------------------------------------------------------------------
(* The GraphQL client.                                                     *)

Busy(r) == inFlight[r] # NoRefresh

(* What a refresh is answered with is not older than the refresh.          *)
AnswersAreRecent ==
    \A r \in Refreshes :
        /\ inFlight[r].began <= account
        /\ inFlight[r].answer = "data" => inFlight[r].began <= inFlight[r].version

(* Only tokens that are not valid are refused.                             *)
RefusalsAreSo ==
    \A r \in Refreshes : inFlight[r].answer = "Unauthenticated" => ~tokens

(* While no two refreshes have overlapped, there is at most one.           *)
OneAtATime == apart => \A q, r \in Refreshes : Busy(q) /\ Busy(r) => q = r

(* ... and a getUserInfo without the option codes follows a rejection,     *)
(* which has cleared the flag.                                             *)
PlainOnceRejected ==
    poller = "user" /\ apart =>
        \A r \in Refreshes : Busy(r) /\ ~inFlight[r].codes => ~optionCodes

CloudInv ==
    /\ CloudTypeOK /\ CurrentIsRecent /\ FlagTells /\ ReauthMeansRefused
    /\ AnswersAreRecent /\ RefusalsAreSo /\ OneAtATime /\ PlainOnceRejected

(* A list of one or two errors raises one of three classes, and the class  *)
(* of refused tokens only if one of them refuses the tokens.               *)
LEMMA RaisedClass ==
    \A a, b \in Codes :
        /\ Raised(<<a, b>>) \in {"GraphQL", "Unauthenticated", "failed"}
        /\ Raised(<<a, b>>) = "Unauthenticated" => "UNAUTHENTICATED" \in {a, b}
<1> TAKE a, b \in Codes
<1> DEFINE list  == <<a, b>>
           known == {i \in DOMAIN list : list[i] # "unmapped"}
           first == CHOOSE i \in known : \A j \in known : i <= j
<1>1. DOMAIN list = {1, 2} /\ list[1] = a /\ list[2] = b
  OBVIOUS
<1>2. CASE known = {}
  BY <1>2 DEF Raised
<1>3. CASE known # {}
  <2>1. \E i \in known : \A j \in known : i <= j
    <3>1. CASE 1 \in known
      BY <3>1, <1>1
    <3>2. CASE 1 \notin known
      BY <3>2, <1>1, <1>3
    <3> QED BY <3>1, <3>2
  <2>2. first \in known
    BY <2>1
  <2>3. list[first] \in {a, b}
    BY <2>2, <1>1
  <2>4. Raised(list) = ErrorClass(list[first])
    BY <1>3 DEF Raised
  <2> QED BY <2>3, <2>4 DEF ErrorClass
<1> QED BY <1>2, <1>3

LEMMA RaisedOfTwo ==
    ASSUME NEW codes, NEW x \in RaisedOf(codes)
    PROVE  \E a, b \in codes : x = Raised(<<a, b>>)
<1>1. PICK list \in codes \X codes : x = Raised(list)
  BY DEF RaisedOf
<1>2. list[1] \in codes /\ list[2] \in codes /\ list = <<list[1], list[2]>>
  OBVIOUS
<1> QED BY <1>1, <1>2

(* What the server may answer, in general and while the tokens are valid.  *)
LEMMA AnswersPossible ==
    /\ Complaints \subseteq {"GraphQL", "failed"}
    /\ Refusals \subseteq {"GraphQL", "Unauthenticated", "failed"}
    /\ Raised(<<"UNAUTHENTICATED">>) = "Unauthenticated"
    /\ Raised(<<"unmapped">>) = "GraphQL"
<1>1. Refusals \subseteq {"GraphQL", "Unauthenticated", "failed"}
  <2> SUFFICES ASSUME NEW x \in Refusals
               PROVE  x \in {"GraphQL", "Unauthenticated", "failed"}
    OBVIOUS
  <2>1. PICK a \in Codes, b \in Codes : x = Raised(<<a, b>>)
    BY RaisedOfTwo DEF Refusals
  <2> QED BY <2>1, RaisedClass
<1>2. Complaints \subseteq {"GraphQL", "failed"}
  <2> SUFFICES ASSUME NEW x \in Complaints
               PROVE  x \in {"GraphQL", "failed"}
    OBVIOUS
  <2>1. PICK a \in Codes \ {"UNAUTHENTICATED"}, b \in Codes \ {"UNAUTHENTICATED"} :
            x = Raised(<<a, b>>)
    BY RaisedOfTwo DEF Complaints
  <2>2. a \in Codes /\ b \in Codes /\ "UNAUTHENTICATED" \notin {a, b}
    OBVIOUS
  <2> QED BY <2>1, <2>2, RaisedClass
<1>3. Raised(<<"unmapped">>) = "GraphQL"
  <2>1. {i \in DOMAIN <<"unmapped">> : <<"unmapped">>[i] # "unmapped"} = {}
    OBVIOUS
  <2> QED BY <2>1 DEF Raised
<1>4. Raised(<<"UNAUTHENTICATED">>) = "Unauthenticated"
  <2> DEFINE list  == <<"UNAUTHENTICATED">>
             known == {i \in DOMAIN list : list[i] # "unmapped"}
             first == CHOOSE i \in known : \A j \in known : i <= j
  <2>1. known = {1}
    OBVIOUS
  <2>2. first = 1
    BY <2>1
  <2>3. Raised(list) = ErrorClass(list[first])
    BY <2>1 DEF Raised
  <2> QED BY <2>2, <2>3 DEF ErrorClass
<1> QED BY <1>1, <1>2, <1>3, <1>4

(* The types, one by one.                                                  *)
LEMMA CloudTypes ==
    CloudTypeOK <=>
        /\ poller \in {"user", "features", "wallboxes"} /\ account \in 0..MaxAccount
        /\ tokens \in BOOLEAN /\ well \in BOOLEAN /\ takesCodes \in BOOLEAN
        /\ reauth \in BOOLEAN /\ apart \in BOOLEAN /\ optionCodes \in BOOLEAN
        /\ success \in BOOLEAN /\ armed \in BOOLEAN
        /\ inFlight \in [Refreshes ->
              [codes : BOOLEAN, began : 0..MaxAccount, version : 0..MaxAccount,
               answer : Outcomes \cup {"idle", "none"}]]
        /\ data # Unknown => data \in [version : 0..MaxAccount, codes : BOOLEAN]
        /\ errors \in 0..MaxErrors /\ asOf \in 0..MaxAccount
        /\ success => data # Unknown
BY Zenon DEF CloudTypeOK

(* The server's steps change only what it holds.                           *)
LEMMA ServerKeepsCloud ==
    ASSUME CloudInv, AccountChanges \/ ServerChanges
    PROVE  CloudInv'
<1> USE CloudAssumption
<1>1. CASE AccountChanges
  <2>1. /\ account' = account + 1 /\ account' \in 0..MaxAccount
        /\ UNCHANGED <<poller, tokens, well, takesCodes, inFlight, data, errors, success, armed,
                       optionCodes, reauth, asOf, apart>>
    BY <1>1 DEF AccountChanges, pollVars, CloudInv, CloudTypeOK
  <2>2. CloudTypeOK'
    BY <2>1, Zenon DEF CloudInv, CloudTypeOK
  <2>3. AnswersAreRecent'
    BY <2>1 DEF CloudInv, CloudTypeOK, AnswersAreRecent
  <2>4. /\ CurrentIsRecent' /\ FlagTells' /\ ReauthMeansRefused' /\ RefusalsAreSo'
        /\ OneAtATime' /\ PlainOnceRejected'
    BY <2>1, Zenon DEF CloudInv, CurrentIsRecent, FlagTells, ReauthMeansRefused, RefusalsAreSo,
                       OneAtATime, PlainOnceRejected, Busy
  <2> QED BY <2>2, <2>3, <2>4, Zenon DEF CloudInv
<1>2. CASE ServerChanges
  <2>1. /\ UNCHANGED <<poller, account, takesCodes, inFlight, data, errors, success, armed,
                       optionCodes, reauth, asOf, apart>>
        /\ tokens' \in BOOLEAN /\ well' \in BOOLEAN /\ (tokens' => tokens)
    <3>1. tokens \in BOOLEAN /\ well \in BOOLEAN
      BY CloudTypes, Zenon DEF CloudInv
    <3>2. (tokens' = tokens \/ tokens' = FALSE) /\ (well' = well \/ well' = TRUE)
      BY <1>2, Zenon DEF ServerChanges
    <3>3. tokens' \in BOOLEAN
      BY <3>1, <3>2, Zenon
    <3>4. well' \in BOOLEAN
      BY <3>1, <3>2, Zenon
    <3>5. tokens' => tokens
      <4>1. CASE tokens' = tokens
        BY <4>1, Zenon
      <4>2. CASE tokens' = FALSE
        BY <4>2, Zenon
      <4> QED BY <3>2, <4>1, <4>2, Zenon
    <3> QED BY <1>2, <3>3, <3>4, <3>5, Zenon DEF ServerChanges, pollVars
  <2>2. CloudTypeOK'
    BY <2>1, Zenon DEF CloudInv, CloudTypeOK
  <2>3. /\ CurrentIsRecent' /\ FlagTells' /\ AnswersAreRecent'
        /\ OneAtATime' /\ PlainOnceRejected'
    BY <2>1, Zenon DEF CloudInv, CurrentIsRecent, FlagTells, AnswersAreRecent, OneAtATime,
                       PlainOnceRejected, Busy
  <2>4. ReauthMeansRefused' /\ RefusalsAreSo'
    BY <2>1, Zenon DEF CloudInv, ReauthMeansRefused, RefusalsAreSo
  <2> QED BY <2>2, <2>3, <2>4, Zenon DEF CloudInv
<1> QED BY <1>1, <1>2

(* At the start.                                                           *)
LEMMA CloudStarts == CloudInit => CloudInv
<1> USE CloudAssumption
<1> SUFFICES ASSUME CloudInit PROVE CloudInv
  OBVIOUS
<1>1. \A r \in Refreshes : inFlight[r] = NoRefresh
  BY DEF CloudInit
<1>2. [version |-> 0, codes |-> poller = "user" /\ takesCodes]
          \in [version : 0..MaxAccount, codes : BOOLEAN]
  <2>1. (poller = "user" /\ takesCodes) \in BOOLEAN
    OBVIOUS
  <2> QED BY <2>1
<1>3. inFlight \in [Refreshes ->
          [codes : BOOLEAN, began : 0..MaxAccount, version : 0..MaxAccount,
           answer : Outcomes \cup {"idle", "none"}]]
  <2>1. NoRefresh \in [codes : BOOLEAN, began : 0..MaxAccount, version : 0..MaxAccount,
                       answer : Outcomes \cup {"idle", "none"}]
    BY DEF NoRefresh
  <2> QED BY <2>1 DEF CloudInit
<1>4. /\ account = 0 /\ asOf = 0 /\ 0 \in 0..MaxAccount /\ errors \in 0..MaxErrors
  BY DEF CloudInit
<1>5. /\ success \in BOOLEAN
      /\ data # Unknown => data \in [version : 0..MaxAccount, codes : BOOLEAN]
      /\ success => data # Unknown
  BY <1>2, Zenon DEF CloudInit
<1>6. CloudTypeOK
  BY <1>3, <1>4, <1>5, CloudTypes, Zenon DEF CloudInit
<1>7. CurrentIsRecent
  BY DEF CloudInit, CurrentIsRecent
<1>8. FlagTells
  <2> SUFFICES ASSUME poller = "user", success PROVE optionCodes = data.codes
    BY DEF FlagTells
  <2>1. data = [version |-> 0, codes |-> poller = "user" /\ takesCodes]
    BY Zenon DEF CloudInit
  <2>2. data.codes = (poller = "user" /\ takesCodes)
    BY <2>1
  <2>3. takesCodes = (poller = "user" /\ takesCodes)
    <3>1. takesCodes \in BOOLEAN /\ (poller = "user" /\ takesCodes) \in BOOLEAN
      BY Zenon DEF CloudInit
    <3>2. takesCodes <=> (poller = "user" /\ takesCodes)
      OBVIOUS
    <3> QED BY <3>1, <3>2, Zenon
  <2> QED BY <2>2, <2>3 DEF CloudInit
<1>9. ReauthMeansRefused /\ OneAtATime /\ PlainOnceRejected
  BY <1>1 DEF CloudInit, ReauthMeansRefused, OneAtATime, PlainOnceRejected, Busy
<1>10. AnswersAreRecent /\ RefusalsAreSo
  BY <1>1, <1>4 DEF AnswersAreRecent, RefusalsAreSo, NoRefresh
<1> QED BY <1>6, <1>7, <1>8, <1>9, <1>10 DEF CloudInv

(* What a step does to one refresh, it does to no other.                   *)
LEMMA OthersWait ==
    ASSUME CloudTypeOK, NEW r \in Refreshes, NEW f,
           inFlight' = [inFlight EXCEPT ![r] = f]
    PROVE  /\ inFlight'[r] = f
           /\ \A q \in Refreshes \ {r} : inFlight'[q] = inFlight[q]
           /\ f \in [codes : BOOLEAN, began : 0..MaxAccount, version : 0..MaxAccount,
                     answer : Outcomes \cup {"idle", "none"}]
              => inFlight' \in [Refreshes ->
                     [codes : BOOLEAN, began : 0..MaxAccount, version : 0..MaxAccount,
                      answer : Outcomes \cup {"idle", "none"}]]
BY DEF CloudTypeOK

(* An answer of a request.                                                 *)
LEMMA AnswersKeepsCloud ==
    ASSUME CloudInv, NEW r \in Refreshes, Answers(r)
    PROVE  CloudInv'
<1> USE CloudAssumption
<1> DEFINE Request == [codes : BOOLEAN, began : 0..MaxAccount, version : 0..MaxAccount,
                       answer : Outcomes \cup {"idle", "none"}]
<1>1. /\ inFlight \in [Refreshes -> Request] /\ account \in 0..MaxAccount
      /\ tokens \in BOOLEAN /\ inFlight[r] \in Request /\ inFlight[r].answer = "none"
      /\ UNCHANGED <<poller, account, tokens, well, takesCodes, data, errors, success, armed,
                     optionCodes, reauth, asOf, apart>>
  BY CloudTypes DEF CloudInv, Answers, serverVars, pollVars
<1>2. PICK a \in {"data", "missing", "failed", "GraphQL", "Unauthenticated"} :
          /\ a = "Unauthenticated" => ~tokens
          /\ inFlight' = [inFlight EXCEPT
                ![r].answer = IF a = "GraphQL" /\ ~inFlight[r].codes THEN "failed" ELSE a,
                ![r].version = IF a = "data" THEN account ELSE 0]
  <2> DEFINE proper == IF ~tokens THEN Raised(<<"UNAUTHENTICATED">>)
                       ELSE IF inFlight[r].codes /\ ~takesCodes THEN Raised(<<"unmapped">>)
                       ELSE "data"
             wrong == {"missing", "failed"} \cup (IF tokens THEN Complaints ELSE Refusals)
  <2>1. PICK a \in {proper} \cup (IF well THEN {} ELSE wrong) :
            inFlight' = [inFlight EXCEPT
                ![r].answer = IF a = "GraphQL" /\ ~inFlight[r].codes THEN "failed" ELSE a,
                ![r].version = IF a = "data" THEN account ELSE 0]
    BY Zenon DEF Answers
  <2>2. /\ proper \in {"data", "GraphQL", "Unauthenticated"}
        /\ proper = "Unauthenticated" => ~tokens
    BY AnswersPossible
  <2>3. /\ wrong \subseteq {"missing", "failed", "GraphQL", "Unauthenticated"}
        /\ "Unauthenticated" \in wrong => ~tokens
    BY AnswersPossible
  <2>4. a = proper \/ a \in wrong
    BY <2>1
  <2> HIDE DEF proper, wrong
  <2>5. /\ a \in {"data", "missing", "failed", "GraphQL", "Unauthenticated"}
        /\ a = "Unauthenticated" => ~tokens
    BY <2>2, <2>3, <2>4
  <2> QED BY <2>1, <2>5
<1> DEFINE b == IF a = "GraphQL" /\ ~inFlight[r].codes THEN "failed" ELSE a
           v == IF a = "data" THEN account ELSE 0
           f == [inFlight[r] EXCEPT !.answer = b, !.version = v]
<1>3. inFlight' = [inFlight EXCEPT ![r] = f]
  BY <1>1, <1>2
<1>3a. /\ b \in {a, "failed"} /\ b \in Outcomes
      /\ v \in 0..MaxAccount /\ (b = "data" => v = account)
  <2>1. CASE a = "data"
    BY <2>1, <1>1 DEF Outcomes
  <2>2. CASE a # "data"
    BY <2>2, <1>1, <1>2 DEF Outcomes
  <2> QED BY <2>1, <2>2
<1> HIDE DEF b, v
<1>4. /\ f \in Request /\ f.codes = inFlight[r].codes /\ f.began = inFlight[r].began
      /\ f.answer \in Outcomes /\ f.answer \in {a, "failed"}
      /\ f.answer = "data" => f.version = account
  BY <1>1, <1>3a
<1> HIDE DEF f
<1>5. /\ inFlight'[r] = f /\ inFlight' \in [Refreshes -> Request]
      /\ \A q \in Refreshes \ {r} : inFlight'[q] = inFlight[q]
  BY <1>3, <1>4, OthersWait DEF CloudInv
<1>6. inFlight[r] # NoRefresh /\ f # NoRefresh
  BY <1>1, <1>4 DEF NoRefresh, Outcomes
<1>7. \A q \in Refreshes : (Busy(q))' <=> Busy(q)
  BY <1>5, <1>6 DEF Busy
<1>8. \A q \in Refreshes : inFlight'[q].codes = inFlight[q].codes
  BY <1>4, <1>5
<1>9. CloudTypeOK'
  BY <1>1, <1>5, CloudTypes, Zenon DEF CloudInv, CloudTypeOK
<1>10. CurrentIsRecent' /\ ReauthMeansRefused'
  BY <1>1, Zenon DEF CloudInv, CurrentIsRecent, ReauthMeansRefused
<1>11. FlagTells'
  <2>1. ~\A q \in Refreshes : inFlight'[q] = NoRefresh
    BY <1>5, <1>6
  <2> QED BY <2>1, Zenon DEF FlagTells
<1>12. AnswersAreRecent'
  BY <1>1, <1>4, <1>5 DEF CloudInv, AnswersAreRecent
<1>13. RefusalsAreSo'
  <2>1. f.answer = "Unauthenticated" => ~tokens
    BY <1>2, <1>4
  <2> QED BY <1>1, <1>5, <2>1, Zenon DEF CloudInv, RefusalsAreSo
<1>14. OneAtATime'
  BY <1>1, <1>7, Zenon DEF CloudInv, OneAtATime
<1>15. PlainOnceRejected'
  BY <1>1, <1>7, <1>8, Zenon DEF CloudInv, PlainOnceRejected
<1> QED BY <1>9, <1>10, <1>11, <1>12, <1>13, <1>14, <1>15, Zenon DEF CloudInv

(* A refresh begins.                                                       *)
LEMMA BeginsKeepsCloud ==
    ASSUME CloudInv, NEW r \in Refreshes, Begins(r)
    PROVE  CloudInv'
<1> USE CloudAssumption
<1> DEFINE Request == [codes : BOOLEAN, began : 0..MaxAccount, version : 0..MaxAccount,
                       answer : Outcomes \cup {"idle", "none"}]
           f == [codes |-> poller = "user", began |-> account, answer |-> "none", version |-> 0]
           alone == \A q \in Refreshes : inFlight[q] = NoRefresh
<1>1. /\ inFlight \in [Refreshes -> Request] /\ account \in 0..MaxAccount
      /\ inFlight[r] = NoRefresh /\ inFlight' = [inFlight EXCEPT ![r] = f]
      /\ UNCHANGED <<poller, account, tokens, well, takesCodes, data, errors, success,
                     optionCodes, reauth, asOf>>
      /\ armed' = FALSE /\ apart' = (apart /\ alone)
  BY CloudTypes, Zenon DEF CloudInv, Begins, serverVars
<1>2. f \in Request /\ f.began = account /\ f.answer = "none" /\ f # NoRefresh
  <2>1. (poller = "user") \in BOOLEAN
    OBVIOUS
  <2> QED BY <1>1, <2>1 DEF NoRefresh
<1>3. f.codes = (poller = "user")
  OBVIOUS
<1> HIDE DEF f
<1>4. /\ inFlight'[r] = f /\ inFlight' \in [Refreshes -> Request]
      /\ \A q \in Refreshes \ {r} : inFlight'[q] = inFlight[q]
  BY <1>1, <1>2, OthersWait DEF CloudInv
<1>5. apart' \in BOOLEAN /\ armed' \in BOOLEAN
  <2>1. (apart /\ alone) \in BOOLEAN
    OBVIOUS
  <2> QED BY <1>1, <2>1, Zenon
<1>6. apart' => apart /\ \A q \in Refreshes \ {r} : inFlight'[q] = NoRefresh
  BY <1>1, <1>4, Zenon
<1>7. CloudTypeOK'
  BY <1>1, <1>4, <1>5, CloudTypes, Zenon DEF CloudInv, CloudTypeOK
<1>8. CurrentIsRecent' /\ ReauthMeansRefused'
  BY <1>1, Zenon DEF CloudInv, CurrentIsRecent, ReauthMeansRefused
<1>9. FlagTells'
  BY <1>2, <1>4, Zenon DEF FlagTells
<1>10. AnswersAreRecent'
  BY <1>1, <1>2, <1>4 DEF CloudInv, AnswersAreRecent
<1>11. RefusalsAreSo'
  <2>1. f.answer # "Unauthenticated"
    BY <1>2
  <2> QED BY <1>1, <1>4, <2>1, Zenon DEF CloudInv, RefusalsAreSo
<1>12. OneAtATime'
  BY <1>6 DEF OneAtATime, Busy
<1>13. PlainOnceRejected'
  BY <1>1, <1>3, <1>4, <1>6, Zenon DEF PlainOnceRejected, Busy
<1> QED BY <1>7, <1>8, <1>9, <1>10, <1>11, <1>12, <1>13, Zenon DEF CloudInv

(* A rejected document is sent once more.                                  *)
LEMMA RetriesKeepsCloud ==
    ASSUME CloudInv, NEW r \in Refreshes, Retries(r)
    PROVE  CloudInv'
<1> USE CloudAssumption
<1> DEFINE Request == [codes : BOOLEAN, began : 0..MaxAccount, version : 0..MaxAccount,
                       answer : Outcomes \cup {"idle", "none"}]
           f == [inFlight[r] EXCEPT !.codes = FALSE, !.answer = "none", !.version = 0]
<1>1. /\ inFlight \in [Refreshes -> Request] /\ account \in 0..MaxAccount
      /\ inFlight[r] \in Request /\ inFlight[r].answer = "GraphQL"
      /\ inFlight' = [inFlight EXCEPT ![r] = f] /\ optionCodes' = FALSE
      /\ UNCHANGED <<poller, account, tokens, well, takesCodes, data, errors, success, armed,
                     reauth, asOf, apart>>
  BY CloudTypes DEF CloudInv, Retries, SendsAgain, FlagAfter, serverVars
<1>2. f \in Request /\ f.began = inFlight[r].began /\ f.answer = "none" /\ f # NoRefresh
  <2>1. f.began = inFlight[r].began /\ f.answer = "none"
    BY <1>1
  <2>2. f # NoRefresh
    BY <2>1 DEF NoRefresh
  <2>3. f \in Request
    <3>1. PICK no \in BOOLEAN : no = FALSE
      BY Zenon
    <3>2. [inFlight[r] EXCEPT !.codes = no, !.answer = "none", !.version = 0] \in Request
      <4> DEFINE of  == inFlight[r]
                 of1 == [of EXCEPT !.codes = no]
                 of2 == [of1 EXCEPT !.answer = "none", !.version = 0]
      <4>1. of \in Request /\ 0 \in 0..MaxAccount
        BY <1>1
      <4> HIDE DEF of
      <4>2. of1 \in Request
        BY <4>1
      <4>3. of2 = [of EXCEPT !.codes = no, !.answer = "none", !.version = 0]
        BY <4>1
      <4> HIDE DEF of1
      <4>4. of2 \in Request
        BY <4>1, <4>2
      <4> QED BY <4>3, <4>4 DEF of
    <3> QED BY <3>1, <3>2, Zenon
  <2> QED BY <2>1, <2>2, <2>3
<1>3. inFlight[r] # NoRefresh
  BY <1>1 DEF NoRefresh
<1> HIDE DEF f
<1>4. /\ inFlight'[r] = f /\ inFlight' \in [Refreshes -> Request]
      /\ \A q \in Refreshes \ {r} : inFlight'[q] = inFlight[q]
  BY <1>1, <1>2, OthersWait DEF CloudInv
<1>5. \A q \in Refreshes : (Busy(q))' <=> Busy(q)
  BY <1>2, <1>3, <1>4 DEF Busy
<1>6. optionCodes' \in BOOLEAN /\ ~optionCodes'
  BY <1>1, Zenon
<1>7. CloudTypeOK'
  BY <1>1, <1>4, <1>6, CloudTypes, Zenon DEF CloudInv, CloudTypeOK
<1>8. CurrentIsRecent' /\ ReauthMeansRefused'
  BY <1>1, Zenon DEF CloudInv, CurrentIsRecent, ReauthMeansRefused
<1>9. FlagTells'
  BY <1>2, <1>4, Zenon DEF FlagTells
<1>10. AnswersAreRecent'
  BY <1>1, <1>2, <1>4 DEF CloudInv, AnswersAreRecent
<1>11. RefusalsAreSo'
  <2>1. f.answer # "Unauthenticated"
    BY <1>2
  <2> QED BY <1>1, <1>4, <2>1, Zenon DEF CloudInv, RefusalsAreSo
<1>12. OneAtATime'
  BY <1>1, <1>5, Zenon DEF CloudInv, OneAtATime
<1>13. PlainOnceRejected'
  BY <1>6, Zenon DEF PlainOnceRejected
<1> QED BY <1>7, <1>8, <1>9, <1>10, <1>11, <1>12, <1>13, Zenon DEF CloudInv

(* How the errors are counted.                                             *)
LEMMA ErrorsCounted ==
    ASSUME errors \in 0..MaxErrors, NEW a \in Outcomes,
           errors' = CASE a \in {"data", "missing"} -> 0
                       [] a = "Unauthenticated"     -> errors
                       [] OTHER                     -> OneMore(errors)
    PROVE  errors' \in 0..MaxErrors /\ (a = "failed" => errors' # 0)
BY CloudAssumption DEF OneMore, Outcomes

(* A refresh ends.                                                         *)
LEMMA EndsKeepsCloud ==
    ASSUME CloudInv, NEW r \in Refreshes, Ends(r)
    PROVE  CloudInv'
<1> USE CloudAssumption
<1> DEFINE Request == [codes : BOOLEAN, began : 0..MaxAccount, version : 0..MaxAccount,
                       answer : Outcomes \cup {"idle", "none"}]
           a == inFlight[r].answer
           got == [version |-> inFlight[r].version, codes |-> inFlight[r].codes]
<1>1. /\ inFlight \in [Refreshes -> Request] /\ account \in 0..MaxAccount
      /\ inFlight[r] \in Request /\ a \in Outcomes
      /\ data # Unknown => data \in [version : 0..MaxAccount, codes : BOOLEAN]
      /\ optionCodes \in BOOLEAN /\ reauth \in BOOLEAN /\ errors \in 0..MaxErrors
      /\ inFlight' = [inFlight EXCEPT ![r] = NoRefresh]
      /\ optionCodes' = FlagAfter(r)
      /\ data' = IF a # "data" THEN data ELSE got
      /\ success' = Succeeds(a)
      /\ armed' = (a # "Unauthenticated")
      /\ reauth' = (reauth \/ a = "Unauthenticated")
      /\ asOf' = inFlight[r].began
      /\ UNCHANGED <<poller, account, tokens, well, takesCodes, apart>>
  BY CloudTypes, Zenon DEF CloudInv, Ends, serverVars
<1>2. NoRefresh \in Request /\ NoRefresh.began = 0 /\ NoRefresh.answer = "idle"
  BY DEF NoRefresh
<1>3. inFlight[r] # NoRefresh
  BY <1>1, <1>2 DEF Outcomes
<1>4. /\ inFlight'[r] = NoRefresh /\ inFlight' \in [Refreshes -> Request]
      /\ \A q \in Refreshes \ {r} : inFlight'[q] = inFlight[q]
  BY <1>1, <1>2, OthersWait DEF CloudInv
<1>5. /\ got \in [version : 0..MaxAccount, codes : BOOLEAN] /\ got # Unknown
      /\ got.version = inFlight[r].version /\ got.codes = inFlight[r].codes
  BY <1>1
<1> HIDE DEF got
<1>6. errors' \in 0..MaxErrors /\ (a = "failed" => errors' # 0)
  <2>1. errors' = CASE a \in {"data", "missing"} -> 0
                    [] a = "Unauthenticated"     -> errors
                    [] OTHER                     -> OneMore(errors)
    BY DEF Ends
  <2> HIDE DEF a
  <2> QED BY <1>1, <2>1, ErrorsCounted
<1>7. success' => data' # Unknown
  BY <1>1, <1>5, Zenon DEF Succeeds
<1>8. data' # Unknown => data' \in [version : 0..MaxAccount, codes : BOOLEAN]
  BY <1>1, <1>5, Zenon
<1>9. /\ success' \in BOOLEAN /\ armed' \in BOOLEAN /\ reauth' \in BOOLEAN
      /\ optionCodes' \in BOOLEAN /\ asOf' \in 0..MaxAccount
  <2>1. Succeeds(a) \in BOOLEAN
    BY DEF Succeeds
  <2>2. (a # "Unauthenticated") \in BOOLEAN /\ (reauth \/ a = "Unauthenticated") \in BOOLEAN
    OBVIOUS
  <2>3. FlagAfter(r) \in BOOLEAN
    BY <1>1 DEF FlagAfter
  <2>4. inFlight[r].began \in 0..MaxAccount
    BY <1>1
  <2> QED BY <1>1, <2>1, <2>2, <2>3, <2>4, Zenon
<1>10. success' /\ errors' = 0 => a = "data"
  BY <1>1, <1>6, Zenon DEF Succeeds
<1>11. CloudTypeOK'
  BY <1>1, <1>4, <1>6, <1>7, <1>8, <1>9, CloudTypes, Zenon DEF CloudInv, CloudTypeOK
<1>12. CurrentIsRecent'
  <2>1. a = "data" => data'.version >= asOf'
    <3>1. a = "data" => inFlight[r].began <= inFlight[r].version
      BY DEF CloudInv, AnswersAreRecent
    <3>2. inFlight[r].began \in Nat /\ inFlight[r].version \in Nat
      BY <1>1
    <3>3. a = "data" => data' = got /\ asOf' = inFlight[r].began
      BY <1>1, Zenon
    <3> QED BY <1>5, <3>1, <3>2, <3>3
  <2> QED BY <1>10, <2>1, Zenon DEF CurrentIsRecent
<1>13. FlagTells'
  <2>1. poller = "user" /\ apart /\ a = "data" => optionCodes' = inFlight[r].codes
    <3> SUFFICES ASSUME poller = "user", apart, a = "data"
                 PROVE  FlagAfter(r) = inFlight[r].codes
      BY <1>1, Zenon
    <3>1. inFlight[r].codes \in BOOLEAN
      BY <1>1
    <3>2. CASE inFlight[r].codes
      <4>1. FlagAfter(r) = TRUE
        BY <3>2 DEF FlagAfter
      <4> QED BY <3>1, <3>2, <4>1, Zenon
    <3>3. CASE ~inFlight[r].codes
      <4>1. FlagAfter(r) = optionCodes
        BY <3>3 DEF FlagAfter
      <4>2. ~optionCodes
        BY <1>3, <3>3, Zenon DEF CloudInv, PlainOnceRejected, Busy
      <4>3. optionCodes = FALSE /\ inFlight[r].codes = FALSE
        BY <1>1, <3>1, <3>3, <4>2, Zenon
      <4> QED BY <4>1, <4>3, Zenon
    <3> QED BY <3>2, <3>3
  <2>2. a = "data" => data'.codes = inFlight[r].codes
    BY <1>1, <1>5, Zenon
  <2> QED BY <1>1, <1>10, <2>1, <2>2, Zenon DEF FlagTells
<1>14. ReauthMeansRefused'
  BY <1>1, Zenon DEF CloudInv, ReauthMeansRefused, RefusalsAreSo
<1>15. AnswersAreRecent'
  BY <1>1, <1>2, <1>4 DEF CloudInv, AnswersAreRecent
<1>16. RefusalsAreSo'
  <2>1. NoRefresh.answer # "Unauthenticated"
    BY <1>2
  <2> QED BY <1>1, <1>4, <2>1, Zenon DEF CloudInv, RefusalsAreSo
<1>17. apart => \A q \in Refreshes : inFlight'[q] = NoRefresh
  BY <1>3, <1>4, Zenon DEF CloudInv, OneAtATime, Busy
<1>18. OneAtATime' /\ PlainOnceRejected'
  BY <1>1, <1>17, Zenon DEF OneAtATime, PlainOnceRejected, Busy
<1> QED BY <1>11, <1>12, <1>13, <1>14, <1>15, <1>16, <1>18, Zenon DEF CloudInv

LEMMA CloudStep == CloudInv /\ [CloudNext]_cloudVars => CloudInv'
<1> SUFFICES ASSUME CloudInv, [CloudNext]_cloudVars PROVE CloudInv'
  OBVIOUS
<1>1. CASE AccountChanges \/ ServerChanges
  BY <1>1, ServerKeepsCloud
<1>2. CASE TimerFires \/ IsAsked
  BY <1>2, BeginsKeepsCloud, Zenon DEF TimerFires, IsAsked
<1>3. ASSUME NEW r \in Refreshes, Answers(r) \/ Retries(r) \/ Ends(r)
      PROVE  CloudInv'
  BY <1>3, AnswersKeepsCloud, RetriesKeepsCloud, EndsKeepsCloud
<1>4. CASE UNCHANGED cloudVars
  BY <1>4, Zenon DEF cloudVars, serverVars, pollVars, CloudInv, CloudTypeOK, CurrentIsRecent,
                     FlagTells, ReauthMeansRefused, AnswersAreRecent, RefusalsAreSo, OneAtATime,
                     PlainOnceRejected, Busy
<1> QED BY <1>1, <1>2, <1>3, <1>4, Zenon DEF CloudNext

(* Current data is recent, the flag of the diagnostics tells what the data *)
(* was asked for with, and only refused tokens ask for a login, whatever   *)
(* the server answers, in whatever order, and however refreshes overlap    *)
(* (_async_update_data, get_user_information, __graphql_query).            *)
THEOREM CloudIsTold == CloudSpec => []CloudTells
<1>1. CloudInv => CloudTells
  BY Zenon DEF CloudInv, CloudTells
<1> QED BY <1>1, CloudStarts, CloudStep, PTL DEF CloudSpec

-----------------------------------------------------------------------------
(* Closures and locks.                                                     *)

Kinds == {"frunk", "liftgate", "charge_port", "windows", "tonneau"}

LEMMA ClassOfKind ==
    /\ DOMAIN NextActions = Kinds
    /\ kind = "frunk"       => Class = FrunkNextActionState
    /\ kind = "liftgate"    => Class = LiftgateNextActionState
    /\ kind = "charge_port" => Class = ChargePortDoorNextActionState
    /\ kind = "windows"     => Class = WindowsNextActionState
    /\ kind = "tonneau"     => Members(Class) = {}
BY DEF Class, NextActions, Kinds, Members

(* No enumeration has None, or the word of a value that is not listed.     *)
LEMMA NoneIsNoAction ==
    ASSUME kind \in Kinds
    PROVE  None \notin Members(Class) /\ {"unlisted", Null} \cap Members(Class) = {}
<1>1. None \notin Members(Class)
  BY NoneIsNoWord, ClassOfKind DEF Class
<1>2. {"unlisted", Null} \cap Members(Class) = {}
  BY ClassOfKind DEF Null, Kinds, Members, FrunkNextActionState, LiftgateNextActionState,
         ChargePortDoorNextActionState, WindowsNextActionState, OpenActions, CloseActions
<1> QED BY <1>1, <1>2

(* Every action that a closure reports at a position is on that side of    *)
(* its enumeration.                                                        *)
LEMMA SideOfFrunk ==
    ASSUME kind = "frunk", NEW p \in Positions, NEW n \in ReportedAt(p), NEW c
    PROVE  CoverState(n, c) = p
BY ClassOfKind, NoneIsNoAction DEF Kinds, CoverState, IsClosed, GetNextActionState, ReportedAt,
       Members, Positions, FrunkNextActionState, OpenActions, CloseActions

LEMMA SideOfLiftgate ==
    ASSUME kind = "liftgate", NEW p \in Positions, NEW n \in ReportedAt(p), NEW c
    PROVE  CoverState(n, c) = p
BY ClassOfKind, NoneIsNoAction DEF Kinds, CoverState, IsClosed, GetNextActionState, ReportedAt,
       Members, Positions, LiftgateNextActionState, OpenActions, CloseActions

LEMMA SideOfChargePort ==
    ASSUME kind = "charge_port", NEW p \in Positions, NEW n \in ReportedAt(p), NEW c
    PROVE  CoverState(n, c) = p
BY ClassOfKind, NoneIsNoAction DEF Kinds, CoverState, IsClosed, GetNextActionState, ReportedAt,
       Members, Positions, ChargePortDoorNextActionState, OpenActions, CloseActions

LEMMA SideOfWindows ==
    ASSUME kind = "windows", NEW p \in Positions, NEW n \in ReportedAt(p), n # "moving", NEW c
    PROVE  CoverState(n, c) = p
BY ClassOfKind, NoneIsNoAction DEF Kinds, CoverState, IsClosed, GetNextActionState, ReportedAt,
       Members, Positions, WindowsNextActionState, OpenActions, CloseActions

LEMMA ActionsOnTheirSide ==
    ASSUME kind \in Kinds, NEW p \in Positions, NEW n \in ReportedAt(p), n # "moving", NEW c
    PROVE  CoverState(n, c) = p
<1>1. kind # "tonneau"
  BY ClassOfKind DEF ReportedAt
<1> QED BY <1>1, SideOfFrunk, SideOfLiftgate, SideOfChargePort, SideOfWindows DEF Kinds

(* What a closure reports is an action, and a usable one.                  *)
LEMMA ReportsAreUsable ==
    ASSUME kind \in Kinds, NEW p \in Positions, NEW n \in ReportedAt(p)
    PROVE  n \in Members(Class) /\ n # None /\ n # Unavailable
<1>1. n \in Members(Class)
  BY DEF ReportedAt
<1>2. n # Unavailable
  BY DEF ReportedAt, Positions, Unavailable, OpenActions, CloseActions
<1> QED BY <1>1, <1>2, NoneIsNoAction

(* The next action is of the position when it is in step with it, and the  *)
(* last one that was not unavailable stands in the record; so does each    *)
(* lock's last such value.                                                 *)
InStepIsReported == kind # "locks" /\ inStep => next \in ReportedAt(position)
LastSaidStands   == said # None => next = said /\ said # Unavailable
LocksAsStated    ==
    stated = [k \in Locks |-> IF lock[k] # Unavailable THEN lock[k] ELSE None]

ClosureInv ==
    /\ ViewTypeOK /\ inStep \in BOOLEAN
    /\ InStepIsReported /\ LastSaidStands /\ LocksAsStated

LEMMA ClosureStarts == ViewInit => ClosureInv
<1> SUFFICES ASSUME ViewInit PROVE ClosureInv
  OBVIOUS
<1>1. ViewTypeOK
  <2>1. lock \in [Locks -> LockWords]
    BY DEF ViewInit, LockWords
  <2> QED BY <2>1, ClassOfKind DEF ViewInit, ViewTypeOK, Positions
<1>2. LocksAsStated
  BY NoneIsNoWord DEF ViewInit, LocksAsStated
<1>3. inStep \in BOOLEAN /\ InStepIsReported /\ LastSaidStands
  BY Zenon DEF ViewInit, InStepIsReported, LastSaidStands
<1> QED BY <1>1, <1>2, <1>3 DEF ClosureInv

LEMMA MovesKeepsClosures ==
    ASSUME ClosureInv, NEW p \in Positions, Moves(p)
    PROVE  ClosureInv'
<1>1. /\ position' = p /\ inStep' = FALSE
      /\ UNCHANGED <<kind, next, closure, said, lock, stated>>
  BY DEF Moves, lockVars
<1>2. ViewTypeOK'
  BY <1>1 DEF ClosureInv, ViewTypeOK, Class
<1>3. LastSaidStands' /\ LocksAsStated'
  BY <1>1 DEF ClosureInv, LastSaidStands, LocksAsStated
<1>4. inStep' \in BOOLEAN /\ InStepIsReported'
  BY <1>1, Zenon DEF InStepIsReported
<1> QED BY <1>2, <1>3, <1>4 DEF ClosureInv

LEMMA FrameKeepsClosures ==
    ASSUME ClosureInv, kind # "locks",
           NEW n \in ReportedAt(position) \cup {None, Null, "unlisted"} \cup Class.other,
           NEW c \in {None, Null, Unavailable,
                      IF position = "closed" THEN "closed" ELSE "open"},
           ClosureFrame(n, c)
    PROVE  ClosureInv'
<1>1. /\ kind \in Kinds /\ position \in Positions /\ inStep \in BOOLEAN
      /\ next \in Members(Class) \cup {"unlisted", Null, None}
      /\ closure \in {"open", "closed", Unavailable, Null, None}
      /\ lock \in [Locks -> LockWords]
  BY ClassOfKind, Zenon DEF ClosureInv, ViewTypeOK, LockWords
<1>2. /\ next' = Keep(next, n) /\ closure' = Keep(closure, c)
      /\ said' = IF n \notin {None, Unavailable} THEN n ELSE said
      /\ inStep' = (n \in ReportedAt(position) \/ (n = None /\ inStep))
      /\ UNCHANGED <<kind, position, lock, stated>>
  BY Zenon DEF ClosureFrame, lockVars
<1>3. n \in Members(Class) \cup {"unlisted", Null, None}
  BY <1>1, ReportsAreUsable DEF Members
<1>4. next' \in Members(Class) \cup {"unlisted", Null, None}
  BY <1>1, <1>2, <1>3 DEF Keep
<1>5. closure' \in {"open", "closed", Unavailable, Null, None}
  BY <1>1, <1>2 DEF Keep
<1>6. LastSaidStands'
  <2>1. CASE n \notin {None, Unavailable}
    BY <1>2, <2>1 DEF Keep, LastSaidStands
  <2>2. CASE n \in {None, Unavailable}
    BY <1>2, <2>2 DEF Keep, LastSaidStands, ClosureInv
  <2> QED BY <2>1, <2>2
<1>7. inStep' \in BOOLEAN
  <2>1. (n \in ReportedAt(position) \/ (n = None /\ inStep)) \in BOOLEAN
    OBVIOUS
  <2> QED BY <1>2, <2>1, Zenon
<1>8. inStep' => next' \in ReportedAt(position)
  <2>1. CASE n \in ReportedAt(position)
    <3>1. n # None /\ n # Unavailable
      BY <1>1, <2>1, ReportsAreUsable
    <3> QED BY <1>2, <2>1, <3>1 DEF Keep
  <2>2. CASE n \notin ReportedAt(position)
    <3>1. inStep' => n = None /\ inStep
      BY <1>2, <2>2, Zenon
    <3>2. n = None => next' = next
      BY <1>2 DEF Keep
    <3>3. inStep => next \in ReportedAt(position)
      BY Zenon DEF ClosureInv, InStepIsReported
    <3> QED BY <3>1, <3>2, <3>3, Zenon
  <2> QED BY <2>1, <2>2
<1>9. ViewTypeOK'
  <2>1. said' # None => next' \notin {None, Unavailable}
    BY <1>6 DEF LastSaidStands
  <2>2. kind \in DOMAIN NextActions \cup {"locks"}
    BY <1>1, ClassOfKind
  <2> QED BY <1>1, <1>2, <1>4, <1>5, <2>1, <2>2 DEF ViewTypeOK, LockWords, Class
<1>10. InStepIsReported'
  <2>1. (ReportedAt(position))' = ReportedAt(position)
    BY <1>2 DEF ReportedAt, Class
  <2> QED BY <1>2, <1>8, <2>1, Zenon DEF InStepIsReported
<1>11. LocksAsStated'
  BY <1>2 DEF LocksAsStated, ClosureInv
<1> QED BY <1>6, <1>7, <1>9, <1>10, <1>11 DEF ClosureInv

LEMMA LockFrameKeepsClosures ==
    ASSUME ClosureInv, NEW f \in [Locks -> LockWords], LockFrame(f)
    PROVE  ClosureInv'
<1>1. /\ lock' = [k \in Locks |-> Keep(lock[k], f[k])]
      /\ stated' = [k \in Locks |->
                        IF f[k] \notin {None, Unavailable} THEN f[k] ELSE stated[k]]
      /\ UNCHANGED <<kind, position, next, closure, inStep, said>>
  BY DEF LockFrame, closureVars
<1>2. lock \in [Locks -> LockWords] /\ f \in [Locks -> LockWords]
  BY DEF ClosureInv, ViewTypeOK
<1>3. lock' \in [Locks -> LockWords]
  BY <1>1, <1>2 DEF Keep
<1>4. ViewTypeOK'
  BY <1>1, <1>3 DEF ClosureInv, ViewTypeOK, Class
<1>5. inStep' \in BOOLEAN /\ InStepIsReported' /\ LastSaidStands'
  BY <1>1 DEF ClosureInv, InStepIsReported, LastSaidStands, ReportedAt, Class
<1>6. LocksAsStated'
  <2>1. \A k \in Locks :
            stated[k] = IF lock[k] # Unavailable THEN lock[k] ELSE None
    BY DEF ClosureInv, LocksAsStated
  <2>2. \A k \in Locks :
            stated'[k] = IF lock'[k] # Unavailable THEN lock'[k] ELSE None
    <3> SUFFICES ASSUME NEW k \in Locks
                 PROVE  stated'[k] =
                            IF lock'[k] # Unavailable THEN lock'[k] ELSE None
      OBVIOUS
    <3>1. /\ lock'[k] = Keep(lock[k], f[k])
          /\ stated'[k] = IF f[k] \notin {None, Unavailable} THEN f[k] ELSE stated[k]
          /\ stated[k] = IF lock[k] # Unavailable THEN lock[k] ELSE None
          /\ f[k] \in LockWords /\ lock[k] \in LockWords
      BY <1>1, <1>2, <2>1
    <3>2. None # Unavailable
      BY NoneIsNoWord
    <3> QED BY <3>1, <3>2 DEF Keep
  <2> QED BY <1>1, <2>2 DEF LocksAsStated
<1> QED BY <1>4, <1>5, <1>6 DEF ClosureInv

LEMMA ClosureStep == ClosureInv /\ [ViewNext]_viewVars => ClosureInv'
<1> SUFFICES ASSUME ClosureInv, [ViewNext]_viewVars PROVE ClosureInv'
  OBVIOUS
<1>1. ASSUME NEW p \in Positions, Moves(p) PROVE ClosureInv'
  BY <1>1, MovesKeepsClosures
<1>2. ASSUME kind # "locks",
             NEW n \in ReportedAt(position) \cup {None, Null, "unlisted"} \cup Class.other,
             NEW c \in {None, Null, Unavailable,
                        IF position = "closed" THEN "closed" ELSE "open"},
             ClosureFrame(n, c)
      PROVE  ClosureInv'
  BY <1>2, FrameKeepsClosures
<1>3. ASSUME NEW f \in [Locks -> LockWords], LockFrame(f)
      PROVE  ClosureInv'
  BY <1>3, LockFrameKeepsClosures
<1>4. CASE UNCHANGED viewVars
  BY <1>4 DEF viewVars, closureVars, lockVars, ClosureInv, ViewTypeOK, InStepIsReported,
              LastSaidStands, LocksAsStated, ReportedAt, Class
<1> QED BY <1>1, <1>2, <1>3, <1>4, Zenon DEF ViewNext

(* What the lock shows, of what the closures have stated.                  *)
LEMMA LockShowsStated == ClosureInv => LockedIsKnown
<1> SUFFICES ASSUME ClosureInv PROVE LockedIsKnown
  OBVIOUS
<1> DEFINE usable == {k \in Locks : lock[k] \notin {None, Null, Unavailable}}
<1>1. \A k \in Locks :
          /\ lock[k] \in LockWords
          /\ stated[k] = IF lock[k] # Unavailable THEN lock[k] ELSE None
  BY DEF ClosureInv, ViewTypeOK, LocksAsStated
<1>2. None \notin {"locked", "unlocked", "unlisted", Unavailable, Null} /\ None \notin BOOLEAN
  BY NoneIsNoWord
<1>3. \A k \in Locks : /\ k \in usable => /\ stated[k] = lock[k]
                                          /\ lock[k] \in {"locked", "unlocked", "unlisted"}
                       /\ k \notin usable => stated[k] \in {None, Null}
  BY <1>1, <1>2 DEF LockWords, Unavailable, Null
<1>4. IsLocked = IF usable = {} THEN None ELSE ~\E k \in usable : lock[k] = "unlocked"
  BY Zenon DEF IsLocked
<1> HIDE DEF usable
<1>5. usable \subseteq Locks
  BY DEF usable
<1>6. CASE usable = {}
  <2>1. IsLocked = None /\ \A k \in Locks : stated[k] \in {None, Null}
    BY <1>3, <1>4, <1>6
  <2>2. IsLocked # TRUE
    BY <1>2, <2>1, Zenon
  <2> QED BY <2>1, <2>2, Zenon DEF LockedIsKnown
<1>7. CASE usable # {}
  <2>1. IsLocked = (~\E k \in usable : lock[k] = "unlocked")
    BY <1>4, <1>7, Zenon
  <2>2. (~\E k \in usable : lock[k] = "unlocked") \in BOOLEAN
    OBVIOUS
  <2>3. IsLocked # None
    BY <1>2, <2>1, <2>2, Zenon
  <2>4. PICK k \in usable : stated[k] \notin {None, Null}
    BY <1>2, <1>3, <1>5, <1>7 DEF Null
  <2>5. ASSUME IsLocked = TRUE
        PROVE  /\ \E q \in Locks : stated[q] \in {"locked", "unlisted"}
               /\ \A q \in Locks : stated[q] # "unlocked"
    <3>1. \A q \in usable : lock[q] # "unlocked"
      BY <2>1, <2>5, Zenon
    <3>2. \A q \in Locks : stated[q] # "unlocked"
      BY <1>2, <1>3, <3>1 DEF Null
    <3>3. stated[k] \in {"locked", "unlisted"}
      BY <1>3, <1>5, <3>1
    <3> QED BY <1>5, <3>2, <3>3, Zenon
  <2>6. ~\A q \in Locks : stated[q] \in {None, Null}
    BY <1>5, <2>4, Zenon
  <2> QED BY <2>3, <2>5, <2>6, Zenon DEF LockedIsKnown
<1> QED BY <1>6, <1>7

(* A cover shows where its closure is when the vehicle's last report is of *)
(* where it is, a report without news does not move it, and the lock shows *)
(* locked only when it is known to be, for any number of locks; a null is  *)
(* news, and takes back what was known (next_action_states.py, cover.py,   *)
(* lock._closures_are_locked).                                             *)
THEOREM ClosuresAreShown == ViewSpec => []ClosureShown
<1>1. ClosureInv => ClosureShown
  <2> SUFFICES ASSUME ClosureInv PROVE ClosureShown
    OBVIOUS
  <2>1. CoverFollows
    <3>1. kind # "locks" => kind \in Kinds
      BY ClassOfKind DEF ClosureInv, ViewTypeOK
    <3>2. position \in Positions
      BY DEF ClosureInv, ViewTypeOK
    <3> QED BY <3>1, <3>2, ActionsOnTheirSide DEF ClosureInv, InStepIsReported, CoverFollows
  <2>2. LastActionStands
    BY DEF ClosureInv, LastSaidStands, LastActionStands
  <2> QED BY <2>1, <2>2, LockShowsStated DEF ClosureInv, ClosureShown
<1> QED BY <1>1, ClosureStarts, ClosureStep, PTL DEF ViewSpec

-----------------------------------------------------------------------------
(* The frames of a live session.                                           *)

AnyFrame == [of : Candidates \cup {"offer"}, named : BOOLEAN]
Stages   == {"no", "sending", "flushing", "listening", "junk", "done"} \cup Signals

SignalShapes ==
    /\ endpoint \in Endpoints /\ client \in {Ours, Bound}
    /\ socket \in [state : {"none", "open", "closed"}, id : {Ours, Bound, "blank", Absent}]
    /\ over \in BOOLEAN /\ recipient \in BOOLEAN /\ late \in BOOLEAN /\ introduced \in BOOLEAN
    /\ made \in 0..Events /\ relayed \in Nat
    /\ given \subseteq Candidates /\ pending \subseteq given
    /\ batch \in [Tasks -> SUBSET given]
    /\ task \in [Tasks -> Stages]
    /\ incoming \in Seq(Signals \cup {"junk"})
    /\ frames \in Seq(AnyFrame)

(* A candidate waits in one place, and not after it was sent.              *)
OneHolder ==
    /\ batch["offer"] \cap batch["pump"] = {}
    /\ \A t \in Tasks : batch[t] \cap pending = {}
    /\ \A i \in DOMAIN frames :
          /\ frames[i].of \in given \cup {"offer"}
          /\ frames[i].of \notin pending
          /\ \A t \in Tasks : frames[i].of \notin batch[t]

(* Whoever has an open socket has sent the offer.                          *)
OfferBegins ==
    /\ task["offer"] = "no" => /\ frames = <<>> /\ socket.state = "none"
                               /\ task["pump"] \in {"no", "done"}
    /\ socket.state = "open" => frames # <<>>

(* The frames are in order: the offer, each candidate once, and those that *)
(* name the vehicle after those that do not.                               *)
FramesInOrder ==
    /\ frames # <<>> => frames[1].of = "offer"
    /\ \A i, j \in DOMAIN frames : frames[i].of = frames[j].of => i = j
    /\ \A i, j \in DOMAIN frames : i < j /\ frames[i].named => frames[j].named

NamesAreKnown ==
    /\ \A i \in DOMAIN frames : frames[i].named => recipient
    /\ introduced => recipient

(* A session that is over has no pump.                                     *)
PumpEnds == ~late /\ (over => task["pump"] \in {"no", "done"})

(* The events on their way to the viewer are ones the vehicle has made.    *)
EventsCounted ==
    relayed + Len(incoming) + (IF task["pump"] \in Signals THEN 1 ELSE 0) <= made

SignalInv ==
    /\ SignalShapes /\ OneHolder /\ OfferBegins /\ FramesInOrder /\ NamesAreKnown
    /\ PumpEnds /\ EventsCounted /\ SenderIsOfUrl

LEMMA FrameAppended ==
    ASSUME frames \in Seq(AnyFrame), NEW f \in AnyFrame, frames' = Append(frames, f),
           FramesInOrder, frames = <<>> => f.of = "offer",
           \A i \in DOMAIN frames : frames[i].of # f.of,
           \A i \in DOMAIN frames : frames[i].named => f.named
    PROVE  /\ frames' \in Seq(AnyFrame) /\ frames' # <<>> /\ FramesInOrder'
           /\ \A i \in DOMAIN frames' :
                 frames'[i] = f \/ \E j \in DOMAIN frames : frames'[i] = frames[j]
<1> DEFINE n == Len(frames)
<1>1. /\ n \in Nat /\ DOMAIN frames = 1..n
      /\ frames' \in Seq(AnyFrame) /\ DOMAIN frames' = 1..(n + 1)
      /\ frames'[n + 1] = f /\ \A i \in 1..n : frames'[i] = frames[i]
  OBVIOUS
<1>2. frames' # <<>>
  BY <1>1
<1>3. \A i \in DOMAIN frames' :
          (i \in 1..n /\ frames'[i] = frames[i]) \/ (i = n + 1 /\ frames'[i] = f)
  BY <1>1
<1>4. frames'[1].of = "offer"
  <2>1. CASE frames = <<>>
    BY <1>1, <2>1
  <2>2. CASE frames # <<>>
    BY <1>1, <2>2 DEF FramesInOrder
  <2> QED BY <2>1, <2>2
<1>5. \A i, j \in DOMAIN frames' : frames'[i].of = frames'[j].of => i = j
  BY <1>1, <1>3 DEF FramesInOrder
<1>6. \A i, j \in DOMAIN frames' : i < j /\ frames'[i].named => frames'[j].named
  <2> SUFFICES ASSUME NEW i \in DOMAIN frames', NEW j \in DOMAIN frames', i < j,
                      frames'[i].named
               PROVE  frames'[j].named
    OBVIOUS
  <2>1. i \in 1..n /\ frames'[i] = frames[i]
    BY <1>1
  <2>2. CASE j = n + 1
    BY <1>1, <2>1, <2>2
  <2>3. CASE j # n + 1
    BY <1>1, <2>1, <2>3 DEF FramesInOrder
  <2> QED BY <2>2, <2>3
<1>7. FramesInOrder'
  BY <1>4, <1>5, <1>6 DEF FramesInOrder
<1>8. \A i \in DOMAIN frames' : frames'[i] = f \/ \E j \in DOMAIN frames : frames'[i] = frames[j]
  BY <1>1, <1>3
<1> QED BY <1>1, <1>2, <1>7, <1>8

LEMMA SignalStarts == SignalInit => SignalInv
<1> SUFFICES ASSUME SignalInit PROVE SignalInv
  OBVIOUS
<1>1. SignalShapes
  <2>1. /\ batch \in [Tasks -> SUBSET given] /\ task \in [Tasks -> Stages]
        /\ given \subseteq Candidates /\ pending \subseteq given
    BY DEF SignalInit, Stages
  <2>2. /\ made \in 0..Events /\ relayed \in Nat /\ frames \in Seq(AnyFrame)
        /\ incoming \in Seq(Signals \cup {"junk"})
    BY SignallingAssumption DEF SignalInit
  <2>3. over \in BOOLEAN /\ recipient \in BOOLEAN /\ late \in BOOLEAN /\ introduced \in BOOLEAN
    BY Zenon DEF SignalInit
  <2>4. /\ endpoint \in Endpoints /\ client \in {Ours, Bound}
        /\ socket \in [state : {"none", "open", "closed"}, id : {Ours, Bound, "blank", Absent}]
    BY DEF SignalInit
  <2> QED BY <2>1, <2>2, <2>3, <2>4, Zenon DEF SignalShapes
<1>2. OneHolder /\ OfferBegins /\ FramesInOrder
  BY DEF SignalInit, OneHolder, OfferBegins, FramesInOrder, Tasks
<1>3. NamesAreKnown /\ PumpEnds
  BY DEF SignalInit, NamesAreKnown, PumpEnds, Tasks
<1>4. EventsCounted /\ SenderIsOfUrl
  <2>1. task["pump"] \notin Signals /\ Len(incoming) = 0 /\ socket.state = "none"
    BY DEF SignalInit, Signals, Tasks
  <2> QED BY <2>1, SignallingAssumption DEF SignalInit, EventsCounted, SenderIsOfUrl
<1> QED BY <1>1, <1>2, <1>3, <1>4 DEF SignalInv

(* The socket: it opens and the offer is written first, it cannot be       *)
(* opened, or it closes.                                                   *)
LEMMA SocketOpensKeeps == SignalInv /\ SocketOpens => SignalInv'
<1> SUFFICES ASSUME SignalInv, SocketOpens PROVE SignalInv'
  OBVIOUS
<1> DEFINE f  == [of |-> "offer", named |-> FALSE]
           id == UrlId(endpoint, ClientOf(endpoint))
<1>1. /\ SignalShapes /\ OneHolder /\ OfferBegins /\ FramesInOrder /\ NamesAreKnown
      /\ PumpEnds /\ EventsCounted
  BY Zenon DEF SignalInv
<1>2. /\ task["offer"] = "no" /\ ~over
      /\ client' = ClientOf(endpoint) /\ socket' = [state |-> "open", id |-> id]
      /\ task' = [offer |-> "sending", pump |-> "listening"]
      /\ frames' = Append(frames, f)
      /\ UNCHANGED <<endpoint, over, pending, batch, recipient, incoming, made, given, relayed,
                     late, introduced>>
  BY DEF SocketOpens
<1>3. frames = <<>> /\ socket.state = "none" /\ task["pump"] \in {"no", "done"}
  BY <1>1, <1>2 DEF OfferBegins
<1>4. f \in AnyFrame /\ f.of = "offer"
  BY DEF AnyFrame
<1> HIDE DEF f
<1>5. /\ frames' \in Seq(AnyFrame) /\ frames' # <<>> /\ FramesInOrder'
      /\ \A i \in DOMAIN frames' : frames'[i] = f
  <2>1. frames \in Seq(AnyFrame)
    BY <1>1 DEF SignalShapes
  <2>2. DOMAIN frames = {}
    BY <1>3
  <2>3. /\ \A i \in DOMAIN frames : frames[i].of # f.of
        /\ \A i \in DOMAIN frames : frames[i].named => f.named
        /\ frames = <<>> => f.of = "offer"
    BY <1>4, <2>2
  <2>4. /\ frames' \in Seq(AnyFrame) /\ frames' # <<>> /\ FramesInOrder'
        /\ \A i \in DOMAIN frames' :
              frames'[i] = f \/ \E j \in DOMAIN frames : frames'[i] = frames[j]
    BY <1>1, <1>2, <1>4, <2>1, <2>3, FrameAppended
  <2> QED BY <2>2, <2>4
<1>6. task'["offer"] = "sending" /\ task'["pump"] = "listening" /\ task' \in [Tasks -> Stages]
  BY <1>2 DEF Tasks, Stages
<1>7. /\ id \in {Ours, Bound, "blank", Absent} /\ ClientOf(endpoint) \in {Ours, Bound}
      /\ id \in {ClientOf(endpoint), "blank"} \/ (endpoint.signed /\ id = Absent)
  <2>1. endpoint \in Endpoints
    BY <1>1 DEF SignalShapes
  <2> QED BY <2>1 DEF Endpoints, UrlId, ClientOf
<1> HIDE DEF id
<1>8. /\ socket'.id = id /\ socket'.state = "open"
      /\ socket' \in [state : {"none", "open", "closed"}, id : {Ours, Bound, "blank", Absent}]
  BY <1>2, <1>7
<1>9. SignalShapes'
  BY <1>1, <1>2, <1>5, <1>6, <1>7, <1>8, Zenon DEF SignalShapes
<1>10. OneHolder'
  <2>1. given \subseteq Candidates /\ pending \subseteq given /\ batch \in [Tasks -> SUBSET given]
    BY <1>1 DEF SignalShapes
  <2>2. "offer" \notin pending /\ \A t \in Tasks : "offer" \notin batch[t]
    BY <2>1, SignallingAssumption
  <2>3. \A i \in DOMAIN frames' : frames'[i].of = "offer"
    BY <1>4, <1>5
  <2> QED BY <1>1, <1>2, <2>2, <2>3 DEF OneHolder
<1>11. OfferBegins'
  BY <1>5, <1>6 DEF OfferBegins
<1>12. NamesAreKnown'
  <2>1. ~f.named
    BY DEF f
  <2>2. \A i \in DOMAIN frames' : ~frames'[i].named
    BY <1>5, <2>1
  <2>3. introduced => recipient
    BY <1>1, Zenon DEF NamesAreKnown
  <2> QED BY <1>2, <2>2, <2>3, Zenon DEF NamesAreKnown
<1>13. PumpEnds'
  BY <1>1, <1>2, Zenon DEF PumpEnds
<1>14. EventsCounted'
  <2>1. task["pump"] \notin Signals /\ task'["pump"] \notin Signals
    BY <1>3, <1>6 DEF Signals
  <2> QED BY <1>1, <1>2, <2>1 DEF EventsCounted
<1>15. SenderIsOfUrl'
  BY <1>2, <1>7, <1>8 DEF SenderIsOfUrl
<1> QED BY <1>5, <1>9, <1>10, <1>11, <1>12, <1>13, <1>14, <1>15, Zenon DEF SignalInv

LEMMA SocketFailsKeeps == SignalInv /\ SocketFails => SignalInv'
<1> SUFFICES ASSUME SignalInv, SocketFails PROVE SignalInv'
  OBVIOUS
<1>1. /\ SignalShapes /\ OneHolder /\ OfferBegins /\ FramesInOrder /\ NamesAreKnown
      /\ PumpEnds /\ EventsCounted /\ SenderIsOfUrl
  BY Zenon DEF SignalInv
<1>2. /\ task["offer"] = "no" /\ task' = [task EXCEPT !["offer"] = "done"] /\ over' = TRUE
      /\ UNCHANGED <<endpoint, socket, client, pending, batch, recipient, incoming, made, given,
                     frames, relayed, late, introduced>>
  BY DEF SocketFails
<1>3. /\ task' \in [Tasks -> Stages] /\ task'["offer"] = "done" /\ task'["pump"] = task["pump"]
  BY <1>1, <1>2 DEF SignalShapes, Tasks, Stages
<1>4. SignalShapes'
  BY <1>1, <1>2, <1>3, Zenon DEF SignalShapes
<1>5. OneHolder' /\ FramesInOrder' /\ NamesAreKnown' /\ SenderIsOfUrl'
  BY <1>1, <1>2, <1>3, Zenon DEF OneHolder, FramesInOrder, NamesAreKnown, SenderIsOfUrl
<1>6. OfferBegins' /\ PumpEnds'
  BY <1>1, <1>2, <1>3 DEF OfferBegins, PumpEnds
<1>7. EventsCounted'
  BY <1>1, <1>2, <1>3 DEF EventsCounted
<1> QED BY <1>4, <1>5, <1>6, <1>7, Zenon DEF SignalInv

(* A flush moves the pending candidates, and no candidate is in two places *)
(* for it.                                                                 *)
LEMMA FlushKeeps ==
    ASSUME SignalShapes, OneHolder, NEW t \in Tasks,
           Flushes(t) \/ UNCHANGED <<batch, pending>>, UNCHANGED <<given, frames>>
    PROVE  /\ batch' \in [Tasks -> SUBSET given'] /\ pending' \subseteq given'
           /\ OneHolder'
<1>1. /\ batch \in [Tasks -> SUBSET given] /\ pending \subseteq given
      /\ given' = given /\ frames' = frames
  BY DEF SignalShapes
<1>2. CASE UNCHANGED <<batch, pending>>
  BY <1>1, <1>2 DEF OneHolder
<1>3. CASE batch' = [batch EXCEPT ![t] = pending] /\ pending' = {}
  <2>1. /\ batch'[t] = pending /\ batch' \in [Tasks -> SUBSET given]
        /\ \A u \in Tasks \ {t} : batch'[u] = batch[u]
    BY <1>1, <1>3
  <2>2. batch'["offer"] \cap batch'["pump"] = {}
    BY <2>1 DEF OneHolder, Tasks
  <2>3. \A i \in DOMAIN frames' :
            /\ frames'[i].of \in given' \cup {"offer"}
            /\ frames'[i].of \notin pending'
            /\ \A u \in Tasks : frames'[i].of \notin batch'[u]
    BY <1>1, <1>3, <2>1 DEF OneHolder
  <2> QED BY <1>1, <1>3, <2>1, <2>2, <2>3 DEF OneHolder
<1> QED BY <1>2, <1>3 DEF Flushes

LEMMA OfferGoesOnKeeps == SignalInv /\ (OfferWritten \/ OfferDone) => SignalInv'
<1> SUFFICES ASSUME SignalInv, OfferWritten \/ OfferDone PROVE SignalInv'
  OBVIOUS
<1>1. /\ SignalShapes /\ OneHolder /\ OfferBegins /\ FramesInOrder /\ NamesAreKnown
      /\ PumpEnds /\ EventsCounted /\ SenderIsOfUrl
  BY Zenon DEF SignalInv
<1>2. PICK s \in {"flushing", "done"} : task' = [task EXCEPT !["offer"] = s]
  BY DEF OfferWritten, OfferDone
<1>3. /\ UNCHANGED <<endpoint, socket, client, over, recipient, incoming, made, given, frames,
                     relayed, late, introduced>>
      /\ Flushes("offer") \/ UNCHANGED <<batch, pending>>
  BY DEF OfferWritten, OfferDone
<1>4. /\ task' \in [Tasks -> Stages] /\ task'["offer"] = s /\ task'["pump"] = task["pump"]
  BY <1>1, <1>2 DEF SignalShapes, Tasks, Stages
<1>5. "offer" \in Tasks
  BY DEF Tasks
<1>6. batch' \in [Tasks -> SUBSET given'] /\ pending' \subseteq given' /\ OneHolder'
  BY <1>1, <1>3, <1>5, FlushKeeps
<1>7. SignalShapes'
  BY <1>1, <1>3, <1>4, <1>6, Zenon DEF SignalShapes
<1>8. FramesInOrder' /\ NamesAreKnown' /\ SenderIsOfUrl' /\ PumpEnds'
  BY <1>1, <1>3, <1>4, Zenon DEF FramesInOrder, NamesAreKnown, SenderIsOfUrl, PumpEnds
<1>9. OfferBegins'
  BY <1>1, <1>2, <1>3, <1>4 DEF OfferBegins
<1>10. EventsCounted'
  BY <1>1, <1>3, <1>4 DEF EventsCounted
<1> QED BY <1>6, <1>7, <1>8, <1>9, <1>10, Zenon DEF SignalInv

(* A candidate that waits nowhere else is sent.                            *)
LEMMA CandidateSent ==
    ASSUME SignalShapes, FramesInOrder, NamesAreKnown, frames # <<>>,
           NEW c \in Candidates, \A i \in DOMAIN frames : frames[i].of # c,
           frames' = Append(frames, [of |-> c, named |-> recipient]),
           UNCHANGED recipient
    PROVE  /\ frames' \in Seq(AnyFrame) /\ frames' # <<>> /\ FramesInOrder'
           /\ \A i \in DOMAIN frames' : frames'[i].named => recipient'
           /\ \A i \in DOMAIN frames' :
                 frames'[i].of = c \/ \E j \in DOMAIN frames : frames'[i].of = frames[j].of
<1> DEFINE f == [of |-> c, named |-> recipient]
<1>1. frames \in Seq(AnyFrame) /\ recipient \in BOOLEAN
  BY Zenon DEF SignalShapes
<1>2. f.of = c /\ f.named = recipient /\ f \in AnyFrame
  BY <1>1 DEF AnyFrame
<1> HIDE DEF f
<1>3. \A i \in DOMAIN frames : frames[i].named => f.named
  BY <1>2, Zenon DEF NamesAreKnown
<1>4. /\ \A i \in DOMAIN frames : frames[i].of # f.of
      /\ frames = <<>> => f.of = "offer"
      /\ frames' = Append(frames, f)
  BY <1>2, Zenon DEF f
<1>5. /\ frames' \in Seq(AnyFrame) /\ frames' # <<>> /\ FramesInOrder'
      /\ \A i \in DOMAIN frames' :
            frames'[i] = f \/ \E j \in DOMAIN frames : frames'[i] = frames[j]
  BY <1>1, <1>2, <1>3, <1>4, FrameAppended
<1>6. \A i \in DOMAIN frames' : frames'[i].named => recipient'
  BY <1>2, <1>5, Zenon DEF NamesAreKnown
<1>7. \A i \in DOMAIN frames' :
          frames'[i].of = c \/ \E j \in DOMAIN frames : frames'[i].of = frames[j].of
  BY <1>2, <1>5, Zenon
<1> QED BY <1>5, <1>6, <1>7

LEMMA SendsNextKeeps ==
    ASSUME SignalInv, NEW t \in Tasks, SendsNext(t)
    PROVE  SignalInv'
<1>1. /\ SignalShapes /\ OneHolder /\ OfferBegins /\ FramesInOrder /\ NamesAreKnown
      /\ PumpEnds /\ EventsCounted /\ SenderIsOfUrl
  BY Zenon DEF SignalInv
<1>2. PICK c \in batch[t] :
          /\ batch' = [batch EXCEPT ![t] = @ \ {c}]
          /\ IF Open THEN frames' = Append(frames, [of |-> c, named |-> recipient])
                          /\ UNCHANGED pending
             ELSE pending' = pending \cup {c} /\ UNCHANGED frames
  BY DEF SendsNext
<1>3. UNCHANGED <<endpoint, socket, client, over, task, recipient, incoming, made, given,
                  relayed, late, introduced>>
  BY DEF SendsNext
<1>4. /\ batch \in [Tasks -> SUBSET given] /\ pending \subseteq given
      /\ given \subseteq Candidates /\ frames \in Seq(AnyFrame)
  BY <1>1 DEF SignalShapes
<1>5. /\ c \in given /\ c \in Candidates /\ c # "offer"
      /\ \A i \in DOMAIN frames : frames[i].of # c
  BY <1>1, <1>2, <1>4, SignallingAssumption DEF OneHolder
<1>6. /\ batch' \in [Tasks -> SUBSET given] /\ batch'[t] = batch[t] \ {c}
      /\ \A u \in Tasks \ {t} : batch'[u] = batch[u]
  BY <1>2, <1>4
<1>7. \A u \in Tasks : c \notin batch'[u] /\ batch'[u] \subseteq batch[u]
  BY <1>1, <1>2, <1>6 DEF OneHolder, Tasks
<1>8. batch'["offer"] \cap batch'["pump"] = {}
  BY <1>1, <1>7 DEF OneHolder, Tasks
<1>9. CASE Open
  <2>1. /\ frames' = Append(frames, [of |-> c, named |-> recipient])
        /\ pending' = pending /\ frames # <<>>
    BY <1>1, <1>2, <1>9 DEF Open, OfferBegins
  <2>2. /\ frames' \in Seq(AnyFrame) /\ frames' # <<>> /\ FramesInOrder'
        /\ \A i \in DOMAIN frames' : frames'[i].named => recipient'
        /\ \A i \in DOMAIN frames' :
              frames'[i].of = c \/ \E j \in DOMAIN frames : frames'[i].of = frames[j].of
    BY <1>1, <1>3, <1>5, <2>1, CandidateSent
  <2>3. SignalShapes'
    BY <1>1, <1>3, <1>6, <2>1, <2>2, Zenon DEF SignalShapes
  <2>4. c \notin pending
    BY <1>1, <1>2 DEF OneHolder
  <2>5. \A i \in DOMAIN frames' :
            /\ frames'[i].of \in given' \cup {"offer"}
            /\ frames'[i].of \notin pending'
            /\ \A u \in Tasks : frames'[i].of \notin batch'[u]
    BY <1>1, <1>3, <1>5, <1>7, <2>1, <2>2, <2>4 DEF OneHolder
  <2>6. \A u \in Tasks : batch'[u] \cap pending' = {}
    BY <1>1, <1>7, <2>1 DEF OneHolder
  <2>7. OneHolder'
    BY <1>8, <2>5, <2>6 DEF OneHolder
  <2>8. OfferBegins'
    BY <1>1, <1>3, <2>1, <2>2, Zenon DEF OfferBegins
  <2>9. NamesAreKnown'
    BY <1>1, <1>3, <2>2, Zenon DEF NamesAreKnown
  <2>10. PumpEnds' /\ EventsCounted' /\ SenderIsOfUrl'
    BY <1>1, <1>3, Zenon DEF PumpEnds, EventsCounted, SenderIsOfUrl
  <2> QED BY <2>2, <2>3, <2>7, <2>8, <2>9, <2>10, Zenon DEF SignalInv
<1>10. CASE ~Open
  <2>1. pending' = pending \cup {c} /\ frames' = frames
    BY <1>2, <1>10
  <2>2. pending' \subseteq given
    BY <1>4, <1>5, <2>1
  <2>3. SignalShapes'
    BY <1>1, <1>3, <1>6, <2>1, <2>2, Zenon DEF SignalShapes
  <2>4. OneHolder'
    BY <1>1, <1>3, <1>5, <1>7, <1>8, <2>1 DEF OneHolder
  <2>5. /\ OfferBegins' /\ FramesInOrder' /\ NamesAreKnown' /\ PumpEnds' /\ EventsCounted'
        /\ SenderIsOfUrl'
    BY <1>1, <1>3, <2>1, Zenon DEF OfferBegins, FramesInOrder, NamesAreKnown, PumpEnds,
       EventsCounted, SenderIsOfUrl
  <2> QED BY <2>3, <2>4, <2>5, Zenon DEF SignalInv
<1> QED BY <1>9, <1>10

LEMMA ViewerGivesKeeps ==
    ASSUME SignalInv, NEW c \in Candidates, ViewerGives(c)
    PROVE  SignalInv'
<1>1. /\ SignalShapes /\ OneHolder /\ OfferBegins /\ FramesInOrder /\ NamesAreKnown
      /\ PumpEnds /\ EventsCounted /\ SenderIsOfUrl
  BY Zenon DEF SignalInv
<1>2. /\ c \notin given /\ given' = given \cup {c} /\ SentOrKept(c)
      /\ UNCHANGED <<endpoint, socket, client, over, batch, task, recipient, incoming, made,
                     relayed, late, introduced>>
  BY DEF ViewerGives
<1>3. /\ batch \in [Tasks -> SUBSET given] /\ pending \subseteq given
      /\ given \subseteq Candidates /\ frames \in Seq(AnyFrame)
  BY <1>1 DEF SignalShapes
<1>4. /\ c # "offer" /\ c \notin pending
      /\ \A u \in Tasks : c \notin batch[u]
      /\ \A i \in DOMAIN frames : frames[i].of # c
  BY <1>1, <1>2, <1>3, SignallingAssumption DEF OneHolder
<1>5. given' \subseteq Candidates /\ batch' \in [Tasks -> SUBSET given']
  BY <1>2, <1>3
<1>6. CASE Open
  <2>1. /\ frames' = Append(frames, [of |-> c, named |-> recipient])
        /\ pending' = pending /\ frames # <<>>
    BY <1>1, <1>2, <1>6 DEF Open, OfferBegins, SentOrKept
  <2>2. /\ frames' \in Seq(AnyFrame) /\ frames' # <<>> /\ FramesInOrder'
        /\ \A i \in DOMAIN frames' : frames'[i].named => recipient'
        /\ \A i \in DOMAIN frames' :
              frames'[i].of = c \/ \E j \in DOMAIN frames : frames'[i].of = frames[j].of
    BY <1>1, <1>2, <1>4, <2>1, CandidateSent
  <2>3. pending' \subseteq given'
    BY <1>2, <1>3, <2>1
  <2>4. SignalShapes'
    BY <1>1, <1>2, <1>5, <2>2, <2>3, Zenon DEF SignalShapes
  <2>5. OneHolder'
    BY <1>1, <1>2, <1>4, <2>1, <2>2 DEF OneHolder
  <2>6. OfferBegins'
    BY <1>1, <1>2, <2>1, <2>2, Zenon DEF OfferBegins
  <2>7. NamesAreKnown'
    BY <1>1, <1>2, <2>2, Zenon DEF NamesAreKnown
  <2>8. PumpEnds' /\ EventsCounted' /\ SenderIsOfUrl'
    BY <1>1, <1>2, Zenon DEF PumpEnds, EventsCounted, SenderIsOfUrl
  <2> QED BY <2>2, <2>4, <2>5, <2>6, <2>7, <2>8, Zenon DEF SignalInv
<1>7. CASE ~Open
  <2>1. pending' = pending \cup {c} /\ frames' = frames
    BY <1>2, <1>7 DEF SentOrKept
  <2>2. pending' \subseteq given'
    BY <1>2, <1>3, <2>1
  <2>3. SignalShapes'
    BY <1>1, <1>2, <1>5, <2>1, <2>2, Zenon DEF SignalShapes
  <2>4. OneHolder'
    BY <1>1, <1>2, <1>4, <2>1 DEF OneHolder
  <2>5. /\ OfferBegins' /\ FramesInOrder' /\ NamesAreKnown' /\ PumpEnds' /\ EventsCounted'
        /\ SenderIsOfUrl'
    BY <1>1, <1>2, <2>1, Zenon DEF OfferBegins, FramesInOrder, NamesAreKnown, PumpEnds,
       EventsCounted, SenderIsOfUrl
  <2> QED BY <2>3, <2>4, <2>5, Zenon DEF SignalInv
<1> QED BY <1>6, <1>7

LEMMA VehicleSendsKeeps ==
    ASSUME SignalInv, NEW e \in Signals \cup {"junk"}, VehicleSends(e)
    PROVE  SignalInv'
<1>1. /\ SignalShapes /\ OneHolder /\ OfferBegins /\ FramesInOrder /\ NamesAreKnown
      /\ PumpEnds /\ EventsCounted /\ SenderIsOfUrl
  BY Zenon DEF SignalInv
<1>2. /\ made < Events /\ incoming' = Append(incoming, e) /\ made' = made + 1
      /\ UNCHANGED <<endpoint, socket, client, over, pending, batch, task, recipient, given,
                     frames, relayed, late, introduced>>
  BY DEF VehicleSends
<1>3. made \in 0..Events /\ incoming \in Seq(Signals \cup {"junk"}) /\ relayed \in Nat
  BY <1>1 DEF SignalShapes
<1>4. made' \in 0..Events
  BY <1>2, <1>3, SignallingAssumption
<1>5. incoming' \in Seq(Signals \cup {"junk"}) /\ Len(incoming') = Len(incoming) + 1
  BY <1>2, <1>3
<1>6. SignalShapes'
  BY <1>1, <1>2, <1>4, <1>5, Zenon DEF SignalShapes
<1>7. /\ OneHolder' /\ OfferBegins' /\ FramesInOrder' /\ NamesAreKnown' /\ PumpEnds'
      /\ SenderIsOfUrl'
  BY <1>1, <1>2, Zenon DEF OneHolder, OfferBegins, FramesInOrder, NamesAreKnown, PumpEnds,
     SenderIsOfUrl
<1>8. EventsCounted'
  <2>1. Len(incoming) \in Nat
    BY <1>3
  <2> QED BY <1>1, <1>2, <1>3, <1>5, <2>1 DEF EventsCounted
<1> QED BY <1>6, <1>7, <1>8, Zenon DEF SignalInv

LEMMA PumpReceivesKeeps == SignalInv /\ PumpReceives => SignalInv'
<1> SUFFICES ASSUME SignalInv, PumpReceives PROVE SignalInv'
  OBVIOUS
<1> DEFINE e == Head(incoming)
<1>1. /\ SignalShapes /\ OneHolder /\ OfferBegins /\ FramesInOrder /\ NamesAreKnown
      /\ PumpEnds /\ EventsCounted /\ SenderIsOfUrl
  BY Zenon DEF SignalInv
<1>2. /\ task["pump"] = "listening" /\ incoming # <<>>
      /\ incoming' = Tail(incoming) /\ recipient' = NamedBy(e)
      /\ task' = [task EXCEPT !["pump"] = e]
      /\ Flushes("pump") \/ UNCHANGED <<batch, pending>>
      /\ introduced' = (introduced \/ e = "signal")
      /\ UNCHANGED <<endpoint, socket, client, over, made, given, frames, relayed, late>>
  BY DEF PumpReceives
<1>3. made \in 0..Events /\ incoming \in Seq(Signals \cup {"junk"}) /\ relayed \in Nat
  BY <1>1 DEF SignalShapes
<1>4. /\ e \in Signals \cup {"junk"} /\ incoming' \in Seq(Signals \cup {"junk"})
      /\ Len(incoming) \in Nat /\ Len(incoming') \in Nat /\ Len(incoming') + 1 = Len(incoming)
  BY <1>2, <1>3
<1> HIDE DEF e
<1>5. /\ task' \in [Tasks -> Stages] /\ task'["pump"] = e /\ task'["offer"] = task["offer"]
      /\ "pump" \in Tasks
  BY <1>1, <1>2, <1>4 DEF SignalShapes, Tasks, Stages, Signals
<1>6. /\ recipient' \in BOOLEAN /\ (recipient => recipient') /\ (e = "signal" => recipient')
      /\ introduced' \in BOOLEAN
  <2>1. NamedBy(e) \in BOOLEAN /\ (recipient => NamedBy(e)) /\ (e = "signal" => NamedBy(e))
    BY DEF NamedBy
  <2>2. (introduced \/ e = "signal") \in BOOLEAN
    OBVIOUS
  <2> QED BY <1>2, <2>1, <2>2, Zenon
<1>7. batch' \in [Tasks -> SUBSET given'] /\ pending' \subseteq given' /\ OneHolder'
  BY <1>1, <1>2, <1>5, FlushKeeps
<1>8. SignalShapes'
  BY <1>1, <1>2, <1>4, <1>5, <1>6, <1>7, Zenon DEF SignalShapes
<1>9. FramesInOrder' /\ SenderIsOfUrl'
  BY <1>1, <1>2, Zenon DEF FramesInOrder, SenderIsOfUrl
<1>10. task["offer"] # "no" /\ ~over
  <2>1. task["pump"] \notin {"no", "done"}
    BY <1>2
  <2> QED BY <1>1, <2>1, Zenon DEF OfferBegins, PumpEnds
<1>11. OfferBegins' /\ PumpEnds'
  BY <1>1, <1>2, <1>5, <1>10, Zenon DEF OfferBegins, PumpEnds
<1>12. NamesAreKnown'
  BY <1>1, <1>2, <1>5, <1>6, Zenon DEF NamesAreKnown
<1>13. EventsCounted'
  <2>1. task["pump"] \notin Signals
    BY <1>2 DEF Signals
  <2> QED BY <1>1, <1>2, <1>3, <1>4, <1>5, <2>1 DEF EventsCounted
<1> QED BY <1>7, <1>8, <1>9, <1>11, <1>12, <1>13, Zenon DEF SignalInv

LEMMA PumpRelaysKeeps == SignalInv /\ PumpRelays => SignalInv'
<1> SUFFICES ASSUME SignalInv, PumpRelays PROVE SignalInv'
  OBVIOUS
<1>1. /\ SignalShapes /\ OneHolder /\ OfferBegins /\ FramesInOrder /\ NamesAreKnown
      /\ PumpEnds /\ EventsCounted /\ SenderIsOfUrl
  BY Zenon DEF SignalInv
<1>2. /\ task["pump"] \in Signals \cup {"junk"}
      /\ task' = [task EXCEPT !["pump"] = "listening"]
      /\ relayed' = IF task["pump"] \in Signals THEN relayed + 1 ELSE relayed
      /\ late' = (late \/ over)
      /\ UNCHANGED <<endpoint, socket, client, over, pending, batch, recipient, incoming, made,
                     given, frames, introduced>>
  BY Zenon DEF PumpRelays
<1>3. made \in 0..Events /\ incoming \in Seq(Signals \cup {"junk"}) /\ relayed \in Nat
  BY <1>1 DEF SignalShapes
<1>4. /\ task' \in [Tasks -> Stages] /\ task'["pump"] = "listening"
      /\ task'["offer"] = task["offer"]
  BY <1>1, <1>2 DEF SignalShapes, Tasks, Stages
<1>5. task["pump"] \notin {"no", "done"} /\ task["offer"] # "no" /\ ~over
  <2>1. task["pump"] \notin {"no", "done"}
    BY <1>2 DEF Signals
  <2> QED BY <1>1, <2>1, Zenon DEF OfferBegins, PumpEnds
<1>6. late' \in BOOLEAN /\ ~late'
  <2>1. (late \/ over) \in BOOLEAN
    OBVIOUS
  <2> QED BY <1>1, <1>2, <1>5, <2>1, Zenon DEF PumpEnds
<1>7. relayed' \in Nat
  BY <1>2, <1>3
<1>8. SignalShapes'
  BY <1>1, <1>2, <1>4, <1>6, <1>7, Zenon DEF SignalShapes
<1>9. OneHolder' /\ FramesInOrder' /\ SenderIsOfUrl'
  BY <1>1, <1>2, Zenon DEF OneHolder, FramesInOrder, SenderIsOfUrl
<1>10. OfferBegins' /\ PumpEnds'
  BY <1>1, <1>2, <1>4, <1>5, <1>6, Zenon DEF OfferBegins, PumpEnds
<1>11. NamesAreKnown'
  BY <1>1, <1>2, Zenon DEF NamesAreKnown
<1>12. EventsCounted'
  <2>1. Len(incoming) \in Nat /\ task'["pump"] \notin Signals
    BY <1>3, <1>4 DEF Signals
  <2> QED BY <1>1, <1>2, <1>3, <2>1 DEF EventsCounted
<1> QED BY <1>8, <1>9, <1>10, <1>11, <1>12, Zenon DEF SignalInv

LEMMA ClosingKeeps == SignalInv /\ (Closes \/ SocketCloses) => SignalInv'
<1> SUFFICES ASSUME SignalInv, Closes \/ SocketCloses PROVE SignalInv'
  OBVIOUS
<1>1. /\ SignalShapes /\ OneHolder /\ OfferBegins /\ FramesInOrder /\ NamesAreKnown
      /\ PumpEnds /\ EventsCounted /\ SenderIsOfUrl
  BY Zenon DEF SignalInv
<1>2. socket' = socket \/ (Open /\ socket' = [socket EXCEPT !.state = "closed"])
  BY DEF Closes, SocketCloses
<1>3. UNCHANGED <<endpoint, client, pending, recipient, incoming, made, given, frames, relayed,
                  late, introduced>>
  BY DEF Closes, SocketCloses
<1>4. /\ socket' \in [state : {"none", "open", "closed"}, id : {Ours, Bound, "blank", Absent}]
      /\ socket'.id = socket.id
      /\ socket'.state = "open" => socket.state = "open"
      /\ (socket'.state = "none") <=> (socket.state = "none")
  BY <1>1, <1>2 DEF SignalShapes, Open
<1>5. /\ task' \in [Tasks -> Stages] /\ batch' \in [Tasks -> SUBSET given]
      /\ task'["offer"] = task["offer"] /\ \A t \in Tasks : batch'[t] \subseteq batch[t]
      /\ task'["pump"] \in {"done", task["pump"]} /\ over' \in BOOLEAN
      /\ over' => task'["pump"] \in {"no", "done"}
  <2>1. CASE Closes
    <3>1. /\ task' = [task EXCEPT !["pump"] = "done"] /\ batch' = [batch EXCEPT !["pump"] = {}]
          /\ over' = TRUE
      BY <2>1 DEF Closes, PumpCancelled
    <3>2. over' \in BOOLEAN
      BY <3>1, Zenon
    <3>3. /\ task' \in [Tasks -> Stages] /\ batch' \in [Tasks -> SUBSET given]
          /\ task'["offer"] = task["offer"] /\ \A t \in Tasks : batch'[t] \subseteq batch[t]
          /\ task'["pump"] = "done"
      BY <1>1, <3>1 DEF SignalShapes, Tasks, Stages
    <3> QED BY <3>2, <3>3
  <2>2. CASE SocketCloses
    <3>1. UNCHANGED <<task, batch, over>>
      BY <2>2 DEF SocketCloses
    <3> QED BY <1>1, <3>1 DEF SignalShapes, PumpEnds
  <2> QED BY <2>1, <2>2
<1>6. SignalShapes'
  BY <1>1, <1>3, <1>4, <1>5, Zenon DEF SignalShapes
<1>7. OneHolder'
  BY <1>1, <1>3, <1>5 DEF OneHolder, Tasks
<1>8. OfferBegins'
  BY <1>1, <1>3, <1>4, <1>5 DEF OfferBegins
<1>9. FramesInOrder'
  BY <1>1, <1>3, Zenon DEF FramesInOrder
<1>10. NamesAreKnown'
  BY <1>1, <1>3, Zenon DEF NamesAreKnown
<1>11. PumpEnds'
  BY <1>1, <1>3, <1>5, Zenon DEF PumpEnds
<1>12. EventsCounted'
  <2>1. relayed \in Nat /\ Len(incoming) \in Nat /\ made \in Nat
    BY <1>1, SignallingAssumption DEF SignalShapes
  <2>2. task'["pump"] \in Signals => task["pump"] \in Signals
    BY <1>5 DEF Signals
  <2> QED BY <1>1, <1>3, <2>1, <2>2 DEF EventsCounted
<1>13. SenderIsOfUrl'
  BY <1>1, <1>3, <1>4, Zenon DEF SenderIsOfUrl
<1> QED BY <1>6, <1>7, <1>8, <1>9, <1>10, <1>11, <1>12, <1>13, Zenon DEF SignalInv

LEMMA SignalStep == SignalInv /\ [SignalNext]_signalVars => SignalInv'
<1> SUFFICES ASSUME SignalInv, [SignalNext]_signalVars PROVE SignalInv'
  OBVIOUS
<1>1. CASE SocketOpens \/ SocketFails
  BY <1>1, SocketOpensKeeps, SocketFailsKeeps
<1>2. CASE OfferWritten \/ OfferDone
  BY <1>2, OfferGoesOnKeeps
<1>3. CASE PumpReceives \/ PumpRelays
  BY <1>3, PumpReceivesKeeps, PumpRelaysKeeps
<1>4. ASSUME NEW t \in Tasks, SendsNext(t) PROVE SignalInv'
  BY <1>4, SendsNextKeeps
<1>5. ASSUME NEW c \in Candidates, ViewerGives(c) PROVE SignalInv'
  BY <1>5, ViewerGivesKeeps
<1>6. ASSUME NEW e \in Signals \cup {"junk"}, VehicleSends(e) PROVE SignalInv'
  BY <1>6, VehicleSendsKeeps
<1>7. CASE Closes \/ SocketCloses
  BY <1>7, ClosingKeeps
<1>8. CASE UNCHANGED signalVars
  BY <1>8, Zenon DEF signalVars, SignalInv, SignalShapes, OneHolder, OfferBegins, FramesInOrder,
     NamesAreKnown, PumpEnds, EventsCounted, SenderIsOfUrl
<1> QED BY <1>1, <1>2, <1>3, <1>4, <1>5, <1>6, <1>7, <1>8, Zenon DEF SignalNext

(* The vehicle gets the offer first and each candidate at most once, under *)
(* its name once that is told, and the viewer nothing after the end, for   *)
(* any candidates and any number of events (_LiveSession, _pump_signaling).*)
THEOREM SessionsAreRelayed == SignalSpec => []SignalsRelayed
<1>1. SignalInv => SignalsRelayed
  <2> SUFFICES ASSUME SignalInv PROVE SignalsRelayed
    OBVIOUS
  <2>1. /\ SignalShapes /\ OneHolder /\ FramesInOrder /\ NamesAreKnown /\ PumpEnds
        /\ EventsCounted /\ SenderIsOfUrl
    BY Zenon DEF SignalInv
  <2>2. {made, relayed} \subseteq 0..Events
    <3>1. relayed \in Nat /\ Len(incoming) \in Nat /\ made \in 0..Events
      BY <2>1 DEF SignalShapes
    <3> QED BY <2>1, <3>1, SignallingAssumption DEF EventsCounted
  <2>3. {over, recipient, late, introduced} \subseteq BOOLEAN
    BY <2>1, Zenon DEF SignalShapes
  <2>4. pending \subseteq Candidates /\ batch \in [Tasks -> SUBSET Candidates]
    BY <2>1 DEF SignalShapes
  <2>5. \A i \in DOMAIN frames : frames[i] \in [of : Candidates \cup {"offer"}, named : BOOLEAN]
    <3>1. frames \in Seq(AnyFrame)
      BY <2>1, Zenon DEF SignalShapes
    <3>2. \A i \in DOMAIN frames : frames[i] \in AnyFrame
      BY <3>1
    <3> QED BY <3>2, Zenon DEF AnyFrame
  <2>6. SignalTypeOK
    BY <2>1, <2>2, <2>3, <2>4, <2>5, Zenon DEF SignalTypeOK, SignalShapes, OneHolder, Stages
  <2>7. OfferFirstThenEachOnce /\ NamedOnceKnown /\ NothingAfterTheEnd
    BY <2>1, Zenon DEF OfferFirstThenEachOnce, NamedOnceKnown, NothingAfterTheEnd, FramesInOrder,
       NamesAreKnown, PumpEnds
  <2> QED BY <2>1, <2>6, <2>7, Zenon DEF SignalsRelayed
<1> QED BY <1>1, SignalStarts, SignalStep, PTL DEF SignalSpec

-----------------------------------------------------------------------------
(* The topics.                                                             *)

(* A message that is as good as empty is not one the rule would make       *)
(* something of: the topic takes it as a message, the field is read only   *)
(* when it is there, a condition of the key keeps it out, or it is skipped *)
(* on purpose.                                                             *)
KeptOut(r) == \E g \in r.given : Nothing \notin g.known /\ (g.explicit \/ 0 \notin g.known)

SoundRule(t, r) ==
    /\ r.known \subseteq Values
    /\ \/ t \in EmptyPayload \/ r.explicit \/ KeptOut(r)
       \/ r.other = Nothing /\ (0 \notin r.known \/ t \in SkipsEmpty)

SoundKeys(t, keys) == \A k \in DOMAIN keys : SoundRule(t, keys[k])
SoundTopics(f)     == \A t \in DOMAIN f : SoundKeys(t, f[t])

(* Tables of sound rules.                                                  *)
LEMMA TopicOfKeys ==
    ASSUME NEW t, NEW tables, \A p \in tables : SoundKeys(t, p)
    PROVE  SoundTopics(On(t, tables))
<1>1. SUFFICES ASSUME NEW x \in DOMAIN Together(tables)
               PROVE  SoundRule(t, Together(tables)[x])
    BY DEF SoundTopics, SoundKeys, On
<1>2. DEFINE p == CHOOSE q \in tables : x \in DOMAIN q
<1>3. x \in UNION {DOMAIN q : q \in tables} /\ Together(tables)[x] = p[x]
    BY <1>1 DEF Together
<1>4. \E q \in tables : x \in DOMAIN q
    BY <1>3
<1>5. p \in tables /\ x \in DOMAIN p
    BY <1>4
<1> QED BY <1>3, <1>5 DEF SoundKeys

LEMMA TopicsTogether ==
    ASSUME NEW tables, \A f \in tables : SoundTopics(f)
    PROVE  SoundTopics(Together(tables))
<1>1. SUFFICES ASSUME NEW x \in DOMAIN Together(tables)
               PROVE  SoundKeys(x, Together(tables)[x])
    BY DEF SoundTopics
<1>2. DEFINE f == CHOOSE g \in tables : x \in DOMAIN g
<1>3. x \in UNION {DOMAIN g : g \in tables} /\ Together(tables)[x] = f[x]
    BY <1>1 DEF Together
<1>4. \E g \in tables : x \in DOMAIN g
    BY <1>3
<1>5. f \in tables /\ x \in DOMAIN f
    BY <1>4
<1> QED BY <1>3, <1>5 DEF SoundTopics

(* Sound rules, alone or given others: one that reads the field only if   *)
(* it is there, one that makes nothing of 0, and any in a topic that takes *)
(* the empty payload for a message or skips it on purpose.                 *)
SoundAlone(t, r) == SoundRule(t, r) /\ \A others : SoundRule(t, Given(r, others))

LEMMA WholeIsSound ==
    ASSUME NEW t, NEW f PROVE SoundAlone(t, Whole(f))
BY DEF SoundAlone, SoundRule, Whole, Given, Rule

LEMMA MappedIsSound ==
    ASSUME NEW t, NEW f, NEW known, known \subseteq Values PROVE SoundAlone(t, Mapped(f, known))
BY DEF SoundAlone, SoundRule, Mapped, Given, Rule

LEMMA OrElseIsSound ==
    ASSUME NEW t, NEW f, NEW known, known \subseteq Values, NEW other
    PROVE  SoundAlone(t, OrElse(f, known, other))
BY DEF SoundAlone, SoundRule, OrElse, Given, Rule

LEMMA PlainMappedIsSound ==
    ASSUME NEW t, NEW f, NEW known, known \subseteq Values, 0 \notin known \/ t \in EmptyPayload
    PROVE  SoundAlone(t, PlainMapped(f, known))
BY DEF SoundAlone, SoundRule, PlainMapped, Given, Rule

LEMMA PlainOrElseIsSound ==
    ASSUME NEW t, NEW f, NEW known, known \subseteq Values, NEW other, t \in EmptyPayload
    PROVE  SoundAlone(t, PlainOrElse(f, known, other))
BY DEF SoundAlone, SoundRule, PlainOrElse, Given, Rule

LEMMA PlainWholeIsSound ==
    ASSUME NEW t, NEW f, t \in EmptyPayload \cup SkipsEmpty PROVE SoundAlone(t, PlainWhole(f))
BY DEF SoundAlone, SoundRule, PlainWhole, Given, Rule

(* A topic of such rules.                                                  *)
LEMMA KeySound ==
    ASSUME NEW t, NEW k, NEW r, SoundRule(t, r) PROVE SoundKeys(t, Key(k, r))
BY DEF SoundKeys, Key

LEMMA KeyAlone ==
    ASSUME NEW t, NEW k, NEW r, SoundAlone(t, r) PROVE SoundKeys(t, Key(k, r))
BY DEF SoundAlone, SoundKeys, Key

LEMMA KeyGiven ==
    ASSUME NEW t, NEW k, NEW r, SoundAlone(t, r), NEW others
    PROVE  SoundKeys(t, Key(k, Given(r, others)))
BY DEF SoundAlone, SoundKeys, Key

LEMMA SameAlone ==
    ASSUME NEW t, NEW names, NEW r, SoundAlone(t, r) PROVE SoundKeys(t, Same(names, r))
BY DEF SoundAlone, SoundKeys, Same

LEMMA SameGiven ==
    ASSUME NEW t, NEW names, NEW r, SoundAlone(t, r), NEW others
    PROVE  SoundKeys(t, Same(names, Given(r, others)))
BY DEF SoundAlone, SoundKeys, Same

LEMMA BodyIsSound ==
    \A f \in BodyTopics : SoundTopics(f)
<1>1. /\ {1} \subseteq Values /\ {2} \subseteq Values
      /\ {1, 2} \subseteq Values /\ 1..4 \subseteq Values
    BY DEF Values
<1>2. 0 \notin {1} /\ 0 \notin {1, 2} /\ 0 \notin 1..4
    OBVIOUS
<1> QED BY <1>1, <1>2, OrElseIsSound, PlainMappedIsSound, MappedIsSound, KeyAlone, KeyGiven,
           TopicOfKeys DEF BodyTopics

LEMMA DynamicsIsSound ==
    \A f \in DynamicsTopics : SoundTopics(f)
<1>1. /\ {1} \subseteq Values /\ 0..4 \subseteq Values
      /\ \A n \in {3, 4, 15} : 1..n \subseteq Values /\ 0 \notin 1..n
    BY DEF Values
<1> QED BY <1>1, WholeIsSound, MappedIsSound, OrElseIsSound, PlainMappedIsSound,
           KeyAlone, KeyGiven, TopicOfKeys DEF DynamicsTopics

LEMMA ChargingIsSound ==
    \A f \in ChargingTopics : SoundTopics(f)
<1>1. /\ {1, 2} \subseteq Values /\ {0, 3, 4, 5, 6, 8, 9} \subseteq Values
      /\ 0..10 \subseteq Values /\ 1..15 \subseteq Values /\ 0 \notin {1, 2} /\ 0 \notin 1..15
    BY DEF Values
<1>2. /\ "charging.session.notification" \in EmptyPayload
      /\ "charging.session.time_estimation" \in SkipsEmpty
      /\ "charging.schedule.time_window" \in SkipsEmpty
    BY DEF EmptyPayload, SkipsEmpty
<1> QED BY <1>1, <1>2, WholeIsSound, PlainWholeIsSound, PlainMappedIsSound, SameAlone,
           KeyAlone, KeyGiven, TopicOfKeys DEF ChargingTopics

LEMMA SeatIsSound ==
    SoundTopics(On("comfort.cabin.seat_conditioning_status",
        {Key("seat", Given(PlainMapped("state", 0..3), {PlainMapped("id", 1..7),
                                                        PlainMapped("type", {1, 2})}))}))
<1>1. SoundRule("comfort.cabin.seat_conditioning_status",
          Given(PlainMapped("state", 0..3), {PlainMapped("id", 1..7),
                                             PlainMapped("type", {1, 2})}))
  <2>1. Nothing \notin 1..7 /\ 0 \notin 1..7 /\ 0..3 \subseteq Values
      BY TopicsAssumption DEF Values
  <2> QED BY <2>1 DEF SoundRule, KeptOut, PlainMapped, Given, Rule
<1> QED BY <1>1, KeySound, TopicOfKeys

LEMMA ComfortIsSound ==
    \A f \in ComfortTopics : SoundTopics(f)
<1>1. /\ {1} \subseteq Values /\ 0..3 \subseteq Values /\ 0..4 \subseteq Values
      /\ 0..9 \subseteq Values /\ {1, 2} \subseteq Values /\ 1..4 \subseteq Values
      /\ 0 \notin {1, 2} /\ 0 \notin 1..4
    BY DEF Values
<1>2. /\ "comfort.cabin.cabin_preconditioning_status" \in EmptyPayload
      /\ "comfort.cabin.climate_hold_setting" \in EmptyPayload
      /\ "comfort.user_modes.state" \in EmptyPayload
    BY DEF EmptyPayload
<1> QED BY <1>1, <1>2, WholeIsSound, MappedIsSound, OrElseIsSound, PlainWholeIsSound,
           PlainMappedIsSound, PlainOrElseIsSound, SeatIsSound, KeyAlone, SameAlone,
           TopicOfKeys DEF ComfortTopics

LEMMA OtaIsSound ==
    \A f \in OtaTopics : SoundTopics(f)
<1>1. /\ {1} \subseteq Values /\ \A n \in {3, 14} : 1..n \subseteq Values /\ 0 \notin 1..n
    BY DEF Values
<1>2. "ota.user_schedule.ota_config" \in EmptyPayload
    BY DEF EmptyPayload
<1>3. SoundRule("ota.deployment.state",
          Given(PlainOrElse("install_ready", {1}, 0), {Firmware, HasProgress}))
  <2>1. Nothing \notin Firmware.known /\ 0 \notin Firmware.known
      BY TopicsAssumption DEF Firmware, PlainMapped, Rule
  <2> QED BY <1>1, <2>1 DEF SoundRule, KeptOut, PlainOrElse, Given, Rule
<1>4. 0 \notin 1..3 /\ 0 \notin 1..14
    OBVIOUS
<1>5. {1} \subseteq Values /\ 1..3 \subseteq Values /\ 1..14 \subseteq Values
    BY DEF Values
<1> QED BY <1>2, <1>3, <1>4, <1>5, KeySound, WholeIsSound, PlainWholeIsSound, PlainMappedIsSound,
           KeyAlone, KeyGiven, SameGiven, TopicOfKeys, SMTT(60) DEF OtaTopics

LEMMA AccessIsSound ==
    \A f \in AccessTopics : SoundTopics(f)
<1>1. 0..2 \subseteq Values /\ AccessNames \subseteq EmptyPayload
    BY DEF Values, EmptyPayload
<1>2. ASSUME NEW t \in AccessNames
      PROVE  SoundTopics(On(t,
                 {Key("passiveEntryBluetoothInCcc", PlainWhole("allow_bluetooth_while_in_ccc")),
                  Key("cccPassivePermissionStatus",
                      PlainOrElse("ccc_passive_permission", 0..2, 0))}))
    BY <1>1, PlainWholeIsSound, PlainOrElseIsSound, KeyAlone, TopicOfKeys
<1> QED BY <1>2 DEF AccessTopics

LEMMA EnergyToGeofence ==
    \A f \in EnergyTopics \cup EdgeComputeTopics \cup GearGuardTopics \cup GeofenceTopics :
        SoundTopics(f)
<1>1. /\ {1, 2} \subseteq Values /\ 1..4 \subseteq Values
      /\ 0..3 \subseteq Values /\ 0..2 \subseteq Values
    BY DEF Values
<1>2. /\ "energy_edge_compute.graphs.charge_session_breakdown" \in SkipsEmpty
      /\ "energy_edge_compute.graphs.cold_weather_soc" \in EmptyPayload
      /\ "geofence.geofence_service.favoriteGeofences" \in EmptyPayload
    BY DEF EmptyPayload, SkipsEmpty
<1> QED BY <1>1, <1>2, WholeIsSound, MappedIsSound, OrElseIsSound, PlainWholeIsSound,
           KeyAlone, SameAlone, TopicOfKeys
        DEF EnergyTopics, EdgeComputeTopics, GearGuardTopics, GeofenceTopics

LEMMA HolidayToPasscode ==
    \A f \in HolidayTopics \cup NavigationTopics \cup SecureFileTopics \cup PasscodeTopics :
        SoundTopics(f)
<1>1. {1, 2} \subseteq Values /\ \A n \in {3, 5, 6} : 1..n \subseteq Values /\ 0 \notin 1..n
    BY DEF Values
<1>2. 0 \notin {1, 2}
    OBVIOUS
<1>3. \A f \in SecureFileTopics : SoundTopics(f)
    <2>1. 1..3 \subseteq Values
        BY <1>1
    <2> QED BY <2>1, OrElseIsSound, KeyAlone, TopicOfKeys DEF SecureFileTopics
<1> QED BY <1>1, <1>2, <1>3, WholeIsSound, MappedIsSound, PlainMappedIsSound, KeyAlone, SameAlone,
           TopicOfKeys DEF HolidayTopics, NavigationTopics, PasscodeTopics

LEMMA SecurityAndVehicle ==
    \A f \in SecurityTopics \cup VehicleTopics : SoundTopics(f)
<1>1. /\ {1, 2} \subseteq Values /\ {0, 1} \subseteq Values /\ 0..2 \subseteq Values
      /\ \A n \in {3, 5, 6, 7, 13} : 1..n \subseteq Values
      /\ Values \ {Unlisted} \subseteq Values
    BY DEF Values
<1> QED BY <1>1, WholeIsSound, MappedIsSound, OrElseIsSound, KeyAlone, SameAlone,
           TopicOfKeys DEF SecurityTopics, VehicleTopics, Text

LEMMA TopicsAreSound == SoundTopics(Decoders)
BY BodyIsSound, ChargingIsSound, ComfortIsSound, DynamicsIsSound, EnergyToGeofence,
   HolidayToPasscode, OtaIsSound, SecurityAndVehicle, AccessIsSound,
   TopicsTogether DEF Decoders

(* What a message says of the key is a value or nothing, and what the      *)
(* decoder makes of it is nothing, the value or the rule's other.          *)
LEMMA SaysAValue ==
    ASSUME NEW m \in Messages PROVE Says(m) \in Values \cup {Nothing}
<1>1. m[rule.from] \in Values \cup {Nothing}
    BY DEF Messages, Fields
<1>2. 0 \in Values
    BY DEF Values
<1> QED BY <1>1, <1>2 DEF Says, Reads

LEMMA DecodesTheSaid ==
    ASSUME NEW m, NEW rest, Decode(m, rest) # Nothing
    PROVE  /\ Says(m) # Nothing
           /\ Decode(m, rest) = IF Says(m) \in rule.known THEN Says(m) ELSE rule.other
<1>1. Decode(m, rest) = Read(rule, m)
    BY DEF Decode
<1> HIDE DEF rule
<1> QED BY <1>1 DEF Read, Says

(* An empty payload that is not decoded says nothing, or a 0 that the key  *)
(* makes nothing of.                                                       *)
LEMMA EmptySaysNothing ==
    ASSUME NEW m, NEW rest, IsEmpty(m, rest), topic \notin EmptyPayload, SoundRule(topic, rule)
    PROVE  \/ Says(m) = Nothing
           \/ Says(m) = 0 /\ rule.other = Nothing /\ (0 \notin rule.known \/ topic \in SkipsEmpty)
<1>1. CASE rule.explicit
  <2>1. m[rule.from] = Nothing
      BY <1>1 DEF IsEmpty
  <2> QED BY <1>1, <2>1 DEF Says, Reads
<1>2. CASE KeptOut(rule)
  <2>1. PICK g \in rule.given : Nothing \notin g.known /\ (g.explicit \/ 0 \notin g.known)
      BY <1>2 DEF KeptOut
  <2>2. m[g.from] = Nothing \/ (~g.explicit /\ m[g.from] = 0)
      BY DEF IsEmpty
  <2>3. Reads(g, m) \notin g.known
      BY <2>1, <2>2 DEF Reads
  <2> QED BY <2>3 DEF Says, Passes
<1>3. CASE ~rule.explicit /\ rule.other = Nothing /\ (0 \notin rule.known \/ topic \in SkipsEmpty)
  <2>1. m[rule.from] = Nothing \/ m[rule.from] = 0
      BY <1>3 DEF IsEmpty
  <2>2. Reads(rule, m) = 0
      BY <1>3, <2>1 DEF Reads
  <2> QED BY <1>3, <2>2 DEF Says
<1> QED BY <1>1, <1>2, <1>3 DEF SoundRule

(* So what is listed is shown, and so is that the rest is not.             *)
LEMMA ListedIsDecoded ==
    ASSUME NEW m, NEW rest, SoundRule(topic, rule), Says(m) # Nothing,
           \/ Says(m) \in rule.known /\ (Says(m) = 0 => topic \notin SkipsEmpty)
           \/ rule.other # Nothing
    PROVE  Decode(m, rest) # Nothing
<1>1. ~(IsEmpty(m, rest) /\ topic \notin EmptyPayload)
    BY EmptySaysNothing
<1>2. Decode(m, rest) = Read(rule, m)
    BY <1>1 DEF Decode
<1>3. Passes(rule, m) /\ Reads(rule, m) = Says(m)
    BY DEF Says
<1> QED BY <1>2, <1>3 DEF Read

LEMMA RuleIsSound ==
    ASSUME TopicTypeOK PROVE SoundRule(topic, rule)
BY TopicsAreSound DEF TopicTypeOK, SoundTopics, SoundKeys, rule

LEMMA TopicStarts ==
    TopicInit => TopicTells
<1>1. SUFFICES ASSUME TopicInit PROVE TopicTells
    OBVIOUS
<1>2. TopicTypeOK
    BY <1>1 DEF TopicInit, TopicTypeOK
<1>3. Nothing \notin Values
    BY TopicsAssumption DEF Values
<1>4. Nothing \notin rule.known
    BY <1>2, <1>3, RuleIsSound DEF SoundRule
<1> QED BY <1>1, <1>2, <1>4 DEF TopicInit, TopicTells, FollowsVehicle, Reassures

LEMMA TopicStep ==
    TopicTells /\ [TopicNext]_topicVars => TopicTells'
<1>1. SUFFICES ASSUME TopicTells, [TopicNext]_topicVars PROVE TopicTells'
    OBVIOUS
<1>2. topic' = topic /\ key' = key /\ rule' = rule
    BY <1>1 DEF TopicNext, Arrives, topicVars, rule
<1>3. CASE UNCHANGED topicVars
    BY <1>1, <1>2, <1>3 DEF TopicTells, TopicTypeOK, FollowsVehicle, Reassures, topicVars
<1>4. CASE TopicNext
  <2>1. PICK m \in Messages, rest \in BOOLEAN : Arrives(m, rest)
      BY <1>4 DEF TopicNext
  <2> DEFINE s == Says(m)
             d == Decode(m, rest)
  <2>2. /\ last' = s
        /\ lastStated' = IF s # Nothing THEN s ELSE lastStated
        /\ shown' = IF d # Nothing THEN d ELSE shown
      BY <2>1 DEF Arrives
  <2>3. s \in Values \cup {Nothing}
      BY SaysAValue
  <2>4. d # Nothing => s # Nothing /\ d = IF s \in rule.known THEN s ELSE rule.other
      BY DecodesTheSaid
  <2>5. SoundRule(topic, rule)
      BY <1>1, RuleIsSound DEF TopicTells
  <2>6. s # Nothing /\ (\/ s \in rule.known /\ (s = 0 => topic \notin SkipsEmpty)
                        \/ rule.other # Nothing) => d # Nothing
      BY <2>5, ListedIsDecoded
  <2>7. Nothing \notin rule.known
      BY <2>5, TopicsAssumption DEF SoundRule, Values
  <2> HIDE DEF s, d, rule
  <2>8. TopicTypeOK'
    <3>1. topic \in DOMAIN Decoders /\ key \in DOMAIN Decoders[topic]
        BY <1>1 DEF TopicTells, TopicTypeOK
    <3>2. {last, lastStated}' \subseteq Values \cup {Nothing}
        BY <1>1, <2>2, <2>3 DEF TopicTells, TopicTypeOK
    <3>3. shown' \in rule.known \cup {rule.other, Nothing}
        BY <1>1, <2>2, <2>4 DEF TopicTells, TopicTypeOK
    <3> QED BY <1>2, <3>1, <3>2, <3>3 DEF TopicTypeOK
  <2>9. FollowsVehicle'
      BY <1>2, <2>2, <2>4, <2>6, <2>7 DEF FollowsVehicle
  <2>10. Reassures'
      BY <1>1, <1>2, <2>2, <2>4, <2>6 DEF TopicTells, Reassures
  <2> QED BY <2>8, <2>9, <2>10 DEF TopicTells
<1> QED BY <1>1, <1>3, <1>4

(* A key of the record tells what the vehicle said of it last: a listed    *)
(* value is shown when it comes, a 0 that makes the payload empty among    *)
(* them, and a word that reassures was the last that was said              *)
(* (RVMDecoder.register's decode, the decoders of decoders/*.py).          *)
THEOREM TopicIsTold == TopicSpec => []TopicTells
BY TopicStarts, TopicStep, PTL DEF TopicSpec

-----------------------------------------------------------------------------
(* Lists: induction over the positions of a list, from the fact that <     *)
(* is well founded on the naturals, and what the two loops return.         *)

(* A set of naturals that is not empty has a least element: what the well- *)
(* foundedness of < on the naturals says.                                  *)
LEMMA LeastNat ==
    ASSUME NEW S \in SUBSET Nat, S # {}
    PROVE  \E m \in S : \A k \in S : m <= k
<1>1. \E x \in S : \A y \in S : ~ (<<y, x>> \in OpToRel(<, Nat))
  BY WFMin, NatLessThanWellFounded
<1>2. \E x \in S : \A y \in S : ~(y < x)
  BY <1>1 DEF OpToRel
<1> QED
  BY <1>2

(* What holds at 0, and at each position if it does at the one before,     *)
(* holds at every position.                                                *)
LEMMA Induction ==
    ASSUME NEW N \in Nat, NEW S, 0 \in S, \A n \in 1 .. N : n - 1 \in S => n \in S
    PROVE  0 .. N \subseteq S
<1>1. SUFFICES ASSUME (0 .. N) \ S # {} PROVE FALSE
  OBVIOUS
<1>2. PICK m \in (0 .. N) \ S : \A k \in (0 .. N) \ S : m <= k
  <2>1. (0 .. N) \ S \in SUBSET Nat
    OBVIOUS
  <2> QED
    BY <1>1, <2>1, LeastNat
<1>3. m # 0
  BY <1>2
<1>4. m - 1 \in S
  BY <1>2, <1>3
<1> QED
  BY <1>2, <1>3, <1>4

(* A function defined by recursion over the positions of a list exists,    *)
(* if each step is one of a set to itself.                                 *)
StepsOf(N, T) == [1 .. N -> [T -> T]]
ByRecursion(N, T, base, step, g) ==
    /\ g \in [0 .. N -> T]
    /\ g[0] = base /\ \A i \in 1 .. N : g[i] = step[i][g[i - 1]]

LEMMA RecursionExists ==
    ASSUME NEW N \in Nat, NEW T, NEW base \in T, NEW step \in StepsOf(N, T)
    PROVE  \E g : ByRecursion(N, T, base, step, g)
<1> DEFINE F(n, g) == /\ g \in [0 .. n -> T]
                      /\ g[0] = base /\ \A i \in 1 .. n : g[i] = step[i][g[i - 1]]
           S == {n \in 0 .. N : \E g : F(n, g)}
<1>1. 0 \in S
  <2>1. F(0, [i \in 0 .. 0 |-> base])
    OBVIOUS
  <2> HIDE DEF F
  <2> QED BY <2>1
<1>2. ASSUME NEW n \in 1 .. N, n - 1 \in S
      PROVE  n \in S
  <2>1. PICK g : F(n - 1, g)
    BY <1>2
  <2> DEFINE h == [i \in 0 .. n |-> IF i = n THEN step[n][g[n - 1]] ELSE g[i]]
  <2>2. step[n][g[n - 1]] \in T
    BY <2>1 DEF StepsOf
  <2>3. h \in [0 .. n -> T] /\ h[0] = base
    BY <2>1, <2>2
  <2>4. ASSUME NEW i \in 1 .. n
        PROVE  h[i] = step[i][h[i - 1]]
    <3>1. CASE i = n
      BY <3>1, <2>1
    <3>2. CASE i # n
      BY <3>2, <2>1
    <3> QED BY <3>1, <3>2
  <2>5. F(n, h)
    BY <2>3, <2>4
  <2> HIDE DEF F, h
  <2> QED BY <2>5
<1>3. 0 .. N \subseteq S
  <2> HIDE DEF S
  <2> QED BY <1>1, <1>2, Induction
<1>4. PICK g : F(N, g)
  <2> HIDE DEF F
  <2> QED BY <1>3
<1> QED
  BY <1>4 DEF ByRecursion

(* The partial sums of a list of numbers, of which Total is the last.      *)
SumsOf(N, w, g) ==
    /\ g[0] = 0
    /\ \A i \in 1 .. N :
          g[i] = g[i - 1] + w[i] /\ w[i] \in Nat /\ g[i] \in Nat /\ g[i - 1] \in Nat

(* Total is the last of the partial sums: the function it is defined by    *)
(* exists, and there is one only.                                          *)
LEMMA TotalIsSum ==
    ASSUME NEW w \in Seq(Nat)
    PROVE  \E g : SumsOf(Len(w), w, g) /\ Total(w) = g[Len(w)]
<1> DEFINE N == Len(w)
           step == [i \in 1 .. N |-> [x \in Nat |-> x + w[i]]]
           rec == CHOOSE g : g = [i \in 0 .. Len(w) |-> IF i = 0 THEN 0 ELSE g[i - 1] + w[i]]
<1>1. N \in Nat /\ \A i \in 1 .. N : w[i] \in Nat
  OBVIOUS
<1>2. step \in StepsOf(N, Nat)
  BY <1>1 DEF StepsOf
<1>3. PICK g : ByRecursion(N, Nat, 0, step, g)
  <2> HIDE DEF N, step
  <2> QED BY <1>1, <1>2, RecursionExists
<1>4. ASSUME NEW i \in 1 .. N
      PROVE  g[i] = g[i - 1] + w[i] /\ g[i - 1] \in Nat
  <2>1. i - 1 \in 0 .. N
    BY <1>1
  <2>2. g[i - 1] \in Nat
    BY <1>3, <2>1 DEF ByRecursion
  <2>3. g[i] = step[i][g[i - 1]]
    BY <1>3 DEF ByRecursion
  <2> QED BY <2>2, <2>3
<1>5. g = [i \in 0 .. N |-> IF i = 0 THEN 0 ELSE g[i - 1] + w[i]]
  BY <1>3, <1>4 DEF ByRecursion
<1>6. rec = [i \in 0 .. N |-> IF i = 0 THEN 0 ELSE rec[i - 1] + w[i]]
  BY <1>5
<1>7. Total(w) = rec[N]
  BY DEF Total
<1>8. rec[N] = g[N]
  <2> DEFINE T == {i \in 0 .. N : rec[i] = g[i]}
  <2> HIDE DEF rec, N
  <2>1. 0 \in T /\ \A i \in 1 .. N : i - 1 \in T => i \in T
    BY <1>3, <1>4, <1>6, <1>1 DEF ByRecursion
  <2> HIDE DEF T
  <2>2. 0 .. N \subseteq T
    BY <2>1, <1>1, Induction
  <2> QED BY <2>2, <1>1 DEF T
<1>9. SumsOf(N, w, g)
  BY <1>1, <1>3, <1>4 DEF SumsOf, ByRecursion
<1> HIDE DEF rec
<1> QED
  BY <1>9, <1>8, <1>7

(* The sum of naturals is a natural.                                       *)
LEMMA TotalIsNat ==
    ASSUME NEW w \in Seq(Nat)
    PROVE  Total(w) \in Nat
<1>1. PICK g : SumsOf(Len(w), w, g) /\ Total(w) = g[Len(w)]
  BY TotalIsSum
<1>2. Len(w) = 0 \/ Len(w) \in 1 .. Len(w)
  OBVIOUS
<1> QED BY <1>1, <1>2 DEF SumsOf

(* Sums of the same numbers are the same, those of numbers that are no     *)
(* less are no less, and those of two lists together are both.             *)
LEMMA SumsCompare ==
    ASSUME NEW N \in Nat, NEW v, NEW w, NEW g, NEW h, SumsOf(N, v, g), SumsOf(N, w, h)
    PROVE  /\ (\A i \in 1 .. N : v[i] = w[i])  => g[N] = h[N]
           /\ (\A i \in 1 .. N : v[i] <= w[i]) => g[N] <= h[N]
<1>1. ASSUME \A i \in 1 .. N : v[i] = w[i]
      PROVE  g[N] = h[N]
  <2> DEFINE T == {i \in 0 .. N : g[i] = h[i]}
  <2>1. 0 \in T /\ \A i \in 1 .. N : i - 1 \in T => i \in T
    BY <1>1 DEF SumsOf
  <2>2. 0 .. N \subseteq T
    <3> HIDE DEF T
    <3> QED BY <2>1, Induction
  <2> QED BY <2>2
<1>2. ASSUME \A i \in 1 .. N : v[i] <= w[i]
      PROVE  g[N] <= h[N]
  <2> DEFINE T == {i \in 0 .. N : g[i] <= h[i]}
  <2>1. 0 \in T /\ \A i \in 1 .. N : i - 1 \in T => i \in T
    BY <1>2 DEF SumsOf
  <2>2. 0 .. N \subseteq T
    <3> HIDE DEF T
    <3> QED BY <2>1, Induction
  <2> QED BY <2>2
<1> QED
  BY <1>1, <1>2

(* The partial sums of two lists add up to those of the list of sums.      *)
LEMMA SumsAdd ==
    ASSUME NEW N \in Nat, NEW u, NEW v, NEW w, NEW f, NEW g, NEW h,
           SumsOf(N, u, f), SumsOf(N, v, g), SumsOf(N, w, h),
           \A i \in 1 .. N : w[i] = u[i] + v[i]
    PROVE  h[N] = f[N] + g[N]
<1> DEFINE T == {i \in 0 .. N : h[i] = f[i] + g[i]}
<1>1. 0 \in T
  BY DEF SumsOf
<1>2. ASSUME NEW i \in 1 .. N, i - 1 \in T
      PROVE  i \in T
  <2>1. h[i - 1] = f[i - 1] + g[i - 1]
    BY <1>2
  <2>2. h[i] = f[i] + g[i]
    BY <2>1 DEF SumsOf
  <2> QED BY <2>2
<1>3. 0 .. N \subseteq T
  <2> HIDE DEF T
  <2> QED BY <1>1, <1>2, Induction
<1> QED
  BY <1>3

(* Hence the total of a list with one more number ...                      *)
LEMMA TotalOfMore ==
    ASSUME NEW w \in Seq(Nat), NEW x \in Nat
    PROVE  Total(Append(w, x)) = Total(w) + x
<1> DEFINE N == Len(w)  v == Append(w, x)
<1>1. v \in Seq(Nat) /\ Len(v) = N + 1 /\ v[N + 1] = x /\ N \in Nat
  OBVIOUS
<1>2. \A i \in 1 .. N : v[i] = w[i]
  OBVIOUS
<1>3. PICK g : SumsOf(N, w, g) /\ Total(w) = g[N]
  BY TotalIsSum
<1>4. PICK h : SumsOf(N + 1, v, h) /\ Total(v) = h[N + 1]
  <2> HIDE DEF v
  <2> QED BY <1>1, TotalIsSum
<1> HIDE DEF N, v
<1>5. SumsOf(N, v, h)
  <2>1. N \in Nat /\ SumsOf(N + 1, v, h)
    BY ONLY <1>1, <1>4
  <2>2. \A i \in 1 .. N : i \in 1 .. N + 1
    BY ONLY <2>1
  <2> QED BY ONLY <2>1, <2>2 DEF SumsOf
<1>6. g[N] = h[N]
  BY <1>1, <1>2, <1>3, <1>5, SumsCompare
<1>7. h[N + 1] = h[N] + x
  BY <1>1, <1>4 DEF SumsOf
<1> QED
  BY <1>3, <1>4, <1>6, <1>7 DEF v

(* ... with numbers that are no less ...                                   *)
LEMMA TotalGrows ==
    ASSUME NEW v, NEW w, v \in Seq(Nat), w \in Seq(Nat), Len(v) = Len(w),
           \A i \in 1 .. Len(w) : v[i] <= w[i]
    PROVE  Total(v) <= Total(w)
<1>1. Len(w) \in Nat
  OBVIOUS
<1>2. PICK g : SumsOf(Len(w), v, g) /\ Total(v) = g[Len(w)]
  BY TotalIsSum
<1>3. PICK h : SumsOf(Len(w), w, h) /\ Total(w) = h[Len(w)]
  BY TotalIsSum
<1>4. g[Len(w)] <= h[Len(w)]
  BY ONLY <1>1, <1>2, <1>3, SumsCompare, \A i \in 1 .. Len(w) : v[i] <= w[i]
<1> QED
  BY <1>2, <1>3, <1>4

(* ... and of the sums of two lists.                                       *)
LEMMA TotalOfBoth ==
    ASSUME NEW u, NEW v, NEW w, u \in Seq(Nat), v \in Seq(Nat), w \in Seq(Nat),
           Len(u) = Len(w), Len(v) = Len(w),
           \A i \in 1 .. Len(w) : w[i] = u[i] + v[i]
    PROVE  Total(w) = Total(u) + Total(v)
<1>1. Len(w) \in Nat
  OBVIOUS
<1>2. PICK f : SumsOf(Len(w), u, f) /\ Total(u) = f[Len(w)]
  BY TotalIsSum
<1>3. PICK g : SumsOf(Len(w), v, g) /\ Total(v) = g[Len(w)]
  BY TotalIsSum
<1>4. PICK h : SumsOf(Len(w), w, h) /\ Total(w) = h[Len(w)]
  BY TotalIsSum
<1>5. h[Len(w)] = f[Len(w)] + g[Len(w)]
  BY ONLY <1>1, <1>2, <1>3, <1>4, SumsAdd, \A i \in 1 .. Len(w) : w[i] = u[i] + v[i]
<1> QED
  BY <1>2, <1>3, <1>4, <1>5

(* What Those has kept of the first i elements: a list k, whose elements   *)
(* stand at the positions at of the list.                                  *)
KeptOf(s, S, i, k, at) ==
    /\ k \in Seq({s[j] : j \in 1 .. i} \cap S)
    /\ \A j \in 1 .. i : s[j] \in S => \E n \in 1 .. Len(k) : k[n] = s[j]
    /\ at \in [1 .. Len(k) -> 1 .. i]
    /\ \A n \in 1 .. Len(k) : k[n] = s[at[n]]
    /\ \A m, n \in 1 .. Len(k) : m < n => at[m] < at[n]

(* One more element is kept at the end or not at all.                      *)
LEMMA KeepsOneMore ==
    ASSUME NEW s, NEW S, NEW i \in Nat \ {0}, NEW k, NEW at, KeptOf(s, S, i - 1, k, at)
    PROVE  /\ s[i] \notin S => KeptOf(s, S, i, k, at)
           /\ s[i] \in S => KeptOf(s, S, i, Append(k, s[i]),
                                   [n \in 1 .. Len(k) + 1 |-> IF n <= Len(k) THEN at[n] ELSE i])
<1>1. 1 .. i = (1 .. i - 1) \cup {i} /\ i \notin 1 .. i - 1
  OBVIOUS
<1>2. ASSUME s[i] \notin S
      PROVE  KeptOf(s, S, i, k, at)
  <2>1. {s[j] : j \in 1 .. i} \cap S = {s[j] : j \in 1 .. i - 1} \cap S
    BY <1>1, <1>2
  <2>2. k \in Seq({s[j] : j \in 1 .. i} \cap S)
    BY <2>1 DEF KeptOf
  <2>3. at \in [1 .. Len(k) -> 1 .. i]
    BY <1>1 DEF KeptOf
  <2> QED BY <1>1, <1>2, <2>2, <2>3 DEF KeptOf
<1>3. ASSUME s[i] \in S
      PROVE  KeptOf(s, S, i, Append(k, s[i]),
                    [n \in 1 .. Len(k) + 1 |-> IF n <= Len(k) THEN at[n] ELSE i])
  <2> DEFINE X == {s[j] : j \in 1 .. i} \cap S
             N == Len(k)
             more == Append(k, s[i])
             att == [n \in 1 .. Len(k) + 1 |-> IF n <= Len(k) THEN at[n] ELSE i]
  <2>1. k \in Seq(X) /\ s[i] \in X
    <3>1. {s[j] : j \in 1 .. i - 1} \cap S \subseteq X
      BY <1>1
    <3>2. k \in Seq({s[j] : j \in 1 .. i - 1} \cap S)
      BY DEF KeptOf
    <3>3. s[i] \in X
      BY <1>1, <1>3
    <3> HIDE DEF X
    <3>4. \A A : A \subseteq X => Seq(A) \subseteq Seq(X)
      OBVIOUS
    <3> QED BY <3>1, <3>2, <3>3, <3>4
  <2>2. /\ more \in Seq(X) /\ N \in Nat /\ Len(more) = N + 1
        /\ more[N + 1] = s[i] /\ \A n \in 1 .. N : more[n] = k[n]
    <3> HIDE DEF X
    <3> QED BY <2>1
  <2>3. \A n \in 1 .. N : at[n] \in 1 .. i - 1 /\ k[n] = s[at[n]]
    BY DEF KeptOf
  <2> HIDE DEF N, more
  <2>4. \A n \in 1 .. N : att[n] = at[n]
    BY <2>2 DEF N
  <2>5. att[N + 1] = i
    BY <2>2 DEF N
  <2>6. att \in [1 .. Len(more) -> 1 .. i]
    BY <2>2, <2>3, <1>1 DEF N
  <2> HIDE DEF att
  <2>7. \A n \in 1 .. Len(more) : more[n] = s[att[n]]
    BY <2>2, <2>3, <2>4, <2>5
  <2>8. \A m, n \in 1 .. Len(more) : m < n => att[m] < att[n]
    <3> TAKE m, n \in 1 .. Len(more)
    <3> HAVE m < n
    <3>1. CASE n = N + 1
      BY <3>1, <2>2, <2>3, <2>4, <2>5
    <3>2. CASE n # N + 1
      <4>1. m \in 1 .. N /\ n \in 1 .. N
        BY <3>2, <2>2
      <4>2. at[m] < at[n]
        BY <4>1 DEF KeptOf, N
      <4> QED BY <4>1, <4>2, <2>4
    <3> QED BY <3>1, <3>2
  <2>9. ASSUME NEW j \in 1 .. i, s[j] \in S
        PROVE  \E n \in 1 .. Len(more) : more[n] = s[j]
    <3>1. CASE j = i
      BY <3>1, <2>2
    <3>2. CASE j # i
      <4>1. PICK n \in 1 .. N : k[n] = s[j]
        BY <3>2, <1>1, <2>9 DEF KeptOf, N
      <4> QED BY <4>1, <2>2
    <3> QED BY <3>1, <3>2
  <2> QED
    BY <2>2, <2>6, <2>7, <2>8, <2>9 DEF KeptOf, more, att
<1> QED
  BY <1>2, <1>3

(* Those keeps the elements that are of the set, in their order.           *)
LEMMA ThoseAreKept ==
    ASSUME NEW s, NEW S, NEW X, s \in Seq(X)
    PROVE  \E at : KeptOf(s, S, Len(s), Those(s, S), at)
<1> DEFINE N == Len(s)
           step == [i \in 1 .. N |-> [k \in Seq(X) |-> IF s[i] \in S THEN Append(k, s[i]) ELSE k]]
           rec == CHOOSE g : g = [i \in 0 .. Len(s) |->
                      IF i = 0 THEN <<>>
                      ELSE IF s[i] \in S THEN Append(g[i - 1], s[i]) ELSE g[i - 1]]
<1>1. N \in Nat /\ \A i \in 1 .. N : s[i] \in X
  OBVIOUS
<1>2. step \in StepsOf(N, Seq(X))
  BY <1>1 DEF StepsOf
<1>3. PICK g : ByRecursion(N, Seq(X), <<>>, step, g)
  <2>1. <<>> \in Seq(X)
    OBVIOUS
  <2> HIDE DEF N, step
  <2> QED BY <1>1, <1>2, <2>1, RecursionExists
<1>4. ASSUME NEW i \in 1 .. N
      PROVE  g[i] = IF s[i] \in S THEN Append(g[i - 1], s[i]) ELSE g[i - 1]
  <2>1. i - 1 \in 0 .. N
    BY <1>1
  <2>2. g[i - 1] \in Seq(X)
    BY <1>3, <2>1 DEF ByRecursion
  <2>3. g[i] = step[i][g[i - 1]]
    BY <1>3 DEF ByRecursion
  <2> QED BY <2>2, <2>3
<1>5. g = [i \in 0 .. N |-> IF i = 0 THEN <<>>
                           ELSE IF s[i] \in S THEN Append(g[i - 1], s[i]) ELSE g[i - 1]]
  <2> HIDE DEF N, step, rec
  <2>1. DOMAIN g = 0 .. N /\ g = [i \in 0 .. N |-> g[i]] /\ g[0] = <<>>
    BY <1>3 DEF ByRecursion
  <2>2. ASSUME NEW i \in 0 .. N
        PROVE  g[i] = IF i = 0 THEN <<>>
                      ELSE IF s[i] \in S THEN Append(g[i - 1], s[i]) ELSE g[i - 1]
    <3>1. i = 0 \/ i \in 1 .. N
      BY <1>1
    <3> QED BY <3>1, <2>1, <1>4
  <2> QED BY <2>1, <2>2
<1>6. rec = [i \in 0 .. N |-> IF i = 0 THEN <<>>
                             ELSE IF s[i] \in S THEN Append(rec[i - 1], s[i]) ELSE rec[i - 1]]
  BY <1>5
<1>7. Those(s, S) = rec[N]
  BY DEF Those
<1> HIDE DEF rec, N, step
<1> DEFINE T == {i \in 0 .. N : \E at : KeptOf(s, S, i, rec[i], at)}
<1>8. 0 \in T
  <2>1. rec[0] = <<>>
    BY <1>6, <1>1
  <2>2. KeptOf(s, S, 0, <<>>, <<>>)
    BY DEF KeptOf
  <2> QED BY <2>1, <2>2, <1>1
<1>9. ASSUME NEW i \in 1 .. N, i - 1 \in T
      PROVE  i \in T
  <2>1. PICK at : KeptOf(s, S, i - 1, rec[i - 1], at)
    BY <1>9
  <2>2. rec[i] = IF s[i] \in S THEN Append(rec[i - 1], s[i]) ELSE rec[i - 1]
    <3>1. i \in 0 .. N /\ i # 0
      BY <1>1
    <3>2. rec[i] = IF i = 0 THEN <<>>
                   ELSE IF s[i] \in S THEN Append(rec[i - 1], s[i]) ELSE rec[i - 1]
      BY <1>6, <3>1, Zenon
    <3> QED BY <3>1, <3>2
  <2>3. i \in Nat \ {0} /\ i \in 0 .. N
    BY <1>1
  <2>4. \E b : KeptOf(s, S, i, rec[i], b)
    BY <2>1, <2>2, <2>3, KeepsOneMore
  <2> QED BY <2>3, <2>4
<1>10. 0 .. N \subseteq T
  <2> HIDE DEF T
  <2> QED BY <1>8, <1>9, <1>1, Induction
<1>11. N \in T
  BY <1>10, <1>1
<1> QED
  BY <1>11, <1>7 DEF N

-----------------------------------------------------------------------------
(* The charging graph.                                                     *)

GraphInv == segments \in Seq(Segment) /\ Len(segments) \in 1 .. MaxSegments

Counted(g) == [i \in 1 .. Len(g) |-> IF i \in ActiveAt(g) THEN Duration(g[i]) ELSE 0]

(* A segment counts a natural number of time.                              *)
LEMMA DurationIsNat ==
    ASSUME NEW s \in Segment
    PROVE  Duration(s) \in Nat
<1>1. s.start \in Times /\ s.end \in Times
  BY DEF Segment
<1> QED
  BY <1>1, GraphAssumption DEF Duration, Times, GraphAssumption

(* The durations that are counted are naturals, and so is their sum.       *)
LEMMA CountedAreNats ==
    ASSUME NEW g, g \in Seq(Segment)
    PROVE  /\ Counted(g) \in Seq(Nat) /\ Len(Counted(g)) = Len(g)
           /\ TimeElapsed(g) = Total(Counted(g)) /\ TimeElapsed(g) \in Nat
<1>1. \A i \in 1 .. Len(g) : g[i] \in Segment
  OBVIOUS
<1>2. \A i \in 1 .. Len(g) : (IF i \in ActiveAt(g) THEN Duration(g[i]) ELSE 0) \in Nat
  BY <1>1, DurationIsNat
<1>3. Len(g) \in Nat
  OBVIOUS
<1>4. Counted(g) \in Seq(Nat) /\ Len(Counted(g)) = Len(g)
  BY <1>2, <1>3 DEF Counted
<1>5. TimeElapsed(g) = Total(Counted(g))
  BY DEF TimeElapsed, Counted
<1> QED
  BY <1>4, <1>5, TotalIsNat

(* The first segment that is active, if there is one.                      *)
LEMMA FirstIsFirst ==
    ASSUME NEW g, g \in Seq(Segment), ActiveAt(g) # {}
    PROVE  /\ Min(ActiveAt(g)) \in ActiveAt(g)
           /\ \A i \in ActiveAt(g) : Min(ActiveAt(g)) <= i
<1>1. ActiveAt(g) \in SUBSET Nat
  BY DEF ActiveAt
<1>2. \E m \in ActiveAt(g) : \A k \in ActiveAt(g) : m <= k
  BY <1>1, LeastNat
<1> QED
  BY <1>2 DEF Min

(* What a step does to the positions: those there were stand, and are as   *)
(* active as they were; the last may end later.                            *)
Grows ==
    /\ segments' \in Seq(Segment) /\ Len(segments') \in {Len(segments), Len(segments) + 1}
    /\ Len(segments') <= MaxSegments
    /\ \A i \in 1 .. Len(segments) :
          /\ segments'[i].start = segments[i].start
          /\ Active(segments'[i]) <=> Active(segments[i])
          /\ Duration(segments[i]) <= Duration(segments'[i])

(* The session goes on with a segment, or its last one ends later.         *)
LEMMA StepsGrow ==
    ASSUME GraphInv, GraphNext
    PROVE  Grows
<1> DEFINE N == Len(segments)
<1>1. /\ N \in Nat \ {0} /\ N <= MaxSegments /\ MaxSegments \in Nat
      /\ \A i \in 1 .. N : segments[i] \in Segment
  BY GraphAssumption DEF GraphInv, GraphAssumption
<1>2. CASE Appends
  <2>1. PICK s \in Segment : segments' = Append(segments, s) /\ N < MaxSegments
    BY <1>2 DEF Appends
  <2>2. /\ segments' \in Seq(Segment) /\ Len(segments') = N + 1
        /\ \A i \in 1 .. N : segments'[i] = segments[i]
    BY <2>1 DEF GraphInv
  <2>3. \A i \in 1 .. N : Duration(segments[i]) <= Duration(segments'[i])
    BY <2>2, <1>1, DurationIsNat
  <2> QED BY <2>1, <2>2, <2>3, <1>1 DEF Grows
<1>3. CASE LastGrows
  <2> DEFINE end == Last(segments).end
             new(t) == [segments[N] EXCEPT !.end = t]
  <2>1. PICK t \in (IF end = Unsent THEN 0 ELSE end + 1) .. MaxTime :
           segments' = [segments EXCEPT ![N].end = t]
    BY <1>3 DEF LastGrows
  <2>2. end = segments[N].end /\ segments[N] \in Segment /\ end \in Times
    BY <1>1 DEF Last, Segment
  <2>3. t \in Nat /\ t \in Times /\ (end # Unsent => end \in Nat /\ t > end)
    BY <2>1, <2>2, GraphAssumption DEF Times, GraphAssumption
  <2>4. /\ new(t) \in Segment /\ new(t).start = segments[N].start /\ new(t).end = t
        /\ new(t).power = segments[N].power /\ new(t).state = segments[N].state
    BY <2>2, <2>3 DEF Segment
  <2>5. /\ segments' \in Seq(Segment) /\ Len(segments') = N
        /\ \A i \in 1 .. N : segments'[i] = IF i = N THEN new(t) ELSE segments[i]
    <3> HIDE DEF end
    <3>1. segments' = [segments EXCEPT ![N] = new(t)]
      BY <2>1
    <3> HIDE DEF new
    <3> QED BY <3>1, <2>4, <1>1 DEF GraphInv
  <2>6. Active(new(t)) <=> Active(segments[N])
    BY <2>4 DEF Active, Powered
  <2>7. Duration(segments[N]) <= Duration(new(t))
    <3>1. segments[N].start \in Times
      BY <2>2 DEF Segment
    <3> HIDE DEF new
    <3> QED BY <2>2, <2>3, <2>4, <3>1, GraphAssumption DEF Duration, Times, GraphAssumption
  <2> HIDE DEF new, end
  <2>8. \A i \in 1 .. N : Duration(segments[i]) \in Nat
    BY <1>1, DurationIsNat
  <2>9. ASSUME NEW i \in 1 .. N
        PROVE  /\ segments'[i].start = segments[i].start
               /\ Active(segments'[i]) <=> Active(segments[i])
               /\ Duration(segments[i]) <= Duration(segments'[i])
    <3>1. CASE i = N
      BY <3>1, <2>4, <2>5, <2>6, <2>7
    <3>2. CASE i # N
      BY <3>2, <2>5, <2>8
    <3> QED BY <3>1, <3>2
  <2> QED BY <2>5, <2>9, <1>1 DEF Grows
<1> QED
  BY <1>2, <1>3 DEF GraphNext

(* A message always has a segment, and never too many.                     *)
LEMMA GraphInvHolds == GraphSpec => []GraphInv
<1>1. GraphInit => GraphInv
  BY GraphAssumption DEF GraphInit, GraphInv, GraphAssumption
<1>2. GraphInv /\ [GraphNext]_graphVars => GraphInv'
  <2> SUFFICES ASSUME GraphInv, [GraphNext]_graphVars
               PROVE  GraphInv'
    OBVIOUS
  <2>1. CASE GraphNext
    <3>1. Grows
      BY <2>1, StepsGrow
    <3>2. Len(segments) \in Nat \ {0}
      BY GraphAssumption DEF GraphInv, GraphAssumption
    <3> QED BY <3>1, <3>2, GraphAssumption DEF Grows, GraphInv, GraphAssumption
  <2>2. CASE UNCHANGED graphVars
    BY <2>2 DEF GraphInv, graphVars
  <2> QED BY <2>1, <2>2
<1> QED
  BY <1>1, <1>2, PTL DEF GraphSpec

(* The time charged is a natural number, and power that shows is of a      *)
(* segment whose time is counted.                                          *)
THEOREM ChargeIsCounted == GraphSpec => []ChargeCounts
<1>1. GraphInv => ChargeCounts
  <2> SUFFICES ASSUME GraphInv
               PROVE  ChargeCounts
    OBVIOUS
  <2>1. GraphTypeOK
    BY CountedAreNats DEF GraphInv, GraphTypeOK
  <2>2. PowerIsCharged
    <3> SUFFICES ASSUME Power(segments) > 0
                 PROVE  Len(segments) \in ActiveAt(segments)
      BY DEF PowerIsCharged
    <3>1. Powered(segments[Len(segments)])
      BY DEF Power, Last
    <3>2. Len(segments) \in 1 .. Len(segments)
      BY DEF GraphInv
    <3> QED BY <3>1, <3>2 DEF ActiveAt, Active
  <2> QED BY <2>1, <2>2 DEF ChargeCounts
<1> QED
  BY <1>1, GraphInvHolds, PTL

(* The first segment that is active stays the first, with its start ...    *)
LEMMA StartIsKept ==
    ASSUME GraphInv, Grows, ActiveAt(segments) # {}
    PROVE  StartTime(segments') = StartTime(segments)
<1> DEFINE N == Len(segments)  M == Len(segments')
           m == Min(ActiveAt(segments))  n == Min(ActiveAt(segments'))
<1>1. N \in Nat /\ M \in Nat /\ N <= M
  BY DEF GraphInv, Grows
<1>2. m \in ActiveAt(segments) /\ \A i \in ActiveAt(segments) : m <= i
  BY FirstIsFirst DEF GraphInv
<1>3. \A i \in 1 .. N : i \in ActiveAt(segments') <=> i \in ActiveAt(segments)
  BY <1>1 DEF Grows, ActiveAt
<1>4. m \in 1 .. N /\ m \in ActiveAt(segments')
  BY <1>2, <1>3 DEF ActiveAt
<1>5. n \in ActiveAt(segments') /\ \A i \in ActiveAt(segments') : n <= i
  <2>1. segments' \in Seq(Segment) /\ ActiveAt(segments') # {}
    BY <1>4 DEF Grows
  <2> QED BY <2>1, FirstIsFirst
<1>6. n \in Nat /\ m \in Nat
  BY <1>1, <1>4, <1>5 DEF ActiveAt
<1> HIDE DEF N, M, m, n
<1>7. n \in 1 .. N
  BY <1>1, <1>4, <1>5, <1>6 DEF ActiveAt
<1>8. n = m
  BY <1>2, <1>3, <1>4, <1>5, <1>6, <1>7
<1>9. segments'[m].start = segments[m].start
  BY <1>4 DEF Grows, N
<1>10. StartTime(segments) = segments[m].start
  BY DEF StartTime, FirstShown, m
<1>11. StartTime(segments') = segments'[n].start
  BY <1>5 DEF StartTime, FirstShown, n
<1> QED
  BY <1>8, <1>9, <1>10, <1>11

(* ... and the segments there were count no less, and those that come add  *)
(* to them.                                                                *)
LEMMA TimeIsKept ==
    ASSUME GraphInv, Grows
    PROVE  TimeElapsed(segments') >= TimeElapsed(segments)
<1> DEFINE N == Len(segments)  v == Counted(segments)  w == Counted(segments')
           u == [i \in 1 .. N |-> w[i]]
<1>1. /\ v \in Seq(Nat) /\ Len(v) = N /\ TimeElapsed(segments) = Total(v)
      /\ w \in Seq(Nat) /\ Len(w) = Len(segments') /\ TimeElapsed(segments') = Total(w)
      /\ Total(v) \in Nat /\ Total(w) \in Nat
  BY CountedAreNats DEF GraphInv, Grows
<1>2. N \in Nat /\ Len(w) \in {N, N + 1}
  BY <1>1 DEF GraphInv, Grows
<1>3. ASSUME NEW i \in 1 .. N
      PROVE  v[i] <= w[i]
  <2>1. /\ i \in 1 .. Len(segments') /\ segments[i] \in Segment
        /\ segments'[i] \in Segment
    BY <1>2 DEF GraphInv, Grows
  <2>2. i \in ActiveAt(segments) <=> i \in ActiveAt(segments')
    BY <2>1 DEF Grows, ActiveAt
  <2>3. Duration(segments[i]) <= Duration(segments'[i])
    BY DEF Grows
  <2> QED BY <2>1, <2>2, <2>3 DEF Counted
<1>4. u \in Seq(Nat) /\ Len(u) = N /\ \A i \in 1 .. N : v[i] <= u[i]
  <2>1. \A i \in 1 .. N : w[i] \in Nat
    BY <1>1, <1>2
  <2> HIDE DEF w, v
  <2> QED BY <2>1, <1>2, <1>3
<1>5. Total(v) <= Total(u) /\ Total(u) \in Nat
  <2> HIDE DEF u, v, N
  <2> QED BY <1>1, <1>4, TotalGrows, TotalIsNat
<1>6. Total(u) <= Total(w)
  <2>1. CASE Len(w) = N
    <3>1. u = w
      <4> HIDE DEF w
      <4> QED BY <2>1, <1>1
    <3> HIDE DEF u, w
    <3> QED BY <3>1, <1>1
  <2>2. CASE Len(w) = N + 1
    <3>1. w = Append(u, w[N + 1]) /\ w[N + 1] \in Nat
      <4> HIDE DEF w
      <4> QED BY <2>2, <1>1, <1>2, <1>4
    <3> HIDE DEF u, w
    <3>2. Total(w) = Total(u) + w[N + 1]
      BY <3>1, <1>4, TotalOfMore
    <3> QED BY <3>1, <3>2, <1>5
  <2> QED BY <2>1, <2>2, <1>2
<1> HIDE DEF u, v, w
<1> QED
  BY <1>1, <1>5, <1>6

(* While a session grows, its start stands from the first charging on and  *)
(* its charged time never falls (decode_charging_graph_global).            *)
THEOREM ChargeGoesOn == GraphSpec => SessionGrows
<1>1. GraphInv /\ [GraphNext]_graphVars =>
          [ActiveAt(segments) # {} => StartTime(segments') = StartTime(segments)]_graphVars
  BY StepsGrow, StartIsKept
<1>2. GraphInv /\ [GraphNext]_graphVars =>
          [TimeElapsed(segments') >= TimeElapsed(segments)]_graphVars
  BY StepsGrow, TimeIsKept
<1> QED
  BY <1>1, <1>2, GraphInvHolds, PTL DEF GraphSpec, SessionGrows, StartStands, ElapsedGrows

-----------------------------------------------------------------------------
(* The trimming of an offer.                                               *)

SectionFields == {"kind", "numbers", "codec", "apt", "headers"}

(* A section that says of each of its numbers what it means.               *)
Sound(s) ==
    /\ DOMAIN s = SectionFields /\ s.kind \in {"audio", "video", "application"}
    /\ s.numbers \in Seq(Payloads(s)) /\ s.headers \in Nat
    /\ DOMAIN s.codec = Payloads(s) /\ DOMAIN s.apt = Payloads(s)

(* A section that can stand for another: AnswerLinesUp of the two, and what*)
(* the vehicle answers is still there.                                     *)
StandsFor(now, was) ==
    /\ now.kind = was.kind /\ InOrder(now.numbers, was.numbers)
    /\ Payloads(was) # {} => Payloads(now) # {}
    /\ \A n \in Payloads(now) :
          /\ n \in Payloads(was) /\ now.codec[n] = was.codec[n]
          /\ now.codec[n] = "rtx" => now.apt[n] = was.apt[n] /\ now.apt[n] \in Payloads(now)
    /\ \A n \in Payloads(was) :
          (was.codec[n] = Preferred(was) \/
              (was.codec[n] = "rtx" /\ was.codec[was.apt[n]] = Preferred(was)))
          => n \in Payloads(now)

(* A section stands for itself.                                            *)
LEMMA StandsForItself ==
    ASSUME NEW s, Sound(s), WellFormed(s)
    PROVE  StandsFor(s, s)
<1>1. InOrder(s.numbers, s.numbers)
  <2> DEFINE at == [i \in DOMAIN s.numbers |-> i]
  <2>1. at \in [DOMAIN s.numbers -> DOMAIN s.numbers]
    OBVIOUS
  <2>2. \A i \in DOMAIN s.numbers :
           /\ s.numbers[i] = s.numbers[at[i]]
           /\ \A j \in DOMAIN s.numbers : i < j => at[i] < at[j]
    OBVIOUS
  <2> QED BY <2>1, <2>2 DEF InOrder
<1> QED
  BY <1>1 DEF StandsFor, WellFormed

(* Those, as the numbers of a section.                                     *)
LEMMA ThoseNumbers ==
    ASSUME NEW X, NEW was, was \in Seq(X), NEW keep, keep \subseteq ToSet(was)
    PROVE  LET now == Those(was, keep) IN
           /\ now \in Seq(keep) /\ ToSet(now) = keep
           /\ InOrder(now, was)
<1> DEFINE now == Those(was, keep)  N == Len(was)
<1>1. DOMAIN was = 1 .. N /\ N \in Nat
  OBVIOUS
<1>2. PICK at : KeptOf(was, keep, N, now, at)
  <2> HIDE DEF now
  <2> QED BY ThoseAreKept DEF now
<1> HIDE DEF now
<1>3. now \in Seq(keep) /\ DOMAIN now = 1 .. Len(now)
  <2>1. {was[j] : j \in 1 .. N} \cap keep = keep
    BY <1>1 DEF ToSet
  <2>2. now \in Seq(keep)
    BY <1>2, <2>1 DEF KeptOf
  <2> QED BY <2>2
<1>4. ToSet(now) \subseteq keep
  BY <1>3 DEF ToSet
<1>5. ASSUME NEW x \in keep
      PROVE  x \in ToSet(now)
  <2>1. PICK j \in 1 .. N : was[j] = x
    BY <1>1 DEF ToSet
  <2>2. PICK n \in 1 .. Len(now) : now[n] = x
    BY <1>2, <2>1 DEF KeptOf
  <2> QED BY <2>2, <1>3 DEF ToSet
<1>6. InOrder(now, was)
  BY <1>1, <1>2, <1>3 DEF InOrder, KeptOf
<1> QED
  BY <1>3, <1>4, <1>5, <1>6 DEF now

(* Keeping the preferred codec: no section loses what it is for, and the   *)
(* section that is left can stand for the one that was offered.            *)
LEMMA KeptStandsFor ==
    ASSUME NEW s, Sound(s), WellFormed(s)
    PROVE  LET t == KeepPreferredCodec(s) IN
           Sound(t) /\ StandsFor(t, s) /\ t.headers = s.headers
<1> DEFINE t == KeepPreferredCodec(s)  keep == Primary(s) \cup Repairs(s)
           kept == Those(s.numbers, keep)
<1>1. CASE Preferred(s) = NoCodec \/ Primary(s) = {}
  <2>1. t = s
    BY <1>1 DEF KeepPreferredCodec
  <2> HIDE DEF t
  <2>2. Sound(t) /\ StandsFor(t, s) /\ t.headers = s.headers
    BY <2>1, StandsForItself
  <2> QED BY <2>2 DEF t
<1>2. CASE ~(Preferred(s) = NoCodec \/ Primary(s) = {})
  <2>1. keep \subseteq Payloads(s) /\ Primary(s) \subseteq keep /\ Primary(s) # {}
    BY <1>2 DEF Primary, Repairs
  <2>2. kept \in Seq(keep) /\ ToSet(kept) = keep /\ InOrder(kept, s.numbers)
    <3>1. s.numbers \in Seq(Payloads(s)) /\ keep \subseteq ToSet(s.numbers)
      BY <2>1 DEF Sound, Payloads
    <3> HIDE DEF keep
    <3> QED BY <3>1, ThoseNumbers
  <2>3. /\ DOMAIN t = SectionFields /\ t.kind = s.kind /\ t.headers = s.headers
        /\ t.numbers = kept
        /\ t.codec = [n \in keep |-> s.codec[n]] /\ t.apt = [n \in keep |-> s.apt[n]]
    <3> HIDE DEF keep, kept
    <3>1. t = [s EXCEPT !.numbers = kept, !.codec = [n \in keep |-> s.codec[n]],
                        !.apt = [n \in keep |-> s.apt[n]]]
      BY <1>2 DEF KeepPreferredCodec, keep, kept
    <3> HIDE DEF t
    <3> QED BY <3>1 DEF Sound, SectionFields
  <2> HIDE DEF t, kept
  <2>4. Payloads(t) = keep
    BY <2>2, <2>3 DEF Payloads
  <2>5. Sound(t)
    <3> HIDE DEF keep
    <3> QED BY <2>2, <2>3, <2>4 DEF Sound
  <2>6. ASSUME NEW n \in keep
        PROVE  /\ n \in Payloads(s) /\ t.codec[n] = s.codec[n] /\ t.apt[n] = s.apt[n]
               /\ s.codec[n] = "rtx" => s.apt[n] \in keep
    <3>1. n \in Payloads(s) /\ t.codec[n] = s.codec[n] /\ t.apt[n] = s.apt[n]
      BY <2>1, <2>3
    <3>2. ASSUME s.codec[n] = "rtx"
          PROVE  s.apt[n] \in keep
      <4>1. n \notin Primary(s)
        BY <3>2, <1>2 DEF Primary, Preferred
      <4> QED BY <4>1, <2>6 DEF Repairs
    <3> QED BY <3>1, <3>2
  <2>7. ASSUME NEW n \in Payloads(s),
               s.codec[n] = Preferred(s) \/
                  (s.codec[n] = "rtx" /\ s.codec[s.apt[n]] = Preferred(s))
        PROVE  n \in keep
    <3>1. CASE s.codec[n] = Preferred(s)
      BY <3>1 DEF Primary
    <3>2. CASE s.codec[n] = "rtx" /\ s.codec[s.apt[n]] = Preferred(s)
      <4>1. s.apt[n] \in Primary(s)
        BY <3>2 DEF WellFormed, Primary
      <4> QED BY <3>2, <4>1 DEF Repairs
    <3> QED BY <2>7, <3>1, <3>2
  <2>8. StandsFor(t, s)
    <3> HIDE DEF keep
    <3> QED BY <2>1, <2>2, <2>3, <2>4, <2>6, <2>7 DEF StandsFor
  <2> QED BY <2>3, <2>5, <2>8 DEF t
<1> QED
  BY <1>1, <1>2

(* Without its extensions a section still stands for the one offered.      *)
LEMMA BareStandsFor ==
    ASSUME NEW t, NEW s, Sound(t), StandsFor(t, s)
    PROVE  LET b == WithoutHeaders(t) IN
           Sound(b) /\ StandsFor(b, s) /\ b.headers = 0 /\ b.numbers = t.numbers
<1> DEFINE b == WithoutHeaders(t)
<1>1. /\ DOMAIN b = SectionFields /\ b.kind = t.kind /\ b.headers = 0
      /\ b.numbers = t.numbers /\ b.codec = t.codec /\ b.apt = t.apt
  BY DEF WithoutHeaders, Sound, SectionFields
<1> HIDE DEF b
<1>2. Payloads(b) = Payloads(t)
  BY <1>1 DEF Payloads
<1>3. Sound(b)
  BY <1>1, <1>2 DEF Sound
<1>4. StandsFor(b, s)
  BY <1>1, <1>2 DEF StandsFor
<1> QED
  BY <1>1, <1>3, <1>4 DEF b

(* An offer whose sections are sound, and the sizes that are added up.     *)
IsOffer(o) ==
    /\ Len(o) \in Nat \ {0} /\ DOMAIN o = 1 .. Len(o)
    /\ \A i \in DOMAIN o : Sound(o[i])

Sizes(o)   == [i \in DOMAIN o |-> 1 + Len(o[i].numbers) + o[i].headers]
Headed(o)  == [i \in DOMAIN o |-> o[i].headers]

(* A function over positions to naturals is a list of naturals ...         *)
LEMMA NumbersOnly ==
    ASSUME NEW n \in Nat, NEW f, DOMAIN f = 1 .. n, f = [i \in DOMAIN f |-> f[i]],
           \A i \in 1 .. n : f[i] \in Nat
    PROVE  f \in Seq(Nat) /\ Len(f) = n
OBVIOUS

(* The sizes that Size and Headers add up are naturals.                    *)
LEMMA SizesAreNumbers ==
    ASSUME NEW o, IsOffer(o)
    PROVE  /\ Sizes(o) \in Seq(Nat) /\ Len(Sizes(o)) = Len(o)
           /\ Headed(o) \in Seq(Nat) /\ Len(Headed(o)) = Len(o)
           /\ Size(o) = Total(Sizes(o)) /\ Headers(o) = Total(Headed(o))
           /\ Size(o) \in Nat /\ Headers(o) \in Nat
<1>1. Len(o) \in Nat /\ DOMAIN o = 1 .. Len(o)
  BY DEF IsOffer
<1>2. ASSUME NEW i \in 1 .. Len(o)
      PROVE  Len(o[i].numbers) \in Nat /\ o[i].headers \in Nat
  <2>1. Sound(o[i])
    BY <1>1 DEF IsOffer
  <2> QED BY <2>1 DEF Sound
<1>3. Sizes(o) \in Seq(Nat) /\ Len(Sizes(o)) = Len(o)
  <2>1. /\ DOMAIN Sizes(o) = 1 .. Len(o)
        /\ \A i \in 1 .. Len(o) : Sizes(o)[i] \in Nat
        /\ Sizes(o) = [i \in DOMAIN Sizes(o) |-> Sizes(o)[i]]
    BY <1>1, <1>2 DEF Sizes
  <2> QED BY <1>1, <2>1, NumbersOnly
<1>4. Headed(o) \in Seq(Nat) /\ Len(Headed(o)) = Len(o)
  <2>1. /\ DOMAIN Headed(o) = 1 .. Len(o)
        /\ \A i \in 1 .. Len(o) : Headed(o)[i] \in Nat
        /\ Headed(o) = [i \in DOMAIN Headed(o) |-> Headed(o)[i]]
    BY <1>1, <1>2 DEF Headed
  <2> QED BY <1>1, <2>1, NumbersOnly
<1>5. Size(o) = Total(Sizes(o)) /\ Headers(o) = Total(Headed(o))
  BY DEF Size, Headers, Sizes, Headed
<1> QED
  BY <1>3, <1>4, <1>5, TotalIsNat

(* Every offer of a viewer's is one, and its sections are well formed.     *)
LEMMA OffersAreOffers ==
    ASSUME NEW v \in VideoSections, WellFormed(v), NEW o \in OffersOf(v)
    PROVE  IsOffer(o) /\ \A i \in DOMAIN o : WellFormed(o[i])
<1>1. Sound(v)
  <2>1. PICK c \in [ToSet(Video) -> {"h264", "vp8", "rtx", NoCodec}],
             a \in [ToSet(Video) -> ToSet(Video) \cup {NoCodec}], h \in 0 .. MaxHeaders :
             v = [kind |-> "video", numbers |-> Video, codec |-> c, apt |-> a, headers |-> h]
    BY DEF VideoSections
  <2>2. Payloads(v) = ToSet(Video)
    BY <2>1 DEF Payloads
  <2> QED BY <2>1, <2>2, TrimAssumption DEF Sound, SectionFields
<1>2. ASSUME NEW a \in AudioSections
      PROVE  Sound(a) /\ WellFormed(a)
  <2>1. PICK c \in [ToSet(Audio) -> {"opus", "pcmu"}] :
             a = [kind |-> "audio", numbers |-> Audio, codec |-> c,
                  apt |-> [n \in ToSet(Audio) |-> NoCodec], headers |-> 0]
    BY DEF AudioSections
  <2>2. Payloads(a) = ToSet(Audio)
    BY <2>1 DEF Payloads
  <2>3. Sound(a)
    BY <2>1, <2>2, TrimAssumption DEF Sound, SectionFields
  <2>4. \A n \in Payloads(a) : a.codec[n] # "rtx" /\ a.apt[n] = NoCodec
    BY <2>1, <2>2
  <2> QED BY <2>3, <2>4 DEF WellFormed
<1>3. Sound(DataSection) /\ WellFormed(DataSection)
  <2>1. Payloads(DataSection) = {}
    BY DEF Payloads, DataSection, ToSet
  <2> QED BY <2>1 DEF Sound, WellFormed, DataSection, SectionFields
<1>4. CASE o = <<v>>
  <2>1. Len(o) = 1 /\ DOMAIN o = 1 .. 1 /\ o[1] = v
    BY <1>4
  <2> QED BY <2>1, <1>1 DEF IsOffer
<1>5. ASSUME NEW a \in AudioSections, o = <<a, v, DataSection>>
      PROVE  IsOffer(o) /\ \A i \in DOMAIN o : WellFormed(o[i])
  <2>1. Len(o) = 3 /\ DOMAIN o = 1 .. 3 /\ o[1] = a /\ o[2] = v /\ o[3] = DataSection
    BY <1>5
  <2> QED BY <2>1, <1>1, <1>2, <1>3 DEF IsOffer
<1> QED
  BY <1>4, <1>5 DEF OffersOf

(* What a trimmed offer is to the viewer's.                                *)
Trims(now, was, room1) ==
    /\ IsOffer(now) /\ Len(now) = Len(was)
    /\ \A i \in DOMAIN was : StandsFor(now[i], was[i])
    /\ Size(was) <= room1 => now = was
    /\ (\E i \in DOMAIN was : now[i].headers < was[i].headers) =>
          Size(now) + Headers(was) > room1

(* ... and one over positions has as many elements.                        *)
LEMMA EachSection ==
    ASSUME NEW n \in Nat, NEW f, DOMAIN f = 1 .. n, f = [i \in DOMAIN f |-> f[i]]
    PROVE  Len(f) = n
OBVIOUS

(* trim_offer_for_kvs sends such an offer.                                 *)
LEMMA TrimmingTrims ==
    ASSUME NEW o, IsOffer(o), \A i \in DOMAIN o : WellFormed(o[i]), room \in Nat
    PROVE  Trims(TrimOfferForKvs(o), o, room)
<1> DEFINE fewer == Each(o, KeepPreferredCodec)
           bare == Each(fewer, WithoutHeaders)
<1>1. DOMAIN o = 1 .. Len(o) /\ Len(o) \in Nat \ {0} /\ \A i \in DOMAIN o : Sound(o[i])
  BY DEF IsOffer
<1>2. DOMAIN fewer = DOMAIN o /\ Len(fewer) = Len(o)
  <2>1. DOMAIN fewer = 1 .. Len(o) /\ fewer = [i \in DOMAIN fewer |-> fewer[i]]
    BY <1>1 DEF Each
  <2> HIDE DEF fewer
  <2> QED BY <1>1, <2>1, EachSection
<1>3. ASSUME NEW i \in DOMAIN o
      PROVE  Sound(fewer[i]) /\ StandsFor(fewer[i], o[i]) /\ fewer[i].headers = o[i].headers
  <2>1. fewer[i] = KeepPreferredCodec(o[i])
    BY DEF Each
  <2> HIDE DEF fewer
  <2> QED BY <2>1, <1>1, KeptStandsFor
<1>4. DOMAIN bare = DOMAIN o /\ Len(bare) = Len(o)
  <2>1. DOMAIN bare = DOMAIN fewer /\ bare = [i \in DOMAIN bare |-> bare[i]]
    BY DEF Each
  <2> HIDE DEF fewer, bare
  <2> QED BY <1>1, <1>2, <2>1, EachSection
<1>5. ASSUME NEW i \in DOMAIN o
      PROVE  /\ Sound(bare[i]) /\ StandsFor(bare[i], o[i]) /\ bare[i].headers = 0
             /\ bare[i].numbers = fewer[i].numbers
  <2>1. bare[i] = WithoutHeaders(fewer[i])
    <3>1. i \in DOMAIN fewer
      BY <1>2
    <3> HIDE DEF fewer
    <3> QED BY <3>1 DEF Each
  <2> HIDE DEF fewer, bare
  <2> QED BY <2>1, <1>3, BareStandsFor
<1> HIDE DEF fewer, bare
<1>6. IsOffer(fewer) /\ IsOffer(bare)
  BY <1>1, <1>2, <1>3, <1>4, <1>5 DEF IsOffer
<1>7. Size(fewer) = Size(bare) + Headers(o)
  <2>1. ASSUME NEW i \in 1 .. Len(o)
        PROVE  Sizes(fewer)[i] = Sizes(bare)[i] + Headed(o)[i]
    <3>1. Sound(fewer[i]) /\ Sound(bare[i])
      BY <1>1, <1>3, <1>5
    <3>2. Len(fewer[i].numbers) \in Nat /\ fewer[i].headers \in Nat
      BY <3>1 DEF Sound
    <3>3. Sizes(fewer)[i] = 1 + Len(fewer[i].numbers) + fewer[i].headers
      BY <1>1, <1>2 DEF Sizes
    <3>4. Sizes(bare)[i] = 1 + Len(bare[i].numbers) + bare[i].headers
      BY <1>1, <1>4 DEF Sizes
    <3>5. Headed(o)[i] = fewer[i].headers
      BY <1>1, <1>3 DEF Headed
    <3>6. bare[i].headers = 0 /\ bare[i].numbers = fewer[i].numbers
      BY <1>1, <1>5
    <3>7. Sizes(fewer)[i] = (1 + Len(fewer[i].numbers) + 0) + fewer[i].headers
      BY ONLY <3>2, <3>3
    <3>8. Sizes(bare)[i] = 1 + Len(fewer[i].numbers) + 0
      BY ONLY <3>4, <3>6
    <3> QED BY ONLY <3>5, <3>7, <3>8
  <2>2. Total(Sizes(fewer)) = Total(Sizes(bare)) + Total(Headed(o))
    BY <2>1, <1>2, <1>4, <1>6, SizesAreNumbers, TotalOfBoth
  <2> QED BY <2>2, <1>6, SizesAreNumbers
<1>8. Size(fewer) \in Nat /\ Size(bare) \in Nat /\ Size(o) \in Nat /\ Headers(o) \in Nat
  BY <1>6, SizesAreNumbers
<1>9. \/ TrimOfferForKvs(o) = o
      \/ TrimOfferForKvs(o) = fewer /\ ~(Size(o) <= room)
      \/ TrimOfferForKvs(o) = bare /\ ~(Size(o) <= room) /\ ~(Size(fewer) <= room)
  BY DEF TrimOfferForKvs, fewer, bare
<1>10. Trims(o, o, room)
  <2>1. \A i \in DOMAIN o : StandsFor(o[i], o[i])
    BY <1>1, StandsForItself
  <2>2. \A i \in DOMAIN o : ~(o[i].headers < o[i].headers)
    BY <1>1 DEF Sound
  <2> QED BY <2>1, <2>2 DEF Trims
<1>11. ASSUME ~(Size(o) <= room) PROVE Trims(fewer, o, room)
  <2>2. \A i \in DOMAIN o : ~(fewer[i].headers < o[i].headers)
    BY <1>1, <1>3 DEF Sound
  <2> QED BY <2>2, <1>11, <1>6, <1>2, <1>3 DEF Trims
<1>12. ASSUME ~(Size(o) <= room), ~(Size(fewer) <= room) PROVE Trims(bare, o, room)
  <2>1. Size(bare) + Headers(o) > room
    BY <1>7, <1>8, <1>12
  <2> QED BY <2>1, <1>12, <1>6, <1>4, <1>5 DEF Trims
<1> QED
  BY <1>9, <1>10, <1>11, <1>12

TrimInv ==
    /\ IsOffer(original) /\ \A i \in DOMAIN original : WellFormed(original[i])
    /\ room \in 1 .. Size(original)
    /\ fate \in {"waiting", "sent", "refused"}
    /\ IF fate = "sent" THEN Trims(sent, original, room) ELSE sent = <<>>

(* The offer that waits is a well-formed one.                              *)
LEMMA TrimInitially == TrimInit => TrimInv
<1> SUFFICES ASSUME TrimInit PROVE TrimInv
  OBVIOUS
<1>1. PICK v \in VideoSections : WellFormed(v) /\ original \in OffersOf(v)
  BY DEF TrimInit
<1>2. IsOffer(original) /\ \A i \in DOMAIN original : WellFormed(original[i])
  BY <1>1, OffersAreOffers
<1> QED
  BY <1>2 DEF TrimInit, TrimInv

(* A step trims it, refuses it or leaves it.                               *)
LEMMA TrimOneStep == TrimInv /\ [TrimNext]_trimVars => TrimInv'
<1> SUFFICES ASSUME TrimInv, [TrimNext]_trimVars PROVE TrimInv'
  OBVIOUS
<1>1. CASE TrimNext
  <2>1. /\ fate = "waiting" /\ original' = original /\ room' = room
        /\ \/ fate' = "refused" /\ sent' = <<>>
           \/ fate' = "sent" /\ sent' = TrimOfferForKvs(original)
    BY <1>1 DEF TrimNext, OfferHandled
  <2>2. room \in Nat
    <3>1. Size(original) \in Nat
      BY SizesAreNumbers DEF TrimInv
    <3> QED BY <3>1 DEF TrimInv
  <2>3. Trims(TrimOfferForKvs(original), original, room)
    BY <2>2, TrimmingTrims DEF TrimInv
  <2> QED BY <2>1, <2>3 DEF TrimInv
<1>2. CASE UNCHANGED trimVars
  BY <1>2 DEF trimVars, TrimInv
<1> QED
  BY <1>1, <1>2

(* What was sent means what was offered.                                   *)
LEMMA TrimInvMeans == TrimInv => OfferMeansTheSame
<1> SUFFICES ASSUME TrimInv PROVE OfferMeansTheSame
  OBVIOUS
<1>1. CASE fate # "sent"
  <2>1. Size(original) \in Nat
    BY SizesAreNumbers DEF TrimInv
  <2> QED BY <1>1, <2>1 DEF TrimInv, OfferMeansTheSame, TrimTypeOK, AnswerLinesUp,
                            DropsNoMoreThanNeeded
<1>2. CASE fate = "sent"
  <2>1. Trims(sent, original, room) /\ IsOffer(original) /\ room \in 1 .. Size(original)
    BY <1>2 DEF TrimInv
  <2>2. /\ DOMAIN sent = DOMAIN original /\ sent # <<>> /\ Len(sent) = Len(original)
        /\ \A i \in DOMAIN original : StandsFor(sent[i], original[i]) /\ Sound(sent[i])
    BY <2>1 DEF Trims, IsOffer
  <2>3. Size(original) \in Nat
    BY <2>1, SizesAreNumbers
  <2>4. TrimTypeOK
    BY <1>2, <2>1, <2>2, <2>3 DEF TrimTypeOK, Sound
  <2>5. AnswerLinesUp
    BY <2>2 DEF AnswerLinesUp, StandsFor
  <2>6. DropsNoMoreThanNeeded
    BY <2>1, <2>2 DEF DropsNoMoreThanNeeded, StandsFor, Trims
  <2> QED BY <2>4, <2>5, <2>6 DEF OfferMeansTheSame
<1> QED
  BY <1>1, <1>2

(* The offer that is sent means what the viewer offered - the sections,    *)
(* the order of the numbers and what each stands for - and lacks no more   *)
(* than the size that the service carries makes it (trim_offer_for_kvs,    *)
(* _keep_preferred_codec).                                                 *)
THEOREM TrimmedOfferMeansTheSame == TrimSpec => []OfferMeansTheSame
<1> QED
  BY TrimInitially, TrimOneStep, TrimInvMeans, PTL DEF TrimSpec

-----------------------------------------------------------------------------
(* The sensors and binary sensors: first what the tables of const.py have  *)
(* and what the decoders give, then the entities.                          *)

(* What a table has for a field is one of its entries.                     *)
LEMMA TableHas ==
    ASSUME NEW E, NEW f \in DOMAIN Table(E)
    PROVE  \E e \in E : e[1] = f /\ e[2] = Table(E)[f]
BY DEF Table

(* The keys of a table are those of its entries.                           *)
LEMMA HasKey ==
    ASSUME NEW E, NEW f, NEW row, <<f, row>> \in E
    PROVE  f \in DOMAIN Table(E)
<1>1. <<f, row>>[1] = f
  OBVIOUS
<1> QED
  BY <1>1 DEF Table

(* What the proofs use of an entry of the sensors.                         *)
Hows == {"as it is", "title", "or else", "level", "drive", "gear", "structure"}
Levels == {"steeringWheelHeat", "seatFrontLeftHeat", "seatFrontLeftVent",
           "seatFrontRightHeat", "seatFrontRightVent", "seatRearLeftHeat",
           "seatRearRightHeat", "seatThirdRowLeftHeat", "seatThirdRowRightHeat"}
Both == {"powerState", "chargePortState"}
Unfit == {"driveMode", "gearGuardVideoStatus", "gearGuardVideoMode"}

(* The words that decoders give for the other ENUM sensors they feed.      *)
Taken ==
    [defrostDefogStatus |-> {"defog", "defrost", "defog_defrost", "off"},
     cabinPreconditioningStatus |->
        {"undefined", "initiate", "active", "active_warning", "complete_maintain",
         "timeout_temperature_not_achieved", "error_soc_low", "error_system_fault",
         "unavailable", "timeout_complete"},
     petModeStatus |-> {"off", "on", "disabled", "faulty"},
     trailerStatus |-> {"trailer_not_present", "trailer_present",
                        "trailer_present_with_brakes", "trailer_invalid"},
     gearStatus |-> {"not_defined", "park", "reverse", "neutral", "drive"},
     otaStatus |->
        {"idle", "ready_to_download", "fault", "connection_lost", "install_countdown",
         "preparing", "downloading", "ready_to_install", "scheduled_to_install",
         "awaiting_install", "installing", "install_success", "download_failed",
         "install_failed"},
     powerState |-> {"sleep", "standby", "ready", "go", "vehicle_reset", "ota_update",
                     "shutdown"}]

(* The fields whose sensors are ENUMs, and those with a binary sensor.     *)
EnumFields ==
    Levels \cup Both \cup Unfit \cup DOMAIN Taken \cup
    {"cabinPreconditioningType", "chargerState", "chargerStatus",
     "windowsNextAction", "wiperFluidState", "closureChargePortDoorNextAction",
     "closureFrunkNextAction", "closureTailgateNextAction", "closureSideBinLeftNextAction",
     "closureSideBinRightNextAction", "closureLiftgateNextAction"}

BinaryFields ==
    LOCK_STATE_ENTITIES \cup DOOR_STATE_ENTITIES \cup CLOSURE_STATE_ENTITIES \cup Both \cup
    {"gearGuardLocked", "tirePressureStatusValidFrontLeft",
     "tirePressureStatusValidFrontRight", "tirePressureStatusValidRearLeft",
     "tirePressureStatusValidRearRight", "windowFrontLeftClosed",
     "windowFrontRightClosed", "windowRearLeftClosed", "windowRearRightClosed",
     "btmFfHardwareFailureStatus", "btmOcHardwareFailureStatus",
     "btmRfHardwareFailureStatus", "btmIcHardwareFailureStatus",
     "btmRfdHardwareFailureStatus", "btmLfdHardwareFailureStatus",
     "batteryHvThermalEvent", "batteryHvThermalEventPropagation", "alarmSoundStatus",
     "twelveVoltBatteryHealth", "serviceMode", "carWashMode", "otaInstallReady",
     "cabinVentilationEnabled", "passiveEntryBluetoothInCcc"}

AggregateNames == {"locked_state", "door_state", "closure_state"}

(* A sensor's options, if it has any, take the words its decoder gives; "" *)
(* stands for no error, or for one that is an option.                      *)
SensorEntry(f, row) ==
    /\ row.how \in Hows
    /\ row.options # {} =>
          /\ f \in EnumFields
          /\ f \in DOMAIN Taken => Taken[f] \subseteq row.options
          /\ IF f \in Levels THEN row.how = "level" /\ row.options = Level.options
             ELSE IF f = "gearStatus" THEN row.how = "gear"
             ELSE IF f = "driveMode" THEN row.how = "drive"
             ELSE row.how \in {"title", "or else"}
          /\ row.how = "or else" /\ row.empty = "signal_not_available" =>
                row.empty \in row.options
    /\ f = "chargerStatus" =>
          row.how = "or else" /\ "signal_not_available" \notin row.options
    /\ f \in Both => row.how = "or else" /\ row.empty = "unknown"
    /\ f \in BinaryFields \cup AggregateNames => f \in Both

(* The rows there are, by how they are made.                               *)
NoOptions(f, row) ==
    /\ f \notin Both \cup {"chargerStatus"}
    /\ \/ row = Plain \/ row = TitleText \/ row = Structure
       \/ \E g : row = For(g, Plain) \/ row = For(g, Structure)
       \/ \E w : w # "signal_not_available" /\ row = Or(w, {})

HasLevel(f, row) == f \in Levels /\ (row = Level \/ \E g : row = For(g, Level))

HasWords(f, row) ==
    /\ f \in EnumFields \ (Levels \cup Both)
    /\ f \notin {"chargerState", "chargerStatus", "driveMode", "gearStatus"}
    /\ \E o : /\ f \in DOMAIN Taken => Taken[f] \subseteq o
              /\ \/ row = Words(o) \/ \E g : row = For(g, Words(o))
                 \/ \E w : w # "signal_not_available" /\ row = Or(w, o)

HasItsOwn(f, row) ==
    \E o : \/ f = "driveMode" /\ row = Row("drive", "", o)
           \/ f = "gearStatus" /\ row = Row("gear", "", o) /\ Taken[f] \subseteq o
           \/ f \in Both /\ row = Or("unknown", o)
                 /\ (f \in DOMAIN Taken => Taken[f] \subseteq o)
           \/ f = "chargerState" /\ row = Or("signal_not_available", o)
                 /\ "signal_not_available" \in o
           \/ f = "chargerStatus" /\ row = Or("NA", o) /\ "signal_not_available" \notin o

Usual(f, row) ==
    NoOptions(f, row) \/ HasLevel(f, row) \/ HasWords(f, row) \/ HasItsOwn(f, row)

(* What a row is made of.                                                  *)
Has(row, how, empty, options) ==
    /\ row.how = how /\ row.empty = empty /\ row.options = options
    /\ DOMAIN row = {"how", "empty", "options", "gate"}

(* A gate changes nothing else of a row.                                   *)
LEMMA ForHas ==
    ASSUME NEW row, NEW h, NEW w, NEW o, NEW g, Has(row, h, w, o)
    PROVE  Has(For(g, row), h, w, o)
BY DEF For, Has

(* A row has what it was made of.                                          *)
LEMMA RowHas == \A h, w, o : Has(Row(h, w, o), h, w, o)
BY DEF Row, Has

(* What each kind of row is made of.                                       *)
LEMMA RowsHave ==
    /\ Has(Plain, "as it is", "", {}) /\ Has(TitleText, "title", "", {})
    /\ Has(Structure, "structure", "", {})
    /\ Has(Level, "level", "", Level.options)
    /\ \A o : Has(Words(o), "title", "", o)
    /\ \A w, o : Has(Or(w, o), "or else", w, o)
<1>1. Level.options = {"off", "level_1", "level_2", "level_3"}
  BY DEF Level, Row
<1> QED
  BY <1>1, RowHas DEF Plain, TitleText, Structure, Level, Words, Or

(* A row of one of these kinds has what the proofs use.                    *)
LEMMA UsualEntries ==
    ASSUME NEW f, NEW row, Usual(f, row),
           f \in BinaryFields \cup AggregateNames => f \in Both
    PROVE  SensorEntry(f, row)
<1>1. CASE NoOptions(f, row)
  <2>1. \/ Has(row, "as it is", "", {}) \/ Has(row, "title", "", {})
        \/ Has(row, "structure", "", {}) \/ \E w : Has(row, "or else", w, {})
    <3>1. CASE row = Plain \/ row = TitleText \/ row = Structure
      BY <3>1, RowsHave
    <3>2. CASE \E g : row = For(g, Plain) \/ row = For(g, Structure)
      BY <3>2, RowsHave, ForHas
    <3>3. CASE \E w : w # "signal_not_available" /\ row = Or(w, {})
      BY <3>3, RowsHave
    <3> QED BY <1>1, <3>1, <3>2, <3>3 DEF NoOptions
  <2>2. row.options = {} /\ row.how \in Hows
    BY <2>1 DEF Has, Hows
  <2> QED BY <1>1, <2>2 DEF NoOptions, SensorEntry
<1>2. CASE HasLevel(f, row)
  <2>1. Has(row, "level", "", Level.options)
    BY <1>2, RowsHave, ForHas DEF HasLevel
  <2>2. f \in EnumFields /\ f \notin Both \cup DOMAIN Taken \cup {"chargerStatus"}
    BY <1>2 DEF HasLevel, EnumFields, Levels, Both, Taken
  <2>3. row.options = Level.options /\ row.how = "level"
    BY <2>1 DEF Has
  <2> QED BY <1>2, <2>2, <2>3 DEF HasLevel, SensorEntry, Hows
<1>3. CASE HasWords(f, row)
  <2>1. PICK o : /\ f \in DOMAIN Taken => Taken[f] \subseteq o
                 /\ \/ row = Words(o) \/ \E g : row = For(g, Words(o))
                    \/ \E w : w # "signal_not_available" /\ row = Or(w, o)
    BY <1>3 DEF HasWords
  <2>2. \/ Has(row, "title", "", o)
        \/ \E w : w # "signal_not_available" /\ Has(row, "or else", w, o)
    BY <2>1, RowsHave, ForHas
  <2>3. /\ row.options = o
        /\ row.how = "title" \/ (row.how = "or else" /\ row.empty # "signal_not_available")
    BY <2>2 DEF Has
  <2> QED BY <1>3, <2>1, <2>3 DEF HasWords, SensorEntry, Hows
<1>4. CASE HasItsOwn(f, row)
  <2>1. PICK o :
           \/ f = "driveMode" /\ row = Row("drive", "", o)
           \/ f = "gearStatus" /\ row = Row("gear", "", o) /\ Taken[f] \subseteq o
           \/ f \in Both /\ row = Or("unknown", o)
                 /\ (f \in DOMAIN Taken => Taken[f] \subseteq o)
           \/ f = "chargerState" /\ row = Or("signal_not_available", o)
                 /\ "signal_not_available" \in o
           \/ f = "chargerStatus" /\ row = Or("NA", o) /\ "signal_not_available" \notin o
    BY <1>4 DEF HasItsOwn
  <2>2. \/ f = "driveMode" /\ Has(row, "drive", "", o)
        \/ f = "gearStatus" /\ Has(row, "gear", "", o) /\ Taken[f] \subseteq o
        \/ f \in Both /\ Has(row, "or else", "unknown", o)
              /\ (f \in DOMAIN Taken => Taken[f] \subseteq o)
        \/ f = "chargerState" /\ Has(row, "or else", "signal_not_available", o)
              /\ "signal_not_available" \in o
        \/ f = "chargerStatus" /\ Has(row, "or else", "NA", o)
              /\ "signal_not_available" \notin o
    BY <2>1, RowsHave, RowHas
  <2>3. /\ f \in EnumFields \ Levels
        /\ f \in {"driveMode", "chargerState", "chargerStatus"} => f \notin DOMAIN Taken
        /\ f \in Both =>
              f \notin {"driveMode", "chargerState", "chargerStatus", "gearStatus"}
    BY <2>2 DEF EnumFields, Levels, Both, Taken, Unfit
  <2>4. /\ row.options = o
        /\ row.how \in {"drive", "gear", "or else"}
        /\ f \in DOMAIN Taken => Taken[f] \subseteq o
        /\ IF f = "gearStatus" THEN row.how = "gear"
           ELSE IF f = "driveMode" THEN row.how = "drive" ELSE row.how = "or else"
        /\ row.how = "or else" /\ row.empty = "signal_not_available" => row.empty \in o
        /\ f = "chargerStatus" => row.how = "or else" /\ "signal_not_available" \notin o
        /\ f \in Both => row.how = "or else" /\ row.empty = "unknown"
    <3>1. CASE f = "driveMode" /\ Has(row, "drive", "", o)
      BY <3>1, <2>3 DEF Has
    <3>2. CASE f = "gearStatus" /\ Has(row, "gear", "", o) /\ Taken[f] \subseteq o
      BY <3>2, <2>3 DEF Has
    <3>3. CASE f \in Both /\ Has(row, "or else", "unknown", o)
                 /\ (f \in DOMAIN Taken => Taken[f] \subseteq o)
      BY <3>3, <2>3 DEF Has
    <3>4. CASE f = "chargerState" /\ Has(row, "or else", "signal_not_available", o)
              /\ "signal_not_available" \in o
      BY <3>4, <2>3 DEF Has
    <3>5. CASE f = "chargerStatus" /\ Has(row, "or else", "NA", o)
                 /\ "signal_not_available" \notin o
      BY <3>5, <2>3 DEF Has
    <3> QED BY <2>2, <3>1, <3>2, <3>3, <3>4, <3>5
  <2> QED BY <2>3, <2>4 DEF SensorEntry, Hows
<1> QED
  BY <1>1, <1>2, <1>3, <1>4 DEF Usual

(* The rows of each part of the table, one part at a time: the words of an *)
(* ENUM sensor are looked through field by field.                          *)
LEMMA CabinEntries ==
    ASSUME NEW f, NEW row, <<f, row>> \in CabinSensors
    PROVE  SensorEntry(f, row)
<1>1. Usual(f, row)
  <2> USE DEF CabinSensors, Rows, Entry, Usual, NoOptions,
              HasLevel, HasWords, HasItsOwn, EnumFields, Both, Levels, Taken, Unfit, DefrostOptions
  <2>1. CASE f = "defrostDefogStatus"
    BY <2>1
  <2>2. CASE f = "cabinPreconditioningType"
    BY <2>2
  <2>3. CASE f = "cabinPreconditioningStatus"
    BY <2>3
  <2>4. CASE f \notin {"defrostDefogStatus", "cabinPreconditioningType",
                        "cabinPreconditioningStatus"}
    BY <2>4
  <2> QED
    BY <2>1, <2>2, <2>3, <2>4
<1>2. f \in BinaryFields \cup AggregateNames => f \in Both
  BY DEF CabinSensors, Rows, Entry, BinaryFields, AggregateNames, Both,
         LOCK_STATE_ENTITIES, DOOR_STATE_ENTITIES, CLOSURE_STATE_ENTITIES
<1> QED
  BY <1>1, <1>2, UsualEntries

LEMMA SeatAndDriveEntries ==
    ASSUME NEW f, NEW row, <<f, row>> \in SeatAndDriveSensors
    PROVE  SensorEntry(f, row)
<1>1. Usual(f, row)
  <2> USE DEF SeatAndDriveSensors, Rows, Entry, Usual, NoOptions,
              HasLevel, HasWords, HasItsOwn, EnumFields, Both, Levels, Taken, Unfit, GEAR_STATUS_MAP
  <2>1. CASE f = "gearStatus"
    BY <2>1
  <2>2. CASE f = "driveMode"
    BY <2>2
  <2>3. CASE f = "chargerState"
    BY <2>3
  <2>4. CASE f = "chargerStatus"
    BY <2>4
  <2>5. CASE f \notin {"gearStatus", "driveMode", "chargerState", "chargerStatus"}
    BY <2>5
  <2> QED
    BY <2>1, <2>2, <2>3, <2>4, <2>5
<1>2. f \in BinaryFields \cup AggregateNames => f \in Both
  BY DEF SeatAndDriveSensors, Rows, Entry, BinaryFields, AggregateNames, Both,
         LOCK_STATE_ENTITIES, DOOR_STATE_ENTITIES, CLOSURE_STATE_ENTITIES
<1> QED
  BY <1>1, <1>2, UsualEntries

LEMMA GuardAndVersionEntries ==
    ASSUME NEW f, NEW row, <<f, row>> \in GuardAndVersionSensors
    PROVE  SensorEntry(f, row)
<1>1. Usual(f, row)
  <2> USE DEF GuardAndVersionSensors, Rows, Entry, Usual, NoOptions,
              HasLevel, HasWords, HasItsOwn, EnumFields, Both, Levels, Taken, Unfit
  <2>1. CASE f = "trailerStatus"
    BY <2>1
  <2>2. CASE f = "gearGuardVideoMode"
    BY <2>2
  <2>3. CASE f = "gearGuardVideoStatus"
    BY <2>3
  <2>4. CASE f \notin {"trailerStatus", "gearGuardVideoMode", "gearGuardVideoStatus"}
    BY <2>4
  <2> QED
    BY <2>1, <2>2, <2>3, <2>4
<1>2. f \in BinaryFields \cup AggregateNames => f \in Both
  BY DEF GuardAndVersionSensors, Rows, Entry, BinaryFields, AggregateNames, Both,
         LOCK_STATE_ENTITIES, DOOR_STATE_ENTITIES, CLOSURE_STATE_ENTITIES
<1> QED
  BY <1>1, <1>2, UsualEntries

LEMMA UpdateAndPowerEntries ==
    ASSUME NEW f, NEW row, <<f, row>> \in UpdateAndPowerSensors
    PROVE  SensorEntry(f, row)
<1>1. Usual(f, row)
  <2> USE DEF UpdateAndPowerSensors, Rows, Entry, Usual, NoOptions,
              HasLevel, HasWords, HasItsOwn, EnumFields, Both, Levels, Taken, Unfit
  <2>1. CASE f = "otaStatus"
    BY <2>1
  <2>2. CASE f = "petModeStatus"
    BY <2>2
  <2>3. CASE f = "powerState"
    BY <2>3
  <2>4. CASE f = "chargePortState"
    BY <2>4
  <2>5. CASE f \notin {"otaStatus", "petModeStatus", "powerState", "chargePortState"}
    BY <2>5
  <2> QED
    BY <2>1, <2>2, <2>3, <2>4, <2>5
<1>2. f \in BinaryFields \cup AggregateNames => f \in Both
  BY DEF UpdateAndPowerSensors, Rows, Entry, BinaryFields, AggregateNames, Both,
         LOCK_STATE_ENTITIES, DOOR_STATE_ENTITIES, CLOSURE_STATE_ENTITIES
<1> QED
  BY <1>1, <1>2, UsualEntries

LEMMA TireAndWindowEntries ==
    ASSUME NEW f, NEW row, <<f, row>> \in TireAndWindowSensors
    PROVE  SensorEntry(f, row)
<1>1. Usual(f, row)
  <2> USE DEF TireAndWindowSensors, Rows, Entry, Usual, NoOptions,
              HasLevel, HasWords, HasItsOwn, EnumFields, Both, Levels, Taken, Unfit
  <2>1. CASE f = "windowsNextAction"
    BY <2>1
  <2>2. CASE f \notin {"windowsNextAction"}
    BY <2>2
  <2> QED
    BY <2>1, <2>2
<1>2. f \in BinaryFields \cup AggregateNames => f \in Both
  BY DEF TireAndWindowSensors, Rows, Entry, BinaryFields, AggregateNames, Both,
         LOCK_STATE_ENTITIES, DOOR_STATE_ENTITIES, CLOSURE_STATE_ENTITIES
<1> QED
  BY <1>1, <1>2, UsualEntries

LEMMA FaultEntries ==
    ASSUME NEW f, NEW row, <<f, row>> \in FaultSensors
    PROVE  SensorEntry(f, row)
<1>1. Usual(f, row)
  BY DEF FaultSensors, Rows, Entry, Usual, NoOptions,
         HasLevel, HasWords, HasItsOwn, EnumFields, Both, Levels, Taken, Unfit
<1>2. f \in BinaryFields \cup AggregateNames => f \in Both
  BY DEF FaultSensors, Rows, Entry, BinaryFields, AggregateNames, Both,
         LOCK_STATE_ENTITIES, DOOR_STATE_ENTITIES, CLOSURE_STATE_ENTITIES
<1> QED
  BY <1>1, <1>2, UsualEntries

LEMMA NetworkEntries ==
    ASSUME NEW f, NEW row, <<f, row>> \in NetworkSensors
    PROVE  SensorEntry(f, row)
<1>1. Usual(f, row)
  BY DEF NetworkSensors, Rows, Entry, Usual, NoOptions,
         HasLevel, HasWords, HasItsOwn, EnumFields, Both, Levels, Taken, Unfit
<1>2. f \in BinaryFields \cup AggregateNames => f \in Both
  BY DEF NetworkSensors, Rows, Entry, BinaryFields, AggregateNames, Both,
         LOCK_STATE_ENTITIES, DOOR_STATE_ENTITIES, CLOSURE_STATE_ENTITIES
<1> QED
  BY <1>1, <1>2, UsualEntries

LEMMA DeploymentEntries ==
    ASSUME NEW f, NEW row, <<f, row>> \in DeploymentSensors
    PROVE  SensorEntry(f, row)
<1>1. Usual(f, row)
  BY DEF DeploymentSensors, Rows, Entry, Usual, NoOptions,
         HasLevel, HasWords, HasItsOwn, EnumFields, Both, Levels, Taken, Unfit, SideBin
<1>2. f \in BinaryFields \cup AggregateNames => f \in Both
  BY DEF DeploymentSensors, Rows, Entry, BinaryFields, AggregateNames, Both,
         LOCK_STATE_ENTITIES, DOOR_STATE_ENTITIES, CLOSURE_STATE_ENTITIES
<1> QED
  BY <1>1, <1>2, UsualEntries

LEMMA RearEntries ==
    ASSUME NEW f, NEW row, <<f, row>> \in RearSensors
    PROVE  SensorEntry(f, row)
<1>1. Usual(f, row)
  BY DEF RearSensors, Rows, Entry, Usual, NoOptions,
         HasLevel, HasWords, HasItsOwn, EnumFields, Both, Levels, Taken, Unfit, SideBin
<1>2. f \in BinaryFields \cup AggregateNames => f \in Both
  BY DEF RearSensors, Rows, Entry, BinaryFields, AggregateNames, Both,
         LOCK_STATE_ENTITIES, DOOR_STATE_ENTITIES, CLOSURE_STATE_ENTITIES
<1> QED
  BY <1>1, <1>2, UsualEntries

LEMMA EnergyEntries ==
    ASSUME NEW f, NEW row, <<f, row>> \in EnergySensors
    PROVE  SensorEntry(f, row)
<1>1. Usual(f, row)
  BY DEF EnergySensors, Rows, Entry, Usual, NoOptions,
         HasLevel, HasWords, HasItsOwn, EnumFields, Both, Levels, Taken, Unfit
<1>2. f \in BinaryFields \cup AggregateNames => f \in Both
  BY DEF EnergySensors, Rows, Entry, BinaryFields, AggregateNames, Both,
         LOCK_STATE_ENTITIES, DOOR_STATE_ENTITIES, CLOSURE_STATE_ENTITIES
<1> QED
  BY <1>1, <1>2, UsualEntries

LEMMA TripEntries ==
    ASSUME NEW f, NEW row, <<f, row>> \in TripSensors
    PROVE  SensorEntry(f, row)
<1>1. Usual(f, row)
  BY DEF TripSensors, Rows, Entry, Usual, NoOptions,
         HasLevel, HasWords, HasItsOwn, EnumFields, Both, Levels, Taken, Unfit
<1>2. f \in BinaryFields \cup AggregateNames => f \in Both
  BY DEF TripSensors, Rows, Entry, BinaryFields, AggregateNames, Both,
         LOCK_STATE_ENTITIES, DOOR_STATE_ENTITIES, CLOSURE_STATE_ENTITIES
<1> QED
  BY <1>1, <1>2, UsualEntries


(* The entries of a table are pairs.                                       *)
IsTable(E) == \A e \in E : e = <<e[1], e[2]>>

LEMMA TablesAre ==
    /\ \A F, r : IsTable(Rows(F, r)) /\ IsTable(Entry(F, r))
    /\ \A A, B : IsTable(A) /\ IsTable(B) => IsTable(A \cup B)
BY DEF IsTable, Rows, Entry

(* Looking a field up gives the row it is entered with.                    *)
LEMMA TableGives ==
    ASSUME NEW E, IsTable(E), NEW f \in DOMAIN Table(E)
    PROVE  <<f, Table(E)[f]>> \in E
<1>1. PICK e \in E : e[1] = f /\ e[2] = Table(E)[f]
  BY TableHas
<1> QED
  BY <1>1 DEF IsTable

(* So every sensor of const.py has a row as SensorEntry says.              *)
LEMMA SensorRows ==
    ASSUME NEW f \in DOMAIN SENSORS
    PROVE  SensorEntry(f, SENSORS[f])
<1> DEFINE E == CabinSensors \cup SeatAndDriveSensors \cup
                GuardAndVersionSensors \cup UpdateAndPowerSensors \cup
                TireAndWindowSensors \cup FaultSensors \cup
                NetworkSensors \cup DeploymentSensors \cup RearSensors \cup
                EnergySensors \cup TripSensors
<1>1. /\ IsTable(CabinSensors) /\ IsTable(SeatAndDriveSensors)
      /\ IsTable(GuardAndVersionSensors) /\ IsTable(UpdateAndPowerSensors)
      /\ IsTable(TireAndWindowSensors) /\ IsTable(FaultSensors)
  BY TablesAre DEF CabinSensors, SeatAndDriveSensors, GuardAndVersionSensors,
                   UpdateAndPowerSensors, TireAndWindowSensors, FaultSensors
<1>2. /\ IsTable(NetworkSensors) /\ IsTable(DeploymentSensors) /\ IsTable(RearSensors)
      /\ IsTable(EnergySensors) /\ IsTable(TripSensors)
  BY TablesAre DEF NetworkSensors, DeploymentSensors, RearSensors, EnergySensors,
                   TripSensors
<1>3. IsTable(E)
  BY <1>1, <1>2, TablesAre
<1>4. SENSORS = Table(E)
  BY DEF SENSORS
<1>5. <<f, SENSORS[f]>> \in E
  <2> HIDE DEF E
  <2> QED BY <1>3, <1>4, TableGives
<1> QED
  BY <1>5, CabinEntries, SeatAndDriveEntries, GuardAndVersionEntries,
     UpdateAndPowerEntries, TireAndWindowEntries, FaultEntries, NetworkEntries,
     DeploymentEntries, RearEntries, EnergyEntries, TripEntries

-----------------------------------------------------------------------------
(* What the proofs use of an entry of the binary sensors: it is on for     *)
(* words that are values; an aggregate's members are on for its words.     *)
BinaryEntry(f, row) ==
    /\ f \in BinaryFields
    /\ \A v \in row.on : /\ v = Lower(v.w) /\ v.w # "" /\ v.w # "unknown"
                         /\ v.w \notin INVALID_SENSOR_STATES
    /\ f \in LOCK_STATE_ENTITIES => row.on = {Lower("unlocked")}
    /\ f \in DOOR_STATE_ENTITIES => row.on = {Lower("open"), Lower("opened")}
    /\ f \in CLOSURE_STATE_ENTITIES =>
          /\ {Lower("open"), Lower("opened")} \subseteq row.on
          /\ row.on \subseteq {Lower("open"), Lower("opened"), Lower("ajar")}

(* A binary sensor is on for its words in lower case, gated or not.        *)
LEMMA OnHas ==
    ASSUME NEW words
    PROVE  /\ OnFor(words).on = {Lower(w) : w \in words}
           /\ \A g : For(g, OnFor(words)).on = {Lower(w) : w \in words}
<1> DEFINE row == OnFor(words)
<1>1. row.on = {Lower(w) : w \in words} /\ DOMAIN row = {"on", "gate"}
  BY DEF OnFor
<1>2. ASSUME NEW r, NEW g, DOMAIN r = {"on", "gate"}
      PROVE  For(g, r).on = r.on
  BY <1>2 DEF For
<1> HIDE DEF row
<1>3. \A g : For(g, row).on = row.on
  BY <1>1, <1>2
<1> QED
  BY <1>1, <1>3 DEF row

(* The words that a binary sensor is on for.                               *)
OnWordsOf(f, words) ==
    /\ "" \notin words /\ "unknown" \notin words /\ words \cap INVALID_SENSOR_STATES = {}
    /\ f \in LOCK_STATE_ENTITIES => words = {"unlocked"}
    /\ f \in DOOR_STATE_ENTITIES => words = {"open", "opened"}
    /\ f \in CLOSURE_STATE_ENTITIES =>
          {"open", "opened"} \subseteq words /\ words \subseteq {"open", "opened", "ajar"}

(* Such words make a row as BinaryEntry says.                              *)
LEMMA BinaryIsOn ==
    ASSUME NEW f \in BinaryFields, NEW row, NEW words, OnWordsOf(f, words),
           row = OnFor(words) \/ \E g : row = For(g, OnFor(words))
    PROVE  BinaryEntry(f, row)
<1>1. row.on = {Lower(w) : w \in words}
  BY OnHas
<1>2. \A w : Lower(w).w = w
  BY DEF Lower
<1>3. ASSUME f \in LOCK_STATE_ENTITIES
      PROVE  row.on = {Lower("unlocked")}
  BY <1>1, <1>3 DEF OnWordsOf
<1>4. ASSUME f \in DOOR_STATE_ENTITIES
      PROVE  row.on = {Lower("open"), Lower("opened")}
  BY <1>1, <1>4 DEF OnWordsOf
<1>5. ASSUME f \in CLOSURE_STATE_ENTITIES
      PROVE  /\ {Lower("open"), Lower("opened")} \subseteq row.on
             /\ row.on \subseteq {Lower("open"), Lower("opened"), Lower("ajar")}
  BY <1>1, <1>5 DEF OnWordsOf
<1>6. \A v \in row.on : /\ v = Lower(v.w) /\ v.w # "" /\ v.w # "unknown"
                        /\ v.w \notin INVALID_SENSOR_STATES
  BY <1>1, <1>2 DEF OnWordsOf
<1> QED
  BY <1>3, <1>4, <1>5, <1>6 DEF BinaryEntry

(* The rows of each part of the binary sensors.                            *)
LEMMA DoorBinaryEntries ==
    ASSUME NEW f, NEW row, <<f, row>> \in DoorBinarySensors
    PROVE  BinaryEntry(f, row)
<1>1. f \in BinaryFields
  BY DEF DoorBinarySensors, Rows, Entry, BinaryFields, Both, LOCK_STATE_ENTITIES,
         DOOR_STATE_ENTITIES, CLOSURE_STATE_ENTITIES
<1>2. \E words :
         OnWordsOf(f, words) /\ (row = OnFor(words) \/ \E g : row = For(g, OnFor(words)))
  <2> USE DEF DoorBinarySensors, Rows, Entry, Opened, Unlocked, Detected, OnWordsOf,
              LOCK_STATE_ENTITIES, DOOR_STATE_ENTITIES, CLOSURE_STATE_ENTITIES,
              INVALID_SENSOR_STATES
  <2>1. CASE f = "chargePortState"
    BY <2>1
  <2>2. CASE f = "closureFrunkClosed"
    BY <2>2
  <2>3. CASE f \notin {"chargePortState", "closureFrunkClosed"}
    BY <2>3
  <2> QED
    BY <2>1, <2>2, <2>3
<1> QED
  BY <1>1, <1>2, BinaryIsOn

LEMMA AlarmBinaryEntries ==
    ASSUME NEW f, NEW row, <<f, row>> \in AlarmBinarySensors
    PROVE  BinaryEntry(f, row)
<1>1. f \in BinaryFields
  BY DEF AlarmBinarySensors, Rows, Entry, BinaryFields, Both, LOCK_STATE_ENTITIES,
         DOOR_STATE_ENTITIES, CLOSURE_STATE_ENTITIES
<1>2. \E words :
         OnWordsOf(f, words) /\ (row = OnFor(words) \/ \E g : row = For(g, OnFor(words)))
  <2> USE DEF AlarmBinarySensors, Rows, Entry, Opened, Unlocked, Detected, OnWordsOf,
              LOCK_STATE_ENTITIES, DOOR_STATE_ENTITIES, CLOSURE_STATE_ENTITIES,
              INVALID_SENSOR_STATES
  <2>1. CASE f = "powerState"
    BY <2>1
  <2>2. CASE f = "alarmSoundStatus"
    BY <2>2
  <2>3. CASE f \notin {"powerState", "alarmSoundStatus"}
    BY <2>3
  <2> QED
    BY <2>1, <2>2, <2>3
<1> QED
  BY <1>1, <1>2, BinaryIsOn

LEMMA ModeBinaryEntries ==
    ASSUME NEW f, NEW row, <<f, row>> \in ModeBinarySensors
    PROVE  BinaryEntry(f, row)
<1>1. f \in BinaryFields
  BY DEF ModeBinarySensors, Rows, Entry, BinaryFields, Both, LOCK_STATE_ENTITIES,
         DOOR_STATE_ENTITIES, CLOSURE_STATE_ENTITIES
<1>2. \E words :
         OnWordsOf(f, words) /\ (row = OnFor(words) \/ \E g : row = For(g, OnFor(words)))
  <2> USE DEF ModeBinarySensors, Rows, Entry, Opened, Unlocked, Detected, OnWordsOf,
              LOCK_STATE_ENTITIES, DOOR_STATE_ENTITIES, CLOSURE_STATE_ENTITIES,
              INVALID_SENSOR_STATES
  <2>1. CASE f = "twelveVoltBatteryHealth"
    BY <2>1
  <2>2. CASE f = "otaInstallReady"
    BY <2>2
  <2>3. CASE f = "cabinVentilationEnabled"
    BY <2>3
  <2>4. CASE f = "passiveEntryBluetoothInCcc"
    BY <2>4
  <2>5. CASE f \in {"serviceMode", "carWashMode"}
    BY <2>5
  <2>6. CASE f \in LOCK_STATE_ENTITIES
    BY <2>6
  <2>7. CASE f \in CLOSURE_STATE_ENTITIES
    BY <2>7
  <2>8. CASE f \notin {"twelveVoltBatteryHealth", "otaInstallReady",
                        "cabinVentilationEnabled", "passiveEntryBluetoothInCcc",
                        "serviceMode", "carWashMode"}
                         \cup LOCK_STATE_ENTITIES \cup CLOSURE_STATE_ENTITIES
    BY <2>8
  <2> QED
    BY <2>1, <2>2, <2>3, <2>4, <2>5, <2>6, <2>7, <2>8
<1> QED
  BY <1>1, <1>2, BinaryIsOn

(* So every binary sensor has a row as BinaryEntry says.                   *)
LEMMA BinaryRows ==
    ASSUME NEW f \in DOMAIN BINARY_SENSORS
    PROVE  BinaryEntry(f, BINARY_SENSORS[f])
<1> DEFINE E == DoorBinarySensors \cup AlarmBinarySensors \cup ModeBinarySensors
<1>1. /\ IsTable(DoorBinarySensors) /\ IsTable(AlarmBinarySensors)
      /\ IsTable(ModeBinarySensors)
  BY TablesAre DEF DoorBinarySensors, AlarmBinarySensors, ModeBinarySensors
<1>2. IsTable(E) /\ BINARY_SENSORS = Table(E)
  BY <1>1, TablesAre DEF BINARY_SENSORS
<1>3. <<f, BINARY_SENSORS[f]>> \in E
  <2> HIDE DEF E
  <2> QED BY <1>2, TableGives
<1> QED
  BY <1>3, DoorBinaryEntries, AlarmBinaryEntries, ModeBinaryEntries

(* The members of the aggregates have binary sensors of their own.         *)
LEMMA MembersAreBinary ==
    LOCK_STATE_ENTITIES \cup DOOR_STATE_ENTITIES \cup CLOSURE_STATE_ENTITIES
        \subseteq DOMAIN BINARY_SENSORS
<1> DEFINE E == DoorBinarySensors \cup AlarmBinarySensors \cup ModeBinarySensors
<1>1. ASSUME NEW f \in {"closureTailgateClosed", "doorFrontLeftClosed",
                        "doorFrontRightClosed", "doorRearLeftClosed",
                        "doorRearRightClosed"}
      PROVE  <<f, Opened>> \in DoorBinarySensors
  BY DEF DoorBinarySensors, Rows, Entry
<1>2. ASSUME NEW f \in {"closureFrunkLocked", "closureTailgateLocked",
                        "doorFrontLeftLocked", "doorFrontRightLocked",
                        "doorRearLeftLocked", "doorRearRightLocked"}
      PROVE  <<f, Unlocked>> \in DoorBinarySensors
  BY DEF DoorBinarySensors, Rows, Entry
<1>3. \E r : <<"closureFrunkClosed", r>> \in DoorBinarySensors
  BY DEF DoorBinarySensors, Rows, Entry
<1>4. /\ <<"closureSideBinLeftClosed", For({"SIDE_BIN_NXT_ACT"}, Opened)>>
            \in ModeBinarySensors
      /\ <<"closureSideBinRightClosed", For({"SIDE_BIN_NXT_ACT"}, Opened)>>
            \in ModeBinarySensors
      /\ <<"closureSideBinLeftLocked", For({"SIDE_BIN_NXT_ACT"}, Unlocked)>>
            \in ModeBinarySensors
      /\ <<"closureSideBinRightLocked", For({"SIDE_BIN_NXT_ACT"}, Unlocked)>>
            \in ModeBinarySensors
      /\ <<"closureTonneauClosed", For({"TON-P01"}, Opened)>> \in ModeBinarySensors
      /\ <<"closureTonneauLocked", For({"TON-P01"}, Unlocked)>> \in ModeBinarySensors
      /\ <<"closureLiftgateClosed", For({"LIFTGATE_CMD"}, Opened)>> \in ModeBinarySensors
      /\ <<"closureLiftgateLocked", For({"LIFTGATE_CMD"}, Unlocked)>> \in ModeBinarySensors
  BY DEF ModeBinarySensors, Rows, Entry
<1>5. ASSUME NEW f \in LOCK_STATE_ENTITIES \cup DOOR_STATE_ENTITIES
                         \cup CLOSURE_STATE_ENTITIES
      PROVE  \E r : <<f, r>> \in E
  BY <1>1, <1>2, <1>3, <1>4
     DEF LOCK_STATE_ENTITIES, DOOR_STATE_ENTITIES, CLOSURE_STATE_ENTITIES
<1>6. BINARY_SENSORS = Table(E)
  BY DEF BINARY_SENSORS
<1> HIDE DEF E
<1> QED
  BY <1>5, <1>6, HasKey

-----------------------------------------------------------------------------
(* What the proofs use of what a decoder gives: its words are values, and  *)
(* fit the sensors that take them.                                         *)
LevelWords == {"off", "level_1", "level_2", "level_3"}

DecodedEntry(f, values) ==
    /\ \A v \in values : v = Lower(v.w) \/ (f \notin Both /\ v = Caps(v.w))
    /\ f \in EnumFields \ Unfit =>
          \A v \in values :
             IF f \in Levels THEN v = Caps(v.w) /\ v.w \in LevelWords
             ELSE f \in DOMAIN Taken /\ v.w \in Taken[f]

WordsGiven(f, words) ==
    f \in EnumFields \ Unfit =>
        IF f \in Levels THEN words \subseteq LevelWords
        ELSE f \in DOMAIN Taken /\ words \subseteq Taken[f]

GivenAs(f, values) ==
    \/ \E words : values = Lowers(words) /\ f \notin Levels /\ WordsGiven(f, words)
    \/ \E words : values = AllCaps(words) /\ f \notin Both /\ WordsGiven(f, words)
    \/ values = Number /\ f \notin EnumFields

(* The values a decoder makes of its words have them.                      *)
LEMMA WordsAre ==
    ASSUME NEW words
    PROVE  /\ \A v \in Lowers(words) : v = Lower(v.w) /\ v.w \in words
           /\ \A v \in AllCaps(words) : v = Caps(v.w) /\ v.w \in words
<1>1. \A w : Lower(w).w = w /\ Caps(w).w = w
  BY DEF Lower, Caps
<1> QED
  BY <1>1 DEF Lowers, AllCaps

(* Such values are as DecodedEntry says.                                   *)
LEMMA GivenIsDecoded ==
    ASSUME NEW f, NEW values, GivenAs(f, values)
    PROVE  DecodedEntry(f, values)
<1>1. ASSUME NEW words, values = Lowers(words), f \notin Levels, WordsGiven(f, words)
      PROVE  DecodedEntry(f, values)
  BY <1>1, WordsAre DEF DecodedEntry, WordsGiven
<1>2. ASSUME NEW words, values = AllCaps(words), f \notin Both, WordsGiven(f, words)
      PROVE  DecodedEntry(f, values)
  BY <1>2, WordsAre DEF DecodedEntry, WordsGiven
<1>3. ASSUME values = Number, f \notin EnumFields
      PROVE  DecodedEntry(f, values)
  <2>1. Number = Lowers({"value"})
    BY DEF Number, Lowers
  <2> QED BY <1>3, <2>1, WordsAre DEF DecodedEntry
<1> QED
  BY <1>1, <1>2, <1>3 DEF GivenAs

(* What the decoders of each topic give.                                   *)
LEMMA BodyGiven ==
    ASSUME NEW f, NEW values, <<f, values>> \in BodyKeys
    PROVE  DecodedEntry(f, values)
<1>1. GivenAs(f, values)
  <2> USE DEF BodyKeys, Rows, Entry, GivenAs, WordsGiven, LevelWords, EnumFields,
              Both, Levels, Taken, Unfit, LOCK_STATE_ENTITIES
  <2>1. CASE f = "trailerStatus"
    BY <2>1
  <2>2. CASE f \in LOCK_STATE_ENTITIES
    BY <2>2
  <2>3. CASE f \notin {"trailerStatus"} \cup LOCK_STATE_ENTITIES
    BY <2>3
  <2> QED
    BY <2>1, <2>2, <2>3
<1> QED
  BY <1>1, GivenIsDecoded

LEMMA ComfortGiven ==
    ASSUME NEW f, NEW values, <<f, values>> \in ComfortKeys
    PROVE  DecodedEntry(f, values)
<1>1. GivenAs(f, values)
  <2> USE DEF ComfortKeys, Rows, Entry, GivenAs, WordsGiven, LevelWords, EnumFields,
              Both, Levels, Taken, Unfit
  <2>1. CASE f = "defrostDefogStatus"
    BY <2>1
  <2>2. CASE f = "cabinPreconditioningStatus"
    BY <2>2
  <2>3. CASE f = "petModeStatus"
    BY <2>3
  <2>4. CASE f = "petModeTemperatureStatus"
    BY <2>4
  <2>5. CASE f \in Levels
    BY <2>5
  <2>6. CASE f \notin {"defrostDefogStatus", "cabinPreconditioningStatus", "petModeStatus",
                        "petModeTemperatureStatus"} \cup Levels
    BY <2>6
  <2> QED
    BY <2>1, <2>2, <2>3, <2>4, <2>5, <2>6
<1> QED
  BY <1>1, GivenIsDecoded

LEMMA DynamicsGiven ==
    ASSUME NEW f, NEW values, <<f, values>> \in DynamicsKeys
    PROVE  DecodedEntry(f, values)
<1>1. GivenAs(f, values)
  <2> USE DEF DynamicsKeys, Rows, Entry, GivenAs, WordsGiven, LevelWords, EnumFields,
              Both, Levels, Taken, Unfit
  <2>1. CASE f = "gearStatus"
    BY <2>1
  <2>2. CASE f = "driveMode"
    BY <2>2
  <2>3. CASE f \notin {"gearStatus", "driveMode"}
    BY <2>3
  <2> QED
    BY <2>1, <2>2, <2>3
<1> QED
  BY <1>1, GivenIsDecoded

LEMMA SecurityGiven ==
    ASSUME NEW f, NEW values, <<f, values>> \in SecurityKeys
    PROVE  DecodedEntry(f, values)
<1>1. GivenAs(f, values)
  <2> USE DEF SecurityKeys, Rows, Entry, GivenAs, WordsGiven, LevelWords, EnumFields,
              Both, Levels, Taken, Unfit
  <2>1. CASE f = "gearGuardVideoStatus"
    BY <2>1
  <2>2. CASE f = "gearGuardVideoMode"
    BY <2>2
  <2>3. CASE f \notin {"gearGuardVideoStatus", "gearGuardVideoMode"}
    BY <2>3
  <2> QED
    BY <2>1, <2>2, <2>3
<1> QED
  BY <1>1, GivenIsDecoded

LEMMA OtaGiven ==
    ASSUME NEW f, NEW values, <<f, values>> \in OtaKeys
    PROVE  DecodedEntry(f, values)
<1>1. GivenAs(f, values)
  <2> USE DEF OtaKeys, Rows, Entry, GivenAs, WordsGiven, LevelWords, EnumFields,
              Both, Levels, Taken, Unfit
  <2>1. CASE f = "otaStatus"
    BY <2>1
  <2>2. CASE f \notin {"otaStatus"}
    BY <2>2
  <2> QED
    BY <2>1, <2>2
<1> QED
  BY <1>1, GivenIsDecoded

LEMMA VehicleGiven ==
    ASSUME NEW f, NEW values, <<f, values>> \in VehicleKeys
    PROVE  DecodedEntry(f, values)
<1>1. GivenAs(f, values)
  <2> USE DEF VehicleKeys, Rows, Entry, GivenAs, WordsGiven, LevelWords, EnumFields,
              Both, Levels, Taken, Unfit
  <2>1. CASE f = "powerState"
    BY <2>1
  <2>2. CASE f \notin {"powerState"}
    BY <2>2
  <2> QED
    BY <2>1, <2>2
<1> QED
  BY <1>1, GivenIsDecoded

LEMMA ChargingGiven ==
    ASSUME NEW f, NEW values, <<f, values>> \in ChargingKeys
    PROVE  DecodedEntry(f, values)
<1>1. GivenAs(f, values)
  BY DEF ChargingKeys, Rows, Entry, GivenAs, WordsGiven, LevelWords, EnumFields,
         Both, Levels, Taken, Unfit
<1> QED
  BY <1>1, GivenIsDecoded

LEMMA EnergyGiven ==
    ASSUME NEW f, NEW values, <<f, values>> \in EnergyKeys
    PROVE  DecodedEntry(f, values)
<1>1. GivenAs(f, values)
  BY DEF EnergyKeys, Rows, Entry, GivenAs, WordsGiven, LevelWords, EnumFields,
         Both, Levels, Taken, Unfit
<1> QED
  BY <1>1, GivenIsDecoded

LEMMA ParkedEnergyGiven ==
    ASSUME NEW f, NEW values, <<f, values>> \in ParkedEnergyKeys
    PROVE  DecodedEntry(f, values)
<1>1. GivenAs(f, values)
  BY DEF ParkedEnergyKeys, Rows, Entry, GivenAs, WordsGiven, LevelWords, EnumFields,
         Both, Levels, Taken, Unfit
<1> QED
  BY <1>1, GivenIsDecoded

LEMMA ColdWeatherGiven ==
    ASSUME NEW f, NEW values, <<f, values>> \in ColdWeatherKeys
    PROVE  DecodedEntry(f, values)
<1>1. GivenAs(f, values)
  BY DEF ColdWeatherKeys, Rows, Entry, GivenAs, WordsGiven, LevelWords, EnumFields,
         Both, Levels, Taken, Unfit
<1> QED
  BY <1>1, GivenIsDecoded

LEMMA TripGiven ==
    ASSUME NEW f, NEW values, <<f, values>> \in TripKeys
    PROVE  DecodedEntry(f, values)
<1>1. GivenAs(f, values)
  BY DEF TripKeys, Rows, Entry, GivenAs, WordsGiven, LevelWords, EnumFields,
         Both, Levels, Taken, Unfit
<1> QED
  BY <1>1, GivenIsDecoded

LEMMA AccessGiven ==
    ASSUME NEW f, NEW values, <<f, values>> \in AccessKeys
    PROVE  DecodedEntry(f, values)
<1>1. GivenAs(f, values)
  BY DEF AccessKeys, Rows, Entry, GivenAs, WordsGiven, LevelWords, EnumFields,
         Both, Levels, Taken, Unfit
<1> QED
  BY <1>1, GivenIsDecoded

LEMMA StreamingGiven ==
    ASSUME NEW f, NEW values, <<f, values>> \in StreamingKeys
    PROVE  DecodedEntry(f, values)
<1>1. GivenAs(f, values)
  BY DEF StreamingKeys, Rows, Entry, GivenAs, WordsGiven, LevelWords, EnumFields,
         Both, Levels, Taken, Unfit
<1> QED
  BY <1>1, GivenIsDecoded

LEMMA SnapshotGiven ==
    ASSUME NEW f, NEW values, <<f, values>> \in SnapshotKeys
    PROVE  DecodedEntry(f, values)
<1>1. GivenAs(f, values)
  BY DEF SnapshotKeys, Rows, Entry, GivenAs, WordsGiven, LevelWords, EnumFields,
         Both, Levels, Taken, Unfit
<1> QED
  BY <1>1, GivenIsDecoded

LEMMA GeofenceGiven ==
    ASSUME NEW f, NEW values, <<f, values>> \in GeofenceKeys
    PROVE  DecodedEntry(f, values)
<1>1. GivenAs(f, values)
  BY DEF GeofenceKeys, Rows, Entry, GivenAs, WordsGiven, LevelWords, EnumFields,
         Both, Levels, Taken, Unfit
<1> QED
  BY <1>1, GivenIsDecoded

(* So everything a decoder gives is as DecodedEntry says.                  *)
LEMMA DecodedRows ==
    ASSUME NEW f \in DOMAIN DecodedKeys
    PROVE  DecodedEntry(f, DecodedKeys[f])
<1> DEFINE E == BodyKeys \cup ComfortKeys \cup DynamicsKeys \cup
                SecurityKeys \cup OtaKeys \cup VehicleKeys \cup
                ChargingKeys \cup EnergyKeys \cup ParkedEnergyKeys \cup
                ColdWeatherKeys \cup TripKeys \cup AccessKeys \cup
                StreamingKeys \cup SnapshotKeys \cup GeofenceKeys
<1>1. /\ IsTable(BodyKeys) /\ IsTable(ComfortKeys) /\ IsTable(DynamicsKeys)
      /\ IsTable(SecurityKeys) /\ IsTable(OtaKeys) /\ IsTable(VehicleKeys)
      /\ IsTable(ChargingKeys) /\ IsTable(EnergyKeys)
  BY TablesAre DEF BodyKeys, ComfortKeys, DynamicsKeys, SecurityKeys, OtaKeys, VehicleKeys,
                   ChargingKeys, EnergyKeys
<1>2. /\ IsTable(ParkedEnergyKeys) /\ IsTable(ColdWeatherKeys) /\ IsTable(TripKeys)
      /\ IsTable(AccessKeys) /\ IsTable(StreamingKeys) /\ IsTable(SnapshotKeys)
      /\ IsTable(GeofenceKeys)
  BY TablesAre DEF ParkedEnergyKeys, ColdWeatherKeys, TripKeys, AccessKeys, StreamingKeys,
                   SnapshotKeys, GeofenceKeys
<1>3. IsTable(E) /\ DecodedKeys = Table(E)
  BY <1>1, <1>2, TablesAre DEF DecodedKeys
<1>4. <<f, DecodedKeys[f]>> \in E
  <2> HIDE DEF E
  <2> QED BY <1>3, TableGives
<1> QED
  BY <1>4, BodyGiven, ComfortGiven, DynamicsGiven, SecurityGiven, OtaGiven, VehicleGiven,
     ChargingGiven, EnergyGiven, ParkedEnergyGiven, ColdWeatherGiven, TripGiven,
     AccessGiven, StreamingGiven, SnapshotGiven, GeofenceGiven

-----------------------------------------------------------------------------
(* What the record may hold of a field, and how it is written.             *)
Said(f, v) ==
    /\ DOMAIN v = {"w", "form"} /\ v.form \in {"missing", "null", "lower", "caps", "chrgr"}
    /\ v.form \in {"missing", "null"} => v.w = ""
    /\ v.form = "chrgr" => f = "chargerStatus" /\ v.w # "signal_not_available"
    /\ f \in Both /\ HasValue(v) => v = Lower(v.w)

(* The ways a value is written that occur.                                 *)
LEMMA WordIsSaid ==
    ASSUME NEW f
    PROVE  /\ \A w : Said(f, Lower(w)) /\ (f \notin Both => Said(f, Caps(w)))
           /\ Said(f, Missing) /\ Said(f, NoValue)
BY DEF Said, Lower, Caps, Missing, NoValue, HasValue

(* What a decoder gives, and what a frame may report, is so written.       *)
LEMMA DecodedIsSaid ==
    ASSUME NEW f, NEW v \in Decoded(f)
    PROVE  Said(f, v)
<1>1. f \in DOMAIN DecodedKeys /\ v \in DecodedKeys[f]
  BY DEF Decoded
<1>2. v = Lower(v.w) \/ (f \notin Both /\ v = Caps(v.w))
  BY <1>1, DecodedRows DEF DecodedEntry
<1> QED
  BY <1>2, WordIsSaid

LEMMA ReportedIsSaid ==
    ASSUME NEW f, NEW v \in Reported(f)
    PROVE  Said(f, v)
<1>1. CASE v \in OnWords(f)
  <2>1. f \in DOMAIN BINARY_SENSORS /\ v \in BINARY_SENSORS[f].on
    BY <1>1 DEF OnWords
  <2>2. v = Lower(v.w)
    BY <2>1, BinaryRows DEF BinaryEntry
  <2> QED BY <2>2, WordIsSaid
<1>2. CASE \E w : v = Lower(w)
  BY <1>2, WordIsSaid
<1>3. CASE v = NoValue
  BY <1>3, WordIsSaid
<1>4. ASSUME NEW w \in ListedWords(f), v = [w |-> w, form |-> FormOf(f)]
      PROVE  Said(f, v)
  <2>1. CASE FormOf(f) = "lower"
    <3>1. v = Lower(w)
      BY <1>4, <2>1 DEF Lower
    <3> QED BY <3>1, WordIsSaid
  <2>2. CASE FormOf(f) = "caps"
    <3>1. v = Caps(w)
      BY <1>4, <2>2 DEF Caps
    <3>2. f = "otaStatus" \/ (f \in DOMAIN SENSORS /\ SENSORS[f].how = "level")
      BY <2>2 DEF FormOf
    <3>3. f \notin Both
      BY <3>2, SensorRows DEF SensorEntry, Both
    <3> QED BY <3>1, <3>3, WordIsSaid
  <2>3. CASE FormOf(f) \notin {"lower", "caps"}
    <3>1. f = "chargerStatus" /\ FormOf(f) = "chrgr"
      BY <2>3 DEF FormOf
    <3>2. f \in DOMAIN SENSORS /\ w \in SENSORS[f].options
      BY <3>1 DEF ListedWords
    <3>3. w # "signal_not_available"
      BY <3>1, <3>2, SensorRows DEF SensorEntry
    <3>4. f \notin Both
      BY <3>1 DEF Both
    <3> QED BY <1>4, <3>1, <3>3, <3>4 DEF Said, HasValue
  <2> QED BY <2>1, <2>2, <2>3
<1>5. CASE v \in Number
  <2>1. v = Lower("value")
    BY <1>5 DEF Number
  <2> QED BY <2>1, WordIsSaid
<1>6. \A W : v \in Lowers(W) => \E w : v = Lower(w)
  BY DEF Lowers
<1> QED
  BY <1>1, <1>2, <1>3, <1>4, <1>5, <1>6 DEF Reported

-----------------------------------------------------------------------------
(* A word that reads like an error code and is a value has the prefix      *)
(* chrgr_sts_; so it is the charger's.                                     *)
LEMMA ValidWord ==
    ASSUME NEW f, NEW v, Said(f, v), HasValue(v), ~IsInvalidState(v),
           v.w \in INVALID_SENSOR_STATES
    PROVE  f = "chargerStatus" /\ v.w # "signal_not_available"
BY DEF Said, HasValue, IsInvalidState

(* A title is as it is written, and hides only codes with blanks.          *)
LEMMA TitleIs ==
    \A w : /\ Title(w).w = w /\ Title(w).form = "title" /\ HasValue(Title(w))
           /\ Title(w) = [w |-> w, form |-> "title"]
           /\ w \in INVALID_SENSOR_STATES /\ ~IsInvalidState(Title(w)) =>
                 w = "signal_not_available"
BY DEF Title, HasValue, IsInvalidState

(* What is shown reads like an error code only if it stands for "".        *)
LEMMA ErrorsHide ==
    ASSUME NEW f, NEW row, NEW v, SensorEntry(f, row), Said(f, v)
    PROVE  NativeValue(row, v).w \in INVALID_SENSOR_STATES =>
               /\ v.w = ""
               /\ row.options # {} => /\ NativeValue(row, v).form = "title"
                                      /\ NativeValue(row, v).w \in row.options
<1> DEFINE r == NativeValue(row, v)
<1> SUFFICES ASSUME r.w \in INVALID_SENSOR_STATES
             PROVE  /\ v.w = ""
                    /\ row.options # {} => r.form = "title" /\ r.w \in row.options
  OBVIOUS
<1>1. NoValue.w \notin INVALID_SENSOR_STATES
  BY DEF NoValue, INVALID_SENSOR_STATES
<1>2. /\ HasValue(v) /\ ~IsInvalidState(v)
      /\ r = Transformed(row, v) /\ ~IsInvalidState(r)
  BY <1>1 DEF NativeValue
<1>3. v.w \in INVALID_SENSOR_STATES => row.how = "or else" /\ v.w # "signal_not_available"
  BY <1>2, ValidWord DEF SensorEntry
<1> HIDE DEF r
<1>4. CASE row.how = "or else"
  <2>1. r = Otherwise(v, row.empty)
    BY <1>2, <1>4 DEF Transformed
  <2>2. CASE v.w = ""
    <3>1. r = Title(row.empty)
      BY <2>1, <2>2 DEF Otherwise
    <3>2. row.empty = "signal_not_available" /\ r.w = row.empty /\ r.form = "title"
      BY <1>2, <3>1, TitleIs
    <3> QED BY <2>2, <3>2, <1>4 DEF SensorEntry
  <2>3. CASE v.w # ""
    <3>1. r = Title(v.w)
      BY <2>1, <2>3 DEF Otherwise, Titled
    <3>2. v.w = "signal_not_available"
      BY <1>2, <3>1, TitleIs
    <3> QED BY <1>3, <3>1, <3>2, TitleIs
  <2> QED BY <2>2, <2>3
<1>5. CASE row.how # "or else"
  <2>1. v.w \notin INVALID_SENSOR_STATES
    BY <1>3, <1>5
  <2>2. r.w \notin INVALID_SENSOR_STATES
    <3>1. CASE row.how = "as it is"
      BY <1>2, <2>1, <3>1 DEF Transformed
    <3>2. CASE row.how = "title"
      <4>1. r = v \/ r = Title(v.w)
        BY <1>2, <3>2 DEF Transformed, Titled
      <4> QED BY <4>1, <2>1, TitleIs
    <3>3. CASE row.how = "level"
      <4>1. r = LevelOrOff(v)
        BY <1>2, <3>3 DEF Transformed
      <4>2. CASE v.w = ""
        <5>1. r = Title("off")
          BY <4>1, <4>2 DEF LevelOrOff
        <5> QED BY <5>1, TitleIs DEF INVALID_SENSOR_STATES
      <4>3. CASE v.w # ""
        <5>1. r.w = v.w
          BY <4>1, <4>3 DEF LevelOrOff, Said
        <5> QED BY <5>1, <2>1
      <4> QED BY <4>2, <4>3
    <3>4. CASE row.how = "drive"
      <4>1. r = v \/ (v.w \in DOMAIN DRIVE_MODE_MAP /\ r = Title(DRIVE_MODE_MAP[v.w]))
        BY <1>2, <3>4 DEF Transformed
      <4>2. \A w \in DOMAIN DRIVE_MODE_MAP : DRIVE_MODE_MAP[w] \notin INVALID_SENSOR_STATES
        BY DEF DRIVE_MODE_MAP, INVALID_SENSOR_STATES
      <4> QED BY <4>1, <4>2, <2>1, TitleIs
    <3>5. CASE row.how = "gear"
      <4>1. \E w \in GEAR_STATUS_MAP : r = Title(w)
        <5>1. r = Title(IF v.w \in GEAR_STATUS_MAP THEN v.w ELSE "not_defined")
          BY <1>2, <3>5 DEF Transformed
        <5>2. "not_defined" \in GEAR_STATUS_MAP
          BY DEF GEAR_STATUS_MAP
        <5> QED BY <5>1, <5>2
      <4>2. \A w \in GEAR_STATUS_MAP : w \notin INVALID_SENSOR_STATES
        BY DEF GEAR_STATUS_MAP, INVALID_SENSOR_STATES
      <4> QED BY <4>1, <4>2, TitleIs
    <3>6. CASE row.how = "structure"
      <4>1. r = v \/ r = NoValue
        BY <1>2, <3>6 DEF Transformed, IfWellFormed
      <4> QED BY <4>1, <2>1, <1>1
    <3> QED BY <1>5, <3>1, <3>2, <3>3, <3>4, <3>5, <3>6 DEF SensorEntry, Hows
  <2> QED BY <2>2 DEF r
<1> QED
  BY <1>4, <1>5 DEF r

-----------------------------------------------------------------------------
(* An option that is appended is no error code.                            *)
LEMMA AppendedIsNoError ==
    ASSUME NEW f, NEW row, NEW v, SensorEntry(f, row), Said(f, v),
           NEW r \in NotListed(row, v)
    PROVE  r.w \notin INVALID_SENSOR_STATES /\ row.options # {}
BY ErrorsHide DEF NotListed

(* A sensor shows the word of an error only for a value that is empty.     *)
LEMMA ShownIsNoError ==
    ASSUME NEW f \in DOMAIN SENSORS, NEW v, Said(f, v)
    PROVE  NativeValue(SENSORS[f], v).w \in INVALID_SENSOR_STATES => v.w = ""
<1>1. SensorEntry(f, SENSORS[f])
  BY SensorRows
<1> QED
  BY <1>1, ErrorsHide

(* A field without a value appends nothing.                                *)
LEMMA MissingAddsNothing ==
    ASSUME NEW row
    PROVE  NotListed(row, Missing) = {}
<1>1. NativeValue(row, Missing) = NoValue /\ ~HasValue(NoValue)
  BY DEF NativeValue, HasValue, Missing, NoValue
<1> QED
  BY <1>1 DEF NotListed

(* The words that decoders give are written as the options are.            *)
LEMMA DecodersFit ==
    ASSUME NEW f \in DOMAIN SENSORS, f \notin Unfit, NEW v \in Decoded(f)
    PROVE  NotListed(SENSORS[f], v) = {}
<1> DEFINE row == SENSORS[f]
           r == NativeValue(row, v)
<1>1. SensorEntry(f, row)
  BY SensorRows
<1> HIDE DEF row
<1>2. CASE row.options = {}
  BY <1>2 DEF NotListed, row
<1>3. CASE row.options # {}
  <2>1. f \in EnumFields
    BY <1>1, <1>3 DEF SensorEntry
  <2>2. f \in DOMAIN DecodedKeys /\ v \in DecodedKeys[f]
    BY DEF Decoded
  <2>3. IF f \in Levels THEN v = Caps(v.w) /\ v.w \in LevelWords
        ELSE f \in DOMAIN Taken /\ v.w \in Taken[f]
    BY <2>1, <2>2, DecodedRows DEF DecodedEntry
  <2> SUFFICES ASSUME HasValue(v), ~IsInvalidState(v)
               PROVE  /\ Transformed(row, v).form = "title"
                      /\ Transformed(row, v).w \in row.options
    <3>1. r = NoValue \/ (HasValue(v) /\ ~IsInvalidState(v) /\ r = Transformed(row, v))
      BY DEF NativeValue
    <3>2. ~HasValue(NoValue)
      BY DEF NoValue, HasValue
    <3>3. NotListed(row, v) =
             {x \in {r} : HasValue(x) /\ row.options # {}
                             /\ ~(x.form = "title" /\ x.w \in row.options)}
      BY DEF NotListed
    <3> HIDE DEF r
    <3> QED BY <3>1, <3>2, <3>3 DEF row
  <2>4. CASE f \in Levels
    <3>1. row.how = "level" /\ row.options = LevelWords
      BY <1>1, <1>3, <2>4 DEF SensorEntry, Level, Row, LevelWords
    <3>2. Transformed(row, v) = LevelOrOff(v)
      BY <3>1 DEF Transformed
    <3>3. v.w # "" /\ v.form = "caps" /\ DOMAIN v = {"w", "form"}
      <4>1. \A w : Caps(w).form = "caps" /\ DOMAIN Caps(w) = {"w", "form"}
        BY DEF Caps
      <4>2. "" \notin LevelWords
        BY DEF LevelWords
      <4> QED BY <2>3, <2>4, <4>1, <4>2
    <3>4. Transformed(row, v) = [v EXCEPT !.form = "title"]
      BY <3>2, <3>3 DEF LevelOrOff
    <3>5. Transformed(row, v).form = "title" /\ Transformed(row, v).w = v.w
      BY <3>3, <3>4
    <3> QED BY <2>3, <2>4, <3>1, <3>5
  <2>5. CASE f \notin Levels
    <3>1. f \in DOMAIN Taken /\ v.w \in Taken[f] /\ v.w \in row.options
      BY <1>1, <1>3, <2>3, <2>5 DEF SensorEntry
    <3>2. v.w # "" /\ (f = "gearStatus" => v.w \in GEAR_STATUS_MAP) /\ f # "driveMode"
      <4>1. "" \notin Taken[f]
        <5>1. CASE f = "defrostDefogStatus"
          BY <5>1 DEF Taken
        <5>2. CASE f = "cabinPreconditioningStatus"
          BY <5>2 DEF Taken
        <5>3. CASE f = "petModeStatus"
          BY <5>3 DEF Taken
        <5>4. CASE f = "trailerStatus"
          BY <5>4 DEF Taken
        <5>5. CASE f = "gearStatus"
          BY <5>5 DEF Taken
        <5>6. CASE f = "otaStatus"
          BY <5>6 DEF Taken
        <5>7. CASE f = "powerState"
          BY <5>7 DEF Taken
        <5> QED BY <3>1, <5>1, <5>2, <5>3, <5>4, <5>5, <5>6, <5>7 DEF Taken
      <4>3. f # "driveMode"
        BY <3>1 DEF Taken
      <4>2. Taken["gearStatus"] \subseteq GEAR_STATUS_MAP
        BY DEF Taken, GEAR_STATUS_MAP
      <4> QED BY <3>1, <4>1, <4>2, <4>3
    <3>3. CASE f = "gearStatus"
      <4>1. row.how = "gear"
        BY <1>1, <1>3, <2>5, <3>3 DEF SensorEntry
      <4>2. Transformed(row, v) = Title(v.w)
        BY <3>2, <3>3, <4>1 DEF Transformed
      <4> QED BY <3>1, <4>2, TitleIs
    <3>4. CASE f # "gearStatus"
      <4>1. row.how \in {"title", "or else"}
        BY <1>1, <1>3, <2>5, <3>2, <3>4 DEF SensorEntry
      <4>2. Transformed(row, v) = Title(v.w)
        BY <3>2, <4>1 DEF Transformed, Titled, Otherwise
      <4> QED BY <3>1, <4>2, TitleIs
    <3> QED BY <3>3, <3>4
  <2> QED BY <2>4, <2>5
<1> QED
  BY <1>2, <1>3

(* A field that is a sensor and a binary sensor.                           *)
LEMMA BothTell ==
    ASSUME NEW f \in DOMAIN SENSORS, f \in DOMAIN BINARY_SENSORS, NEW v, Said(f, v)
    PROVE  LET b == IsOn(BINARY_SENSORS[f], v)
               s == NativeValue(SENSORS[f], v)
           IN  /\ b = "unknown" <=> ~HasValue(s)
               /\ b = "on" <=> Lower(s.w) \in BINARY_SENSORS[f].on
<1> DEFINE row == SENSORS[f]
           on == BINARY_SENSORS[f].on
           b == IsOn(BINARY_SENSORS[f], v)
           s == NativeValue(row, v)
<1>1. f \in BinaryFields /\ \A x \in on : x.w # "" /\ x.w # "unknown"
  BY BinaryRows DEF BinaryEntry
<1>2. f \in Both /\ row.how = "or else" /\ row.empty = "unknown"
  BY <1>1, SensorRows DEF SensorEntry
<1>3. Lower("") \notin on /\ Lower("unknown") \notin on
  <2>1. Lower("").w = "" /\ Lower("unknown").w = "unknown"
    BY DEF Lower
  <2> QED BY <1>1, <2>1
<1>4. \A x : IsOn(BINARY_SENSORS[f], x) =
             IF ~HasValue(x) \/ IsInvalidState(x) THEN "unknown"
             ELSE IF x \in on THEN "on" ELSE "off"
  BY DEF IsOn
<1> HIDE DEF on, row
<1>5. CASE ~HasValue(v) \/ IsInvalidState(v)
  <2>1. b = "unknown" /\ s = NoValue
    BY <1>4, <1>5 DEF NativeValue
  <2> HIDE DEF b, s
  <2>2. ~HasValue(s) /\ s.w = ""
    BY <2>1 DEF NoValue, HasValue
  <2> QED BY <1>3, <2>1, <2>2 DEF b, s, on, row
<1>6. CASE HasValue(v) /\ ~IsInvalidState(v)
  <2>1. v = Lower(v.w) /\ v.w \notin INVALID_SENSOR_STATES
    <3>1. v = Lower(v.w)
      BY <1>2, <1>6 DEF Said
    <3>2. v.form = "lower"
      BY <3>1 DEF Lower
    <3> QED BY <1>6, <3>1, <3>2 DEF IsInvalidState
  <2>2. Transformed(row, v) = Otherwise(v, "unknown")
    BY <1>2 DEF Transformed
  <2>3. CASE v.w = ""
    <3>1. Transformed(row, v) = Title("unknown")
      BY <2>2, <2>3 DEF Otherwise
    <3>2. ~IsInvalidState(Title("unknown"))
      BY DEF Title, IsInvalidState, INVALID_SENSOR_STATES
    <3>3. s = Title("unknown") /\ b # "unknown" /\ b # "on"
      BY <1>3, <1>4, <1>6, <2>1, <2>3, <3>1, <3>2 DEF NativeValue
    <3> HIDE DEF b, s
    <3> QED BY <1>3, <3>3, TitleIs DEF b, s, on, row
  <2>4. CASE v.w # ""
    <3>1. Transformed(row, v) = Title(v.w)
      BY <2>2, <2>4 DEF Otherwise, Titled
    <3>2. ~IsInvalidState(Title(v.w))
      BY <2>1, TitleIs DEF IsInvalidState
    <3>3. s = Title(v.w) /\ b = IF v \in on THEN "on" ELSE "off"
      BY <1>4, <1>6, <3>1, <3>2 DEF NativeValue
    <3>4. HasValue(s) /\ Lower(s.w) = v
      BY <2>1, <3>3, TitleIs
    <3> HIDE DEF b, s
    <3> QED BY <3>3, <3>4 DEF b, s, on, row
  <2> QED BY <2>3, <2>4
<1> QED
  BY <1>5, <1>6

-----------------------------------------------------------------------------
(* The aggregates and their members.                                       *)
LEMMA AggregatesAre ==
    /\ DOMAIN Aggregates = AggregateNames
    /\ Aggregates["locked_state"].of = LOCK_STATE_ENTITIES
    /\ Aggregates["door_state"].of = DOOR_STATE_ENTITIES
    /\ Aggregates["closure_state"].of = CLOSURE_STATE_ENTITIES
    /\ Aggregates["locked_state"].on = {Lower("unlocked")}
    /\ Aggregates["door_state"].on = {Lower("open"), Lower("opened")}
    /\ Aggregates["closure_state"].on = {Lower("open"), Lower("opened")}
<1>1. Unlocked.on = {Lower("unlocked")} /\ Opened.on = {Lower("open"), Lower("opened")}
  BY OnHas DEF Unlocked, Opened
<1> QED
  BY <1>1 DEF Aggregates, AggregateNames

(* Their members are locks, doors and closures.                            *)
LEMMA MembersAre ==
    ASSUME NEW a \in DOMAIN Aggregates, NEW f \in Aggregates[a].of
    PROVE  f \in LOCK_STATE_ENTITIES \cup DOOR_STATE_ENTITIES \cup CLOSURE_STATE_ENTITIES
BY AggregatesAre DEF AggregateNames

(* An aggregate's words are on for its members too, and but for a frunk    *)
(* that is ajar the members' for the aggregate.                            *)
LEMMA MemberOn ==
    ASSUME NEW a \in DOMAIN Aggregates, NEW f \in Aggregates[a].of, NEW v
    PROVE  /\ v \in Aggregates[a].on => IsOn(BINARY_SENSORS[f], v) = "on"
           /\ IsOn(BINARY_SENSORS[f], v) = "on" /\ v.w # "ajar" => v \in Aggregates[a].on
<1> DEFINE on == BINARY_SENSORS[f].on
<1>1. f \in DOMAIN BINARY_SENSORS
  BY MembersAre, MembersAreBinary
<1>2. BinaryEntry(f, BINARY_SENSORS[f])
  BY <1>1, BinaryRows
<1>3. /\ Aggregates[a].on \subseteq on
      /\ \A x \in on : x.w # "ajar" => x \in Aggregates[a].on
  <2>1. Lower("ajar").w = "ajar"
    BY DEF Lower
  <2>2. CASE a = "locked_state"
    BY <1>2, <2>2, AggregatesAre DEF BinaryEntry
  <2>3. CASE a = "door_state"
    BY <1>2, <2>3, AggregatesAre DEF BinaryEntry
  <2>4. CASE a = "closure_state"
    BY <1>2, <2>1, <2>4, AggregatesAre DEF BinaryEntry
  <2> QED BY <2>2, <2>3, <2>4, AggregatesAre DEF AggregateNames
<1>4. \A x \in on : HasValue(x) /\ ~IsInvalidState(x)
  <2>1. ASSUME NEW w, w \notin INVALID_SENSOR_STATES
        PROVE  HasValue(Lower(w)) /\ ~IsInvalidState(Lower(w))
    BY <2>1 DEF Lower, HasValue, IsInvalidState
  <2> QED BY <1>2, <2>1 DEF BinaryEntry
<1> QED
  BY <1>3, <1>4 DEF IsOn

-----------------------------------------------------------------------------
(* The inductive invariant.  A field is followed alone or with another     *)
(* member of an aggregate; before the subscription's first frame the       *)
(* record holds what decoders gave; what was appended is no error, and     *)
(* nothing is while decoders alone wrote fields that fit.                  *)
Followed ==
    /\ subject \in EntityFields \cup DOMAIN Aggregates
    /\ DOMAIN held \subseteq EntityFields
    /\ subject \in DOMAIN Aggregates => DOMAIN held \subseteq Aggregates[subject].of
    /\ subject \notin DOMAIN Aggregates => DOMAIN held \subseteq {subject}

HeldIsGiven ==
    /\ \A f \in DOMAIN held : held[f] \in {Missing} \cup Reported(f) \cup Decoded(f)
    /\ ~told => \A f \in DOMAIN held : held[f] \in {Missing} \cup Decoded(f)

AddedIsNoError ==
    /\ added # {} => \E f \in DOMAIN held : HasSensor(f) /\ SENSORS[f].options # {}
    /\ \A r \in added : r.w \notin INVALID_SENSOR_STATES
    /\ ~told /\ subject \notin Unfit => added = {}

SensorInv ==
    /\ Followed /\ HeldIsGiven /\ AddedIsNoError
    /\ owner \subseteq DOMAIN held /\ told \in BOOLEAN

(* No aggregate follows a field that decoders do not fit.                  *)
LEMMA FollowedFits ==
    ASSUME Followed, subject \notin Unfit
    PROVE  \A f \in DOMAIN held : f \notin Unfit
<1>1. CASE subject \in DOMAIN Aggregates
  <2>1. \A f \in DOMAIN held :
           f \in LOCK_STATE_ENTITIES \cup DOOR_STATE_ENTITIES \cup CLOSURE_STATE_ENTITIES
    BY <1>1, MembersAre DEF Followed
  <2> QED BY <2>1 DEF Unfit, LOCK_STATE_ENTITIES, DOOR_STATE_ENTITIES,
                      CLOSURE_STATE_ENTITIES
<1>2. CASE subject \notin DOMAIN Aggregates
  BY <1>2 DEF Followed
<1> QED
  BY <1>1, <1>2

(* Whatever the record holds is written in one of those ways.              *)
LEMMA GivenIsSaid ==
    ASSUME NEW f, NEW v \in {Missing} \cup Reported(f) \cup Decoded(f)
    PROVE  Said(f, v)
BY WordIsSaid, ReportedIsSaid, DecodedIsSaid

(* Reading the states appends no error, and nothing when all the values    *)
(* came from decoders that fit.                                            *)
LEMMA AddedBySound ==
    ASSUME NEW values,
           \A f \in DOMAIN held : values[f] \in {Missing} \cup Reported(f) \cup Decoded(f)
    PROVE  /\ \A r \in AddedBy(values) :
                 /\ r.w \notin INVALID_SENSOR_STATES
                 /\ \E f \in DOMAIN held : HasSensor(f) /\ SENSORS[f].options # {}
           /\ (\A f \in DOMAIN held :
                  f \notin Unfit /\ values[f] \in {Missing} \cup Decoded(f))
                 => AddedBy(values) = {}
<1>1. ASSUME NEW r \in AddedBy(values)
      PROVE  /\ r.w \notin INVALID_SENSOR_STATES
             /\ \E f \in DOMAIN held : HasSensor(f) /\ SENSORS[f].options # {}
  <2>1. PICK f \in DOMAIN held : HasSensor(f) /\ r \in NotListed(SENSORS[f], values[f])
    BY DEF AddedBy
  <2>2. f \in DOMAIN SENSORS /\ SensorEntry(f, SENSORS[f])
    BY <2>1, SensorRows DEF HasSensor
  <2>3. Said(f, values[f])
    BY GivenIsSaid
  <2> QED BY <2>1, <2>2, <2>3, AppendedIsNoError
<1>2. ASSUME \A f \in DOMAIN held :
                f \notin Unfit /\ values[f] \in {Missing} \cup Decoded(f)
      PROVE  AddedBy(values) = {}
  <2>1. ASSUME NEW f \in DOMAIN held, HasSensor(f)
        PROVE  NotListed(SENSORS[f], values[f]) = {}
    BY <1>2, <2>1, MissingAddsNothing, DecodersFit DEF HasSensor
  <2> QED BY <2>1 DEF AddedBy
<1> QED
  BY <1>1, <1>2

(* An entity starts without a value, and with nothing appended.            *)
LEMMA SensorInitInv == SensorInit => SensorInv
<1>1. ASSUME NEW s, NEW F, FollowInit(s, F), s \in EntityFields \cup DOMAIN Aggregates,
             F \subseteq EntityFields,
             s \in DOMAIN Aggregates => F \subseteq Aggregates[s].of,
             s \notin DOMAIN Aggregates => F \subseteq {s}
      PROVE  SensorInv
  BY <1>1 DEF FollowInit, SensorInv, Followed, HeldIsGiven, AddedIsNoError
<1>2. ASSUME NEW f \in EntityFields
      PROVE  f \notin DOMAIN Aggregates
  <2>1. f \in BinaryFields \cup AggregateNames => f \in Both \cup BinaryFields
    <3>1. CASE f \in DOMAIN SENSORS
      BY <3>1, SensorRows DEF SensorEntry
    <3>2. CASE f \in DOMAIN BINARY_SENSORS
      BY <3>2, BinaryRows DEF BinaryEntry
    <3> QED BY <3>1, <3>2 DEF EntityFields
  <2>2. AggregateNames \cap (Both \cup BinaryFields) = {}
    BY DEF AggregateNames, Both, BinaryFields, LOCK_STATE_ENTITIES, DOOR_STATE_ENTITIES,
           CLOSURE_STATE_ENTITIES
  <2> QED BY <2>1, <2>2, AggregatesAre
<1>3. ASSUME FieldInit(EntityFields)
      PROVE  SensorInv
  <2>1. PICK f \in EntityFields : FollowInit(f, {f})
    BY <1>3 DEF FieldInit
  <2> QED BY <2>1, <1>1, <1>2
<1>4. ASSUME AggregateInit
      PROVE  SensorInv
  <2>1. PICK a \in DOMAIN Aggregates : \E f, g \in Aggregates[a].of : FollowInit(a, {f, g})
    BY <1>4 DEF AggregateInit
  <2>2. PICK f \in Aggregates[a].of, g \in Aggregates[a].of : FollowInit(a, {f, g})
    BY <2>1
  <2>3. f \in EntityFields /\ g \in EntityFields
    BY MembersAre, MembersAreBinary DEF EntityFields
  <2> QED BY <2>2, <2>3, <1>1
<1> QED
  BY <1>3, <1>4 DEF SensorInit

(* A write of v into f, by either writer.                                  *)
LEMMA PublishKeeps ==
    ASSUME SensorInv, NEW f \in DOMAIN held, NEW v \in Reported(f) \cup Decoded(f),
           Publishes([held EXCEPT ![f] = KeepsOver(f, v)]),
           UNCHANGED <<subject, features>>,
           told' \in BOOLEAN, ~told' => ~told /\ v \in Decoded(f)
    PROVE  Followed' /\ HeldIsGiven' /\ AddedIsNoError' /\ DOMAIN held' = DOMAIN held
<1> DEFINE values == [held EXCEPT ![f] = KeepsOver(f, v)]
<1>1. /\ held' = values /\ added' = added \cup AddedBy(values)
      /\ DOMAIN values = DOMAIN held
      /\ values[f] = held[f] \/ values[f] = v
      /\ \A g \in DOMAIN held : g # f => values[g] = held[g]
  BY DEF Publishes, KeepsOver
<1> HIDE DEF values
<1>2. Followed'
  BY <1>1 DEF SensorInv, Followed
<1>3. \A g \in DOMAIN held : values[g] \in {Missing} \cup Reported(g) \cup Decoded(g)
  BY <1>1 DEF SensorInv, HeldIsGiven
<1>4. ~told' => \A g \in DOMAIN held : values[g] \in {Missing} \cup Decoded(g)
  BY <1>1 DEF SensorInv, HeldIsGiven
<1>5. HeldIsGiven'
  BY <1>1, <1>3, <1>4 DEF HeldIsGiven, Reported, Decoded
<1>6. \A g : HasSensor(g)' <=> HasSensor(g)
  BY DEF HasSensor, Supports
<1>7. added' # {} => \E g \in DOMAIN held' : HasSensor(g)' /\ SENSORS[g].options # {}
  BY <1>1, <1>3, <1>6, AddedBySound DEF SensorInv, AddedIsNoError
<1>8. \A r \in added' : r.w \notin INVALID_SENSOR_STATES
  BY <1>1, <1>3, AddedBySound DEF SensorInv, AddedIsNoError
<1>9. ~told' /\ subject \notin Unfit => added' = {}
  BY <1>1, <1>3, <1>4, AddedBySound, FollowedFits DEF SensorInv, AddedIsNoError
<1> QED
  BY <1>1, <1>2, <1>5, <1>7, <1>8, <1>9 DEF AddedIsNoError

(* Each step of the writers keeps the invariant.                           *)
LEMMA SensorStep == SensorInv /\ [SensorNext]_sensorVars => SensorInv'
<1> SUFFICES ASSUME SensorInv, [SensorNext]_sensorVars
             PROVE  SensorInv'
  OBVIOUS
<1>1. CASE Frame
  <2>0. PICK f \in DOMAIN held : \E v \in Reported(f) : FrameReports(f, v)
    BY <1>1 DEF Frame
  <2>1. PICK v \in Reported(f) : FrameReports(f, v)
    BY <2>0
  <2>2. Followed' /\ HeldIsGiven' /\ AddedIsNoError' /\ DOMAIN held' = DOMAIN held
    BY <2>1, PublishKeeps DEF FrameReports
  <2>3. owner' \subseteq DOMAIN held /\ told' \in BOOLEAN
    BY <2>1 DEF FrameReports, SensorInv
  <2> QED BY <2>2, <2>3 DEF SensorInv
<1>2. CASE Message
  <2>0. PICK f \in DOMAIN held : \E v \in Decoded(f) : MessageGives(f, v)
    BY <1>2 DEF Message
  <2>1. PICK v \in Decoded(f) : MessageGives(f, v)
    BY <2>0
  <2>2. Followed' /\ HeldIsGiven' /\ AddedIsNoError' /\ DOMAIN held' = DOMAIN held
    BY <2>1, PublishKeeps DEF MessageGives, SensorInv
  <2>3. owner' \subseteq DOMAIN held /\ told' \in BOOLEAN
    BY <2>1 DEF MessageGives, SensorInv
  <2> QED BY <2>2, <2>3 DEF SensorInv
<1>3. CASE UNCHANGED sensorVars
  BY <1>3 DEF sensorVars, SensorInv, Followed, HeldIsGiven, AddedIsNoError,
              HasSensor, Supports
<1> QED
  BY <1>1, <1>2, <1>3 DEF SensorNext

(* The invariant gives what the sensors tell.                              *)
LEMMA SensorInvTells == SensorInv => SensorsTell
<1> SUFFICES ASSUME SensorInv
             PROVE  SensorsTell
  OBVIOUS
<1>1. SensorTypeOK
  BY DEF SensorInv, Followed, HeldIsGiven, AddedIsNoError, SensorTypeOK
<1>2. ErrorCodeHidden
  <2>1. ASSUME NEW f \in DOMAIN held, HasSensor(f), Shown(f).w \in INVALID_SENSOR_STATES
        PROVE  held[f].w = ""
    <3>1. f \in DOMAIN SENSORS /\ Said(f, held[f])
      BY <2>1, GivenIsSaid DEF HasSensor, SensorInv, HeldIsGiven
    <3> QED BY <2>1, <3>1, ShownIsNoError DEF Shown
  <2> QED BY <2>1 DEF ErrorCodeHidden, SensorInv, AddedIsNoError
<1>3. PlatformsAgree
  <2>1. ASSUME NEW f \in DOMAIN held \cap DOMAIN SENSORS \cap DOMAIN BINARY_SENSORS
        PROVE  LET b == IsOn(BINARY_SENSORS[f], held[f])
               IN  /\ b = "unknown" <=> ~HasValue(Shown(f))
                   /\ b = "on" <=> Lower(Shown(f).w) \in BINARY_SENSORS[f].on
    <3>1. Said(f, held[f])
      BY GivenIsSaid DEF SensorInv, HeldIsGiven
    <3> QED BY <3>1, BothTell DEF Shown
  <2> QED BY <2>1 DEF PlatformsAgree
<1>4. AggregateTells
  <2> SUFFICES ASSUME subject \in DOMAIN Aggregates
               PROVE  LET on == {f \in DOMAIN held :
                                   IsOn(BINARY_SENSORS[f], held[f]) = "on"}
                      IN  /\ AggregateIsOn(subject) => on # {}
                          /\ (\E f \in on : held[f].w # "ajar") => AggregateIsOn(subject)
    BY DEF AggregateTells
  <2>1. DOMAIN held \subseteq Aggregates[subject].of
    BY DEF SensorInv, Followed
  <2>2. \A f \in DOMAIN held :
           /\ held[f] \in Aggregates[subject].on => IsOn(BINARY_SENSORS[f], held[f]) = "on"
           /\ IsOn(BINARY_SENSORS[f], held[f]) = "on" /\ held[f].w # "ajar"
                => held[f] \in Aggregates[subject].on
    BY <2>1, MemberOn
  <2>3. AggregateIsOn(subject) <=> \E f \in DOMAIN held : held[f] \in Aggregates[subject].on
    BY DEF AggregateIsOn, AnyOn
  <2> QED BY <2>2, <2>3
<1>5. DecodersFitOptions
  BY DEF SensorInv, AddedIsNoError, DecodersFitOptions, Unfit
<1> QED
  BY <1>1, <1>2, <1>3, <1>4, <1>5 DEF SensorsTell

(* What sensors, binary sensors and their aggregates show of a field is a  *)
(* value of it, the same for each, whichever writer gave it (native_value, *)
(* is_on and the decoders): for every field, every feature of the vehicle  *)
(* and every value.                                                        *)
THEOREM SensorsTellTheSame == SensorSpec => []SensorsTell
<1>1. SensorInit => SensorInv
  BY SensorInitInv
<1>2. SensorInv /\ [SensorNext]_sensorVars => SensorInv'
  BY SensorStep
<1>3. SensorInv => SensorsTell
  BY SensorInvTells
<1> QED
  BY <1>1, <1>2, <1>3, PTL DEF SensorSpec
=============================================================================
