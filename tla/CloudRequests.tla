---------------------------- MODULE CloudRequests ----------------------------
(***************************************************************************)
(* The GraphQL client (rivian.py, __graphql_query and the document of      *)
(* get_user_information) under the coordinators that poll with it          *)
(* (coordinator.py, RivianDataUpdateCoordinator).  The server answers a    *)
(* request when it likes and with what it likes: data, a list of errors, a *)
(* status, or nothing.  A coordinator refreshes when its timer fires and   *)
(* when it is asked to (config_flow.py:89, button.py:236), so that two     *)
(* refreshes of one may overlap and their answers come in any order.       *)
(* Data is the version of the account it shows.  The coordinators share    *)
(* nothing of this but the tokens: a behaviour is the life of one.         *)
(***************************************************************************)
EXTENDS Naturals, FiniteSets, Sequences

CONSTANTS Refreshes,     \* refreshes that can be in flight at once
          MaxAccount,    \* bound: versions of the account
          MaxErrors,     \* bound: errors are told apart up to here
          Unknown        \* no data

ASSUME CloudAssumption ==
    /\ MaxAccount \in Nat /\ MaxErrors \in Nat \ {0}
    /\ Unknown \notin [version : 0..MaxAccount, codes : BOOLEAN]

VARIABLES
    poller,       \* the coordinator: of the user, of the supported features,
                  \* or of the wallboxes, when the account has none
    account,      \* the server: the version of the account
    tokens,       \* the server: the client's tokens are valid
    well,         \* the server: it answers every request properly from now on
    takesCodes,   \* the server: it knows the option-code fragment
    inFlight,     \* each refresh: its document, age and answer
    data,         \* coordinator.data: [version, codes], or Unknown
    errors,       \* coordinator._error_count
    success,      \* coordinator.last_update_success
    armed,        \* coordinator: the timer of its next poll is set
    optionCodes,  \* client._option_codes_available
    reauth,       \* the entry asks for a login, and the monitor is closed
    asOf,         \* history: the account when the refresh that ended last began
    apart         \* history: no two refreshes overlapped

serverVars == <<poller, account, tokens, well, takesCodes>>
pollVars   == <<data, errors, success, armed, optionCodes, reauth, asOf>>
cloudVars  == <<serverVars, inFlight, pollVars, apart>>

NoRefresh == [codes |-> FALSE, began |-> 0, answer |-> "idle", version |-> 0]

(* The ways a request ends: with data, with a response that lacks the key, *)
(* with one of the two exceptions that a caller treats apart, or with      *)
(* another: a timeout, a status, a body that is no JSON object, a limit.   *)
Outcomes == {"data", "missing", "GraphQL", "Unauthenticated", "failed"}

-----------------------------------------------------------------------------
(* The errors of a response, by code; "otp" and "limit" are the pairs of a *)
(* code and a reason that have an exception of their own, "unmapped" has   *)
(* none.                                                                   *)

Codes == {"otp", "limit", "RATE_LIMIT", "DATA_ERROR", "INTERNAL_SERVER_ERROR",
          "UNAUTHENTICATED", "unmapped"}

OtpIsUnauthenticated(code) ==   \* mutant: the code is looked up before the pair
    CASE code \in {"UNAUTHENTICATED", "otp"} -> "Unauthenticated"
      [] code = "INTERNAL_SERVER_ERROR" -> "GraphQL"
      [] OTHER                          -> "failed"

RefusalIsFailure(code) ==   \* mutant: refused tokens are like any failure
    IF code = "INTERNAL_SERVER_ERROR" THEN "GraphQL" ELSE "failed"

(* ERROR_CODE_CLASS_MAP, as far as callers tell the classes apart.         *)
ErrorClass(code) ==
    CASE code = "UNAUTHENTICATED"       -> "Unauthenticated"
      [] code = "INTERNAL_SERVER_ERROR" -> "GraphQL"
      [] OTHER                          -> "failed"

(* What __graphql_query raises of a list of errors: the class of the first *)
(* that has one.                                                           *)
Raised(list) ==
    LET known == {i \in DOMAIN list : list[i] # "unmapped"} IN
    IF known = {} THEN "GraphQL"
    ELSE ErrorClass(list[CHOOSE i \in known : \A j \in known : i <= j])

(* What any lists of one or two such errors may raise.                     *)
RaisedOf(codes) == {Raised(list) : list \in codes \X codes}

Refusals    == RaisedOf(Codes)
Complaints  == RaisedOf(Codes \ {"UNAUTHENTICATED"})   \* of valid tokens

-----------------------------------------------------------------------------
CloudTypeOK ==
    /\ poller \in {"user", "features", "wallboxes"} /\ account \in 0..MaxAccount
    /\ {tokens, well, takesCodes, reauth, apart, optionCodes, success, armed} \subseteq BOOLEAN
    /\ inFlight \in [Refreshes ->
          [codes : BOOLEAN, began : 0..MaxAccount, version : 0..MaxAccount,
           answer : Outcomes \cup {"idle", "none"}]]
    /\ data # Unknown => data \in [version : 0..MaxAccount, codes : BOOLEAN]
    /\ errors \in 0..MaxErrors /\ asOf \in 0..MaxAccount
    /\ success => data # Unknown

(* After setup: the first refresh has succeeded, or the coordinator is one *)
(* whose first refresh may fail (__init__.py:202).                         *)
CloudInit ==
    /\ poller \in {"user", "features", "wallboxes"}
    /\ account = 0 /\ tokens = TRUE /\ well \in BOOLEAN /\ takesCodes \in BOOLEAN
    /\ inFlight = [r \in Refreshes |-> NoRefresh]
    /\ optionCodes = takesCodes /\ reauth = FALSE
    /\ \/ /\ data = [version |-> 0, codes |-> poller = "user" /\ takesCodes]
          /\ success = TRUE /\ errors = 0
       \/ poller = "features" /\ data = Unknown /\ success = FALSE /\ errors = 1
    /\ armed = TRUE /\ asOf = 0 /\ apart = TRUE

-----------------------------------------------------------------------------
(* The server and the account.                                             *)

AccountChanges ==
    /\ account < MaxAccount /\ account' = account + 1
    /\ UNCHANGED <<poller, tokens, well, takesCodes, inFlight, pollVars, apart>>

ServerChanges ==
    /\ \/ tokens /\ tokens' = FALSE /\ UNCHANGED well
       \/ ~well /\ well' = TRUE /\ UNCHANGED tokens
    /\ UNCHANGED <<poller, account, takesCodes, inFlight, pollVars, apart>>

(* How the server may answer a request: as it should, or when it is not    *)
(* well in any way that does not refuse valid tokens.                      *)
Answers(r) ==
    LET codes == inFlight[r].codes
        proper == IF ~tokens THEN Raised(<<"UNAUTHENTICATED">>)
                  ELSE IF codes /\ ~takesCodes THEN Raised(<<"unmapped">>)
                  ELSE "data"
        wrong == {"missing", "failed"} \cup (IF tokens THEN Complaints ELSE Refusals) IN
    /\ inFlight[r].answer = "none"
    /\ \E a \in {proper} \cup (IF well THEN {} ELSE wrong) :
          inFlight' = [inFlight EXCEPT
              ![r].answer = IF a = "GraphQL" /\ ~codes THEN "failed" ELSE a,
              ![r].version = IF a = "data" THEN account ELSE 0]
    /\ UNCHANGED <<serverVars, pollVars, apart>>

-----------------------------------------------------------------------------
(* A refresh.                                                              *)

(* DataUpdateCoordinator: the timer, if one is set, is cancelled; then     *)
(* _fetch_data sends its request, getUserInfo with the option codes first. *)
Begins(r) ==
    /\ inFlight[r] = NoRefresh
    /\ inFlight' = [inFlight EXCEPT ![r] =
          [codes |-> poller = "user", began |-> account, answer |-> "none", version |-> 0]]
    /\ armed' = FALSE
    /\ apart' = (apart /\ \A q \in Refreshes : inFlight[q] = NoRefresh)
    /\ UNCHANGED <<serverVars, data, errors, success, optionCodes, reauth, asOf>>

TimerFires == armed /\ \E r \in Refreshes : Begins(r)

IsAsked == ~armed /\ ~reauth /\ \E r \in Refreshes : Begins(r)

(* The request has been answered.  A getUserInfo that is rejected for its  *)
(* contents is sent once more without the option codes.                    *)
GivesUpNever(r) == FALSE   \* mutant: a rejected document is not sent again

SendsAgain(r) == inFlight[r].codes /\ inFlight[r].answer = "GraphQL"

FlagKept(r) == optionCodes   \* mutant: a rejection is not remembered

(* The flag is set when the document with the option codes succeeds, and   *)
(* cleared before the other is sent.                                       *)
FlagAfter(r) ==
    CASE inFlight[r].codes /\ inFlight[r].answer = "GraphQL" -> FALSE
      [] inFlight[r].codes /\ inFlight[r].answer \in {"data", "missing"} -> TRUE
      [] OTHER -> optionCodes

Retries(r) ==
    /\ SendsAgain(r)
    /\ inFlight' = [inFlight EXCEPT ![r].codes = FALSE, ![r].answer = "none", ![r].version = 0]
    /\ optionCodes' = FlagAfter(r)
    /\ UNCHANGED <<serverVars, data, errors, success, armed, reauth, asOf, apart>>

Uncounted(n) == n   \* mutant: a failure that keeps the data is not counted

OneMore(n) == IF n < MaxErrors THEN n + 1 ELSE n

SucceedsAnyway(a) == a \in {"data", "failed"}   \* mutant: None is kept as well

(* A failure succeeds if there is data to keep; the wallboxes, of which    *)
(* there are none, are not kept.                                           *)
Succeeds(a) ==
    a = "data" \/ (a = "failed" /\ data # Unknown /\ poller # "wallboxes")

(* _async_update_data, and what DataUpdateCoordinator makes of its result: *)
(* a failure is counted, and the data there is stands for the answer.  The *)
(* intervals are SLOW_POLL_SECONDS and _set_update_interval compares with  *)
(* the class's own, so that no error changes one.                          *)
Ends(r) ==
    LET a == inFlight[r].answer IN
    /\ a \in Outcomes /\ ~SendsAgain(r)
    /\ inFlight' = [inFlight EXCEPT ![r] = NoRefresh]
    /\ optionCodes' = FlagAfter(r)
    /\ data' = IF a # "data" THEN data
               ELSE [version |-> inFlight[r].version, codes |-> inFlight[r].codes]
    /\ errors' = CASE a \in {"data", "missing"} -> 0
                   [] a = "Unauthenticated"     -> errors
                   [] OTHER                     -> OneMore(errors)
    /\ success' = Succeeds(a)
    /\ armed' = (a # "Unauthenticated")
    /\ reauth' = (reauth \/ a = "Unauthenticated")
    /\ asOf' = inFlight[r].began
    /\ UNCHANGED <<serverVars, apart>>

CloudNext ==
    \/ AccountChanges \/ ServerChanges
    \/ TimerFires \/ IsAsked
    \/ \E r \in Refreshes : Answers(r) \/ Retries(r) \/ Ends(r)

CloudSpec == CloudInit /\ [][CloudNext]_cloudVars

(* The timers run, and a request is answered or times out.                 *)
CloudFairness ==
    /\ WF_cloudVars(TimerFires)
    /\ \A r \in Refreshes : WF_cloudVars(Answers(r) \/ Retries(r) \/ Ends(r))

-----------------------------------------------------------------------------
(* A coordinator that reports success and counts no error shows data that  *)
(* is no older than the start of the refresh that ended last, in whatever  *)
(* order answers come and however refreshes overlap: data kept over a      *)
(* failure always shows as an error counted (_async_update_data).          *)
CurrentIsRecent ==
    success /\ errors = 0 => data.version >= asOf

(* When no refreshes of the user's data have overlapped and none is under  *)
(* way, the flag of the diagnostics tells whether that data, if current,   *)
(* was asked for with its option codes (get_user_information).             *)
FlagTells ==
    (/\ poller = "user" /\ apart /\ \A r \in Refreshes : inFlight[r] = NoRefresh
     /\ success /\ errors = 0)
    => optionCodes = data.codes

(* The owner is asked to log in, and the monitor closed, only when the     *)
(* server has refused the tokens (__graphql_query, the order of its tests).*)
ReauthMeansRefused == reauth => ~tokens

(* Once the server is well, the coordinator comes to show the account as   *)
(* it is or newer, as long as the tokens are valid, even if its document   *)
(* is rejected with the option codes (get_user_information's retry).       *)
Recovers ==
    \A v \in 1..MaxAccount :
        (well /\ account >= v) ~> (~tokens \/ (data # Unknown /\ data.version >= v))

(* Once the server is well, a client whose tokens have lapsed comes to ask *)
(* for a login (_async_update_data, RivianUnauthenticated).                *)
LapseNoticed == (well /\ ~tokens) ~> reauth

(* What a coordinator says of its requests is so: current data is recent,  *)
(* the flag tells what was asked for, and only a refusal asks for a login. *)
CloudTells ==
    /\ CloudTypeOK
    /\ CurrentIsRecent
    /\ FlagTells
    /\ ReauthMeansRefused

(* Once the server is well, each coordinator comes to current data or to a *)
(* login.                                                                  *)
CloudHeals ==
    /\ Recovers
    /\ LapseNoticed
=============================================================================
