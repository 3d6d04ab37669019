------------------------ MODULE ControllerSessions ------------------------
(***************************************************************************)
(* The login sessions of the controller: the organization login with its   *)
(* pending state, nonce and PKCE verifier, the callback, the logout, and   *)
(* the pages and API calls that read the identity a login left in the      *)
(* session.  The session layer gives each request a copy of its session    *)
(* and stores the copy at the end of the response, so requests of one      *)
(* browser work on copies of different ages.                               *)
(***************************************************************************)
EXTENDS Options

CONSTANTS
    SeBrowsers,
    SeCalls,         \* the requests made
    SeScripts,       \* what they ask for: request -> [kind, browser]
    SeMaxLogins,     \* how many logins are begun
    SeAnswers        \* what the provider's token endpoint may answer to a code

VARIABLES
    seStore,         \* session id -> its record, or None
    seCookie,        \* browser -> the session id of its cookie, or None
    seBegun,         \* login -> the browser that began it
    seCodes,         \* logins the provider issued a code for, not redeemed yet
    seCall,          \* request -> where it is
    seNow,           \* whether the identities' expiry has passed
    seFlushed        \* session id -> the requests that held a copy when it was flushed
seVars == <<seStore, seCookie, seBegun, seCodes, seCall, seNow, seFlushed>>

SeIds == 1..Cardinality(SeCalls)
EmptyRecord == [pending |-> None, identity |-> None]

-----------------------------------------------------------------------------
(* Identities.                                                             *)

Grants(role, permission) ==
    CASE role = "administrator"    -> TRUE
      [] role = "viewer"           -> permission = "FleetRead"
      [] role = "operator"         -> permission \in {"FleetRead", "JobsWrite"}
      [] role = "enrollment_admin" -> permission \in {"FleetRead", "EnrollmentManage"}

\* mapped_roles: a string names one role, an array its strings, an object its keys.
MappedRoles(claim, mapping) ==
    LET values == CASE claim.kind = "string" -> {claim.value}
                    [] claim.kind \in {"array", "object"} -> claim.value
                    [] OTHER -> {}
    IN  {mapping[v] : v \in values \cap DOMAIN mapping}

\* verified_id_token_claims, after the signature, the issuer and the nonce.
VerifiedIdTokenClaims(a) ==
    /\ a.verified
    /\ IF a.azp # None THEN a.azp = "this_client" ELSE a.audiences <= 1

\* complete_login once the code is exchanged: the status of a refusal, or 303.
CompleteLoginStatus(a) ==
    IF ~a.id_token \/ ~VerifiedIdTokenClaims(a) \/ a.access_token_hash = "other" THEN 401
    ELSE IF MappedRoles(a.claim, a.mapping) = {} THEN 403 ELSE 303

-----------------------------------------------------------------------------
SeRequest(at, q, id, login, code) ==
    [at |-> at, kind |-> q.kind, browser |-> q.browser, id |-> id, was |-> id, login |-> login,
     code |-> code, rec |-> EmptyRecord, modified |-> FALSE, status |-> 0]

SeStart(w) ==
    /\ seStore = [i \in SeIds |-> None]
    /\ seCookie = [b \in SeBrowsers |-> None]
    /\ seBegun = <<>> /\ seCodes = {}
    /\ seCall = [c \in SeCalls |-> SeRequest("unused", w[c], None, None, None)]
    /\ seNow = FALSE
    /\ seFlushed = [i \in SeIds |-> {}]

SeInit == \E w \in SeScripts : SeStart(w)

SeAt(c, at) == seCall[c].at = at
Holding(i) == {c \in SeCalls : seCall[c].at \in {"exchange", "cycle", "save"} /\ seCall[c].id = i}
Fresh == {i \in SeIds : /\ seStore[i] = None /\ seFlushed[i] = {} /\ \A b \in SeBrowsers : seCookie[b] # i
                        /\ \A c \in SeCalls : i \notin {seCall[c].id, seCall[c].was}}

\* A browser sends a request with the cookie it has.
SeSend(c, login, code) ==
    /\ LET q == seCall[c] IN
         seCall' = [seCall EXCEPT ![c] = SeRequest(q.kind, q, seCookie[q.browser], login, code)]
    /\ UNCHANGED <<seStore, seCookie, seBegun, seCodes, seNow, seFlushed>>

\* The session layer reads the record when the handler first asks for it; an id the
\* store does not know is forgotten.
Loaded(c) == LET i == seCall[c].id IN
               IF i = None \/ (i # None /\ seStore[i] = None) THEN [id |-> None, rec |-> EmptyRecord]
               ELSE [id |-> i, rec |-> seStore[i]]
Answers(c, s, rec, modified, status) ==
    seCall' = [seCall EXCEPT ![c].at = "save", ![c].id = s.id, ![c].rec = rec,
                             ![c].modified = modified, ![c].status = status]
\* Session::flush: the row goes at once.
Flush(c, s, status) ==
    /\ seStore' = IF s.id = None THEN seStore ELSE [seStore EXCEPT ![s.id] = None]
    /\ seFlushed' = IF s.id = None THEN seFlushed
                    ELSE [seFlushed EXCEPT ![s.id] = @ \cup {c} \cup Holding(s.id)]
    /\ Answers(c, [id |-> None], EmptyRecord, TRUE, status)

\* begin_login: a state, a nonce and a verifier of its own, named by its number.
BeginLogin(browser) == Append(seBegun, browser)

Login(c) ==
    /\ SeAt(c, "login")
    /\ LET s == Loaded(c)
           l == Len(seBegun) + 1
       IN  /\ Len(seBegun) < SeMaxLogins
           /\ seBegun' = BeginLogin(seCall[c].browser)
           /\ Answers(c, s, [s.rec EXCEPT !.pending = l], TRUE, 303)
    /\ UNCHANGED <<seStore, seCookie, seCodes, seNow, seFlushed>>

\* The callback takes the pending login out of its copy before it looks at the state.
Callback(c) ==
    /\ SeAt(c, "callback")
    /\ LET s == Loaded(c)
           q == seCall[c]
           taken == [s.rec EXCEPT !.pending = None]
       IN  IF q.login = Err \/ s.rec.pending = None THEN Answers(c, s, s.rec, FALSE, 401)
           ELSE IF q.login # s.rec.pending \/ q.code = None THEN Answers(c, s, taken, TRUE, 401)
           ELSE seCall' = [seCall EXCEPT ![c].at = "exchange", ![c].id = s.id, ![c].rec = taken,
                                         ![c].modified = TRUE]
    /\ UNCHANGED <<seStore, seCookie, seBegun, seCodes, seNow, seFlushed>>

\* The token endpoint redeems a code once, for the verifier of the login it was issued for.
CompleteLogin(c) ==
    /\ SeAt(c, "exchange")
    /\ LET q == seCall[c] IN
         IF q.code # q.login \/ q.code \notin seCodes
         THEN Answers(c, q, q.rec, TRUE, 401) /\ UNCHANGED seCodes
         ELSE /\ seCodes' = seCodes \ {q.code}
              /\ \E a \in SeAnswers :
                   IF CompleteLoginStatus(a) # 303
                   THEN Answers(c, q, q.rec, TRUE, CompleteLoginStatus(a))
                   ELSE seCall' = [seCall EXCEPT ![c].at = "cycle", ![c].rec.identity =
                          [login |-> q.login, roles |-> MappedRoles(a.claim, a.mapping)]]
    /\ UNCHANGED <<seStore, seCookie, seBegun, seNow, seFlushed>>

\* cycle_id removes the old row; the identity is stored under a new id.
CycleId(c) ==
    /\ SeAt(c, "cycle")
    /\ LET i == seCall[c].id IN
         seStore' = IF i = None THEN seStore ELSE [seStore EXCEPT ![i] = None]
    /\ Answers(c, [id |-> None], seCall[c].rec, TRUE, 303)
    /\ UNCHANGED <<seCookie, seBegun, seCodes, seNow, seFlushed>>

\* Fault for the mutant of FlushedComesBackOnlyByCopy: the row stays.
LogoutKeepsRow(c) ==
    /\ SeAt(c, "logout")
    /\ LET s == Loaded(c) IN
         /\ seFlushed' = IF s.id = None THEN seFlushed ELSE [seFlushed EXCEPT ![s.id] = {c}]
         /\ Answers(c, [id |-> None], EmptyRecord, TRUE, 303)
    /\ UNCHANGED <<seStore, seCookie, seBegun, seCodes, seNow>>
Logout(c) ==
    /\ SeAt(c, "logout")
    /\ Flush(c, Loaded(c), 303)
    /\ UNCHANGED <<seCookie, seBegun, seCodes, seNow>>

\* from_session and require, for an operation that needs EnrollmentManage.
FromSession(c) ==
    /\ SeAt(c, "page")
    /\ LET s == Loaded(c) IN
         IF s.rec.identity = None THEN Answers(c, s, s.rec, FALSE, 401) /\ UNCHANGED <<seStore, seFlushed>>
         ELSE IF seNow THEN Flush(c, s, 401)
         ELSE /\ Answers(c, s, s.rec, FALSE,
                   IF \E r \in s.rec.identity.roles : Grants(r, "EnrollmentManage") THEN 200 ELSE 403)
              /\ UNCHANGED <<seStore, seFlushed>>
    /\ UNCHANGED <<seCookie, seBegun, seCodes, seNow>>

\* The session layer at the end of the response: an empty session without an id
\* clears the cookie, a modified one is stored, under a new id if it has none.
SaveSession(c) ==
    /\ SeAt(c, "save")
    /\ LET q == seCall[c]
           empty == q.id = None /\ q.rec = EmptyRecord
           id == IF q.id = None THEN CHOOSE i \in Fresh : TRUE ELSE q.id
       IN  IF q.was # None /\ empty
           THEN seCall' = [seCall EXCEPT ![c].at = "clear"] /\ UNCHANGED seStore
           ELSE IF q.modified /\ ~empty
           THEN /\ seStore' = [seStore EXCEPT ![id] = q.rec]
                /\ seCall' = [seCall EXCEPT ![c].at = "set", ![c].id = id]
           ELSE seCall' = [seCall EXCEPT ![c].at = "plain"] /\ UNCHANGED seStore
    /\ UNCHANGED <<seCookie, seBegun, seCodes, seNow, seFlushed>>

\* The browser takes the response, with the cookie it carries.
Receive(c) ==
    /\ seCall[c].at \in {"clear", "set", "plain"}
    /\ LET q == seCall[c] IN
         seCookie' = CASE q.at = "clear" -> [seCookie EXCEPT ![q.browser] = None]
                       [] q.at = "set"   -> [seCookie EXCEPT ![q.browser] = q.id]
                       [] OTHER          -> seCookie
    /\ seCall' = [seCall EXCEPT ![c].at = "done"]
    /\ UNCHANGED <<seStore, seBegun, seCodes, seNow, seFlushed>>

\* The timeout layer drops the handler and the session layer with it.
SessionTimeout(c) ==
    /\ seCall[c].at \in {"exchange", "cycle", "save"}
    /\ seCall' = [seCall EXCEPT ![c].at = "plain", ![c].status = 408]
    /\ UNCHANGED <<seStore, seCookie, seBegun, seCodes, seNow, seFlushed>>

\* The provider authenticates the user of a login whose redirect arrived.
ProviderIssues ==
    /\ \E c \in SeCalls : /\ SeAt(c, "done") /\ seCall[c].kind = "login" /\ seCall[c].status = 303
                          /\ seCall[c].rec.pending \notin seCodes
                          /\ \A d \in SeCalls : seCall[d].code # seCall[c].rec.pending
                          /\ seCodes' = seCodes \cup {seCall[c].rec.pending}
    /\ UNCHANGED <<seStore, seCookie, seBegun, seCall, seNow, seFlushed>>

IdentityExpires == /\ ~seNow /\ seNow' = TRUE
                   /\ UNCHANGED <<seStore, seCookie, seBegun, seCodes, seCall, seFlushed>>

\* What a browser may ask for: the callback URL carries a state and a code, an error,
\* or lacks one of them.
SendNext(c) ==
    /\ SeAt(c, "unused")
    /\ \/ seCall[c].kind # "callback" /\ SeSend(c, None, None)
       \/ /\ seCall[c].kind = "callback"
          /\ \/ \E l \in seCodes : SeSend(c, l, l) \/ SeSend(c, l, None) \/ SeSend(c, None, l)
             \/ DOMAIN seBegun # {} /\ SeSend(c, Err, None)

SeNext ==
    \/ ProviderIssues \/ IdentityExpires
    \/ \E c \in SeCalls :
          \/ SendNext(c) \/ Login(c) \/ Callback(c) \/ CompleteLogin(c) \/ CycleId(c)
          \/ Logout(c) \/ FromSession(c) \/ SaveSession(c) \/ Receive(c) \/ SessionTimeout(c)
SeSpec == SeInit /\ [][SeNext]_seVars

-----------------------------------------------------------------------------
(* Properties.                                                             *)

\* A session that was logged out, or flushed when its identity expired, comes back
\* only through a request that already held a copy of it at that moment.
FlushedComesBackOnlyByCopy ==
    \A i \in SeIds :
        seFlushed[i] # {} /\ seStore[i] # None =>
            \E c \in seFlushed[i] : seCall[c].at \in {"set", "done"} /\ seCall[c].id = i
=============================================================================
