--------------------------- MODULE NorthWindClient ---------------------------
(***************************************************************************)
(* The client of the partner bank NorthWind, one object that all           *)
(* goroutines of the process share: requests that start or poll transfers, *)
(* and the background verifications of external accounts.  It keeps an     *)
(* access token and asks for a new one when the token is about to expire.  *)
(*                                                                         *)
(* The mutex covers each look at the token, not the call to NorthWind in   *)
(* between: several callers may ask for a token at once, and their answers *)
(* may be stored in another order than they were given.                    *)
(*                                                                         *)
(* Tokens are numbered as NorthWind issues them; 0 is none.  A token is    *)
(* fresh while it has more than five minutes left by the client's clock.   *)
(*                                                                         *)
(* A request that NorthWind answers with 401 ends there, like every answer *)
(* below 500: the loop is left before its branch that would authenticate   *)
(* again, so no step models that branch.                                   *)
(***************************************************************************)
EXTENDS WorkerProcess

CONSTANTS
  PartnerCalls,  \* calls of the client
  RetryAttempts  \* config.RetryAttempts

ASSUME ClientAssumption == RetryAttempts \in Nat

VARIABLES
  enableAuth,  \* config.EnableAuth
  token,       \* the cached token
  issued,      \* tokens NorthWind has issued
  calls,       \* calls[c]: the makeRequest of caller c
  usable,      \* history: the tokens that were good for c since it began
  carried      \* history: the tokens c's requests were sent with

clientHistory == <<usable, carried>>
clientTables == <<enableAuth, token, issued, calls, clientHistory>>
clientVars == <<processVars, clientTables>>

NoToken == [number |-> 0, fresh |-> FALSE]

NoCall == [step |-> "idle", held |-> NoToken, attempt |-> 0]

(* main authenticates before it serves, and goes on when it cannot. *)
StartsWith(before, after, t) ==
  \/ after = before /\ t = NoToken
  \/ enableAuth /\ after = before + 1 /\ t = [number |-> after, fresh |-> TRUE]

ClientInit ==
  /\ ProcessInit
  /\ enableAuth \in BOOLEAN
  /\ issued \in 0..1
  /\ \E t \in {NoToken, [number |-> 1, fresh |-> TRUE]} : token = t /\ StartsWith(0, issued, t)
  /\ calls = [c \in PartnerCalls |-> NoCall]
  /\ usable = [c \in PartnerCalls |-> {}]
  /\ carried = [c \in PartnerCalls |-> {}]

OpenSteps == {"check", "authenticate", "ask", "store", "read", "send"}

Calling == {c \in PartnerCalls : calls[c].step \in OpenSteps}

GoOn(c, from, to) ==
  calls[c].step = from /\ calls' = [calls EXCEPT ![c].step = to]

(* The token can be used from now on, by the callers in C.                  *)
Grant(C, t) == usable' = [c \in PartnerCalls |-> usable[c] \cup (IF c \in C THEN {t} ELSE {})]

-----------------------------------------------------------------------------
(* VerifyAccount, InitiateTransfer or GetTransferStatus.  An answer whose   *)
(* body cannot be decoded is an error like any other.                       *)
CallPartner(c) ==
  /\ GoOn(c, "idle", "check")
  /\ UNCHANGED <<processVars, enableAuth, token, issued, clientHistory>>

-----------------------------------------------------------------------------
(* The token. *)

HasValidToken == token.number # 0 /\ token.fresh

(* getAccessToken looks whether there is one. *)
CheckToken(c) ==
  /\ GoOn(c, "check", IF HasValidToken THEN "read" ELSE "authenticate")
  /\ IF HasValidToken THEN Grant({c}, token.number) ELSE UNCHANGED usable
  /\ UNCHANGED <<processVars, enableAuth, token, issued, carried>>

(* Mutant: the old token is dropped before there is a new one. *)
AuthenticateAnew(c) ==
  /\ GoOn(c, "authenticate", IF ~enableAuth THEN "read" ELSE "ask")
  /\ token' = NoToken
  /\ UNCHANGED <<processVars, enableAuth, issued, clientHistory>>

(* Authenticate looks again before it asks. *)
Authenticate(c) ==
  /\ GoOn(c, "authenticate", IF ~enableAuth \/ HasValidToken THEN "read" ELSE "ask")
  /\ IF HasValidToken THEN Grant({c}, token.number) ELSE UNCHANGED usable
  /\ UNCHANGED <<processVars, enableAuth, token, issued, carried>>

(* NorthWind issues a token that lives for more than five minutes, or for   *)
(* less; or there is an error, or nothing is configured to ask with.        *)
RequestToken(c) ==
  /\ calls[c].step = "ask"
  /\ \/ /\ issued' = issued + 1
        /\ \E fresh \in BOOLEAN :
             calls' = [calls EXCEPT ![c] = [@ EXCEPT
               !.step = "store", !.held = [number |-> issued', fresh |-> fresh]]]
     \/ GoOn(c, "ask", "failed") /\ UNCHANGED issued
  /\ UNCHANGED <<processVars, enableAuth, token, clientHistory>>

StoreToken(c) ==
  /\ GoOn(c, "store", "read")
  /\ token' = calls[c].held
  /\ Grant(Calling, token'.number)
  /\ UNCHANGED <<processVars, enableAuth, issued, carried>>

(* getAccessToken returns what is there now, perhaps another caller's. *)
ReadToken(c) ==
  /\ calls[c].step = "read"
  /\ calls' = [calls EXCEPT ![c] = [@ EXCEPT !.step = "send", !.held = token]]
  /\ UNCHANGED <<processVars, enableAuth, token, issued, clientHistory>>

-----------------------------------------------------------------------------
(* The request, sent again after an answer of 500 or more, or none.  Then   *)
(* it may have been received; whether the body of a POST goes with it when  *)
(* it is sent again is up to the connection the HTTP library takes.         *)
makeRequest(c) ==
  /\ calls[c].step = "send"
  /\ carried' = [carried EXCEPT ![c] = @ \cup {calls[c].held.number}]
  /\ \/ \E end \in {"done", "failed"} : GoOn(c, "send", end)
     \/ /\ calls[c].attempt < RetryAttempts
        /\ calls' = [calls EXCEPT ![c].attempt = @ + 1]
  /\ UNCHANGED <<processVars, enableAuth, token, issued, usable>>

-----------------------------------------------------------------------------
(* Five minutes before its end a token is no longer fresh. *)
TokenAges ==
  /\ token.fresh /\ token' = [token EXCEPT !.fresh = FALSE]
  /\ UNCHANGED <<processVars, enableAuth, issued, calls, clientHistory>>

(* A crash takes the calls and the token with it, and main starts again. *)
DropCalls ==
  /\ calls' = [c \in PartnerCalls |->
                 IF c \in Calling THEN [calls[c] EXCEPT !.step = "killed"] ELSE calls[c]]
  /\ issued' \in {issued, issued + 1}
  /\ \E t \in {NoToken, [number |-> issued', fresh |-> TRUE]} :
       token' = t /\ StartsWith(issued, issued', t)
  /\ UNCHANGED <<enableAuth, clientHistory>>

CallStep(c) ==
  \/ CheckToken(c) \/ Authenticate(c) \/ RequestToken(c) \/ StoreToken(c)
  \/ ReadToken(c) \/ makeRequest(c)

ClientStep == TokenAges \/ \E c \in PartnerCalls : CallStep(c)

-----------------------------------------------------------------------------
(* Properties *)

(* While authentication is on, no request goes out without a token, or with *)
(* one that was neither fresh nor newly stored at any moment of its call:   *)
(* the token is checked, replaced and read under three locks, not one.      *)
RequestsCarryTokens ==
  enableAuth => \A c \in PartnerCalls : 0 \notin carried[c] /\ carried[c] \subseteq usable[c]
=============================================================================
