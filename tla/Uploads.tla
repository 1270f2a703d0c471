------------------------------- MODULE Uploads -------------------------------
(***************************************************************************)
(* Uploads over HTTP: the "orpc-http" strategy of orpc-ws-client, the      *)
(* upload handler of orpc-ws-server, and what a rejected token sets off.   *)
(*                                                                         *)
(* The client's recovery is the part of tryAuthRecovery() an upload can    *)
(* reach, without the WebSocket around it (see ReconnectManager).  The     *)
(* server's verifyClient, beforeUpload, procedures, the middleware after   *)
(* the handler and the network are external.                               *)
(***************************************************************************)
EXTENDS Naturals

CONSTANTS
  Requests,     \* calls of client.upload()
  MaxRotations  \* bound: refreshed tokens

ASSUME BoundAssumption == MaxRotations \in Nat

NoToken == 0
Tokens  == 1 .. (MaxRotations + 1)

VARIABLES
  token,       \* the current token, counted
  accepted,    \* the oldest token the server accepts
  dead,        \* the client is disposed of, kicked or logged out
  recovering,  \* a refresh is in flight
  window,      \* the storm window: "closed", or opened by a "routine" or an "auth"
               \* refresh
  loggedOut,   \* a terminal auth failure was reported
  upload,      \* the client's promise: "none", "pending", "resolved", "rejected"
  sent,        \* the token in the request's header
  stage,       \* the request at the server: "none", "verifying", "gating",
               \* "handling", "done"
  reply,       \* what was written as its response: "none", "200", "401", "403",
               \* "404", "500", "cut" (begun and ended early)
  body,        \* its body: "inbound", "read", "destroyed"
  stripped,    \* requests whose URL fields lost the mount prefix
  express,     \* the handler is mounted with a next() (fixed)
  passed       \* requests handed to next()

uploaderVars == <<token, dead, recovering, window, loggedOut, upload, sent>>
handlerVars  == <<stage, reply, body, stripped, passed>>
httpVars     == <<uploaderVars, accepted, express, handlerVars>>

HttpInit ==
  /\ token = 1 /\ accepted = 1
  /\ dead = FALSE
  /\ recovering = FALSE /\ window = "closed" /\ loggedOut = FALSE
  /\ upload = [r \in Requests |-> "none"]
  /\ sent = [r \in Requests |-> NoToken]
  /\ stage = [r \in Requests |-> "none"]
  /\ reply = [r \in Requests |-> "none"]
  /\ body = [r \in Requests |-> "inbound"]
  /\ stripped = {}
  /\ express \in BOOLEAN
  /\ passed = {}

-----------------------------------------------------------------------------
(***************************************************************************)
(* The client.                                                             *)
(***************************************************************************)

\* client.upload(): a dead client does no I/O; the header carries the token of
\* the moment.
Upload(r) ==
  /\ upload[r] = "none"
  /\ IF dead
     THEN upload' = [upload EXCEPT ![r] = "rejected"] /\ UNCHANGED <<sent, stage>>
     ELSE /\ upload' = [upload EXCEPT ![r] = "pending"]
          /\ sent' = [sent EXCEPT ![r] = token]
          /\ stage' = [stage EXCEPT ![r] = "verifying"]
  /\ UNCHANGED <<token, accepted, express, dead, recovering, window, loggedOut, reply,
                 body, stripped, passed>>

\* notifyUploadAuthFailure: nothing on a dead client or while a refresh is in
\* flight; a second failure within the window is terminal.
Recovers ==
  CASE dead \/ recovering -> UNCHANGED <<dead, recovering, window, loggedOut>>
    [] ~dead /\ ~recovering /\ window = "auth" ->
         dead' = TRUE /\ loggedOut' = TRUE /\ UNCHANGED <<recovering, window>>
    [] ~dead /\ ~recovering /\ window # "auth" ->
         recovering' = TRUE /\ window' = "auth" /\ UNCHANGED <<dead, loggedOut>>

Settles(r, evidence) ==
  /\ upload[r] = "pending"
  /\ reply[r] # "none"
  /\ upload' = [upload EXCEPT ![r] = IF reply[r] = "200" THEN "resolved" ELSE "rejected"]
  /\ IF reply[r] = "401" /\ evidence THEN Recovers
     ELSE UNCHANGED <<dead, recovering, window, loggedOut>>
  /\ UNCHANGED <<token, sent, accepted, express, handlerVars>>

\* Mutant: every 401 counts, also one for a token that was replaced since.
FetchReturnsToAny(r) == Settles(r, TRUE)

\* The strategy's fetch returns: a 401 is acted on only if the rejected token
\* is still the current one, and the upload fails to its caller either way.
FetchReturns(r) == Settles(r, sent[r] = token)

\* The refresh in flight succeeds.
Refreshes ==
  /\ recovering
  /\ token < MaxRotations + 1
  /\ token' = token + 1
  /\ recovering' = FALSE
  /\ UNCHANGED <<dead, window, loggedOut, upload, sent, accepted, express, handlerVars>>

WindowExpires ==
  /\ window # "closed"
  /\ window' = "closed"
  /\ UNCHANGED <<token, dead, recovering, loggedOut, upload, sent, accepted, express,
                 handlerVars>>

\* The refresh of a reconnect for another reason begins; at most one a window.
Rotates ==
  /\ ~dead /\ ~recovering
  /\ window = "closed"
  /\ recovering' = TRUE
  /\ window' = "routine"
  /\ UNCHANGED <<token, dead, loggedOut, upload, sent, accepted, express, handlerVars>>

Dies ==
  /\ ~dead
  /\ dead' = TRUE
  /\ UNCHANGED <<token, recovering, window, loggedOut, upload, sent, accepted, express,
                 handlerVars>>

\* The server stops accepting the current token and all before: an honest one
\* not so soon after it was issued to replace a rejected one.
Revokes ==
  /\ window # "auth" /\ ~recovering
  /\ accepted = token
  /\ accepted' = token + 1
  /\ UNCHANGED <<uploaderVars, express, handlerVars>>

\* The network fails.
Breaks(r) ==
  /\ upload[r] = "pending"
  /\ upload' = [upload EXCEPT ![r] = "rejected"]
  /\ UNCHANGED <<token, dead, recovering, window, loggedOut, sent, accepted, express,
                 handlerVars>>

-----------------------------------------------------------------------------
(***************************************************************************)
(* The server's handler.                                                   *)
(***************************************************************************)

\* sendError, the procedure's response: one response per request.
Writes(r, status) == reply' = [reply EXCEPT ![r] = IF @ = "none" THEN status ELSE @]

\* sendEarlyReject: the response, then the inbound stream is torn down.
RejectsEarly(r, status) ==
  /\ Writes(r, status)
  /\ stage' = [stage EXCEPT ![r] = "done"]
  /\ body' = [body EXCEPT ![r] = "destroyed"]
  /\ UNCHANGED <<stripped, passed>>

Advances(r, next) ==
  /\ stage' = [stage EXCEPT ![r] = next]
  /\ UNCHANGED <<reply, body, passed>>

\* Mutant: what verifyClient returns is not looked at before its fields are
\* read; the handler ends in an unhandled rejection.
VerifiesBlindly(r) ==
  /\ stage[r] = "verifying"
  /\ \/ sent[r] >= accepted /\ Advances(r, "gating") /\ UNCHANGED stripped
     \/ sent[r] < accepted /\ RejectsEarly(r, "401")
     \/ Advances(r, "done") /\ UNCHANGED stripped
  /\ UNCHANGED <<uploaderVars, accepted, express>>

\* runVerify: one that throws or returns anything but a verdict, or a status
\* that is none, makes a 500.
Verifies(r) ==
  /\ stage[r] = "verifying"
  /\ \/ sent[r] >= accepted /\ Advances(r, "gating") /\ UNCHANGED stripped
     \/ sent[r] < accepted /\ RejectsEarly(r, "401")
     \/ RejectsEarly(r, "500")
  /\ UNCHANGED <<uploaderVars, accepted, express>>

\* runBeforeUpload, in the same way; then the prefix is stripped.
Gates(r) ==
  /\ stage[r] = "gating"
  /\ \/ Advances(r, "handling") /\ stripped' = stripped \cup {r}
     \/ \E status \in {"403", "500"} : RejectsEarly(r, status)
  /\ UNCHANGED <<uploaderVars, accepted, express>>

\* restoreUrls(), next().
HandsOn(r) ==
  IF express THEN stripped' = stripped \ {r} /\ passed' = passed \cup {r}
  ELSE UNCHANGED <<stripped, passed>>

\* rpcHandler.handle reads the body and answers.
Handles(r) ==
  /\ stage[r] = "handling"
  /\ stage' = [stage EXCEPT ![r] = "done"]
  /\ body' = [body EXCEPT ![r] = "read"]
  /\ \E status \in {"200", "500"} : Writes(r, status)
  /\ UNCHANGED <<uploaderVars, accepted, express, stripped, passed>>

\* It has no such procedure: the next middleware's turn, or 404.
Unmatched(r) ==
  /\ stage[r] = "handling"
  /\ stage' = [stage EXCEPT ![r] = "done"]
  /\ HandsOn(r)
  /\ IF express THEN UNCHANGED reply ELSE Writes(r, "404")
  /\ UNCHANGED <<uploaderVars, accepted, express, body>>

\* It throws, before or after the response began; the error goes to next() too.
Throws(r) ==
  /\ stage[r] = "handling"
  /\ stage' = [stage EXCEPT ![r] = "done"]
  /\ body' = [body EXCEPT ![r] = "read"]
  /\ \E status \in {"500", "cut"} : Writes(r, status)
  /\ HandsOn(r)
  /\ UNCHANGED <<uploaderVars, accepted, express>>

\* The consumer's other routes answer what was handed to them.
OthersAnswer(r) ==
  /\ r \in passed
  /\ reply[r] = "none"
  /\ \E status \in {"200", "404"} : Writes(r, status)
  /\ UNCHANGED <<uploaderVars, accepted, express, stage, body, stripped, passed>>

-----------------------------------------------------------------------------
Client == \/ \E r \in Requests : Upload(r) \/ FetchReturns(r) \/ Breaks(r)
          \/ Refreshes \/ WindowExpires \/ Rotates \/ Dies

Server == \/ \E r \in Requests : \/ Verifies(r) \/ Gates(r) \/ Handles(r)
                                 \/ Unmatched(r) \/ Throws(r) \/ OthersAnswer(r)
          \/ Revokes

HttpNext == Client \/ Server

\* verifyClient, beforeUpload and the procedures settle, other routes answer,
\* and a response that was written arrives.
Fairness ==
  \A r \in Requests :
    /\ WF_httpVars(Verifies(r) \/ Gates(r) \/ Handles(r) \/ Unmatched(r) \/ Throws(r)
               \/ OthersAnswer(r))
    /\ WF_httpVars(FetchReturns(r))

HttpSpec == HttpInit /\ [][HttpNext]_httpVars
FairSpec == HttpSpec /\ Fairness

-----------------------------------------------------------------------------
(***************************************************************************)
(* Properties.                                                             *)
(***************************************************************************)

\* The variables keep their types.
HttpTypeOK ==
  /\ token \in Tokens /\ accepted \in 1 .. (MaxRotations + 2)
  /\ {dead, recovering, loggedOut, express} \subseteq BOOLEAN
  /\ window \in {"closed", "routine", "auth"}
  /\ upload \in [Requests -> {"none", "pending", "resolved", "rejected"}]
  /\ sent \in [Requests -> Tokens \cup {NoToken}]
  /\ stage \in [Requests -> {"none", "verifying", "gating", "handling", "done"}]
  /\ reply \in [Requests -> {"none", "200", "401", "403", "404", "500", "cut"}]
  /\ body \in [Requests -> {"inbound", "read", "destroyed"}]
  /\ stripped \subseteq Requests /\ passed \subseteq Requests

\* With a server that gives a new token its time, no order of rejected uploads,
\* refreshes and rotations logs the user out: an upload sent with a token that
\* was replaced meanwhile says nothing of the new one (H2, orpc-http-strategy.ts
\* :108-121).
NoStaleLogout == HttpTypeOK /\ ~loggedOut

\* Every upload settles and every request gets one response, whatever the
\* consumer's hooks throw or return, and who is handed a request finds it as it
\* arrived (http-handler.ts:66-73, :257-282, :363-382).
EveryUploadIsAnswered ==
  /\ \A r \in Requests : upload[r] = "pending" ~> upload[r] \in {"resolved", "rejected"}
  /\ \A r \in Requests : stage[r] = "verifying" ~> reply[r] # "none"
  /\ [](passed \cap stripped = {})
=============================================================================
