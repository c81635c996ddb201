----------------------------- MODULE Ingestion ------------------------------
(***************************************************************************)
(* POST /v1/footprints/ingest in the server process, from the token to the   *)
(* two queued jobs: middleware/authenticate-siws.ts, app/create-app.ts and   *)
(* modules/ingestion/footprint-orchestration.ts in backend/src.             *)
(*                                                                         *)
(* A step runs from one await to the next.  The process may die at an await  *)
(* or between two statements; the database survives, memory does not.       *)
(***************************************************************************)
EXTENDS SignIn, FiniteSets

CONSTANTS
  KeyConfigured,   \* BACKEND_RSA_PRIVATE_KEY_PEM is set
  MaxFaults        \* bound on deaths, failed statements and lost answers

ASSUME IngestionAssumption == KeyConfigured \in BOOLEAN /\ MaxFaults \in Nat

VARIABLES
  used,      \* used_nonces: the tokens whose nonce is reserved
  key,       \* the RSA key pair of the process, by number
  handler,   \* the handler of each request
  queue,     \* oracle_jobs in the order of their ids
  torn,      \* the requests cut short between their two inserts
  faults

ingestionVars == <<signInVars, used, key, handler, queue, torn, faults>>

HandlerStates == {"none", "verifying", "profile", "policy", "publish",
                  "answered", "died"}
Statuses   == {202, 400, 401, 409, 500}
NotOver    == 0
JobKinds   == {"submit_verified_footprint", "sync_sbt_state"}
JobStates  == {"pending", "completed", "failed"}

Idle == [pc |-> "none", token |-> NoToken, key |-> 0, version |-> 0,
         valid |-> TRUE, status |-> NotOver]

IngestionInit ==
  /\ SignInInit
  /\ used = {}
  /\ key = 1
  /\ handler = [r \in Requests |-> Idle]
  /\ queue = << >>
  /\ torn = {}
  /\ faults = 0

IngestionTypeOK ==
  /\ SignInTypeOK
  /\ used \subseteq Tokens
  /\ key \in Nat
  /\ handler \in [Requests ->
       [pc : HandlerStates, token : Nat, key : Nat, version : Nat,
        valid : BOOLEAN, status : Statuses \cup {NotOver}]]
  /\ queue \in Seq([kind : JobKinds, request : Requests, version : Nat,
                    status : JobStates])
  /\ torn \subseteq Requests
  /\ faults \in 0 .. MaxFaults

Fault == faults < MaxFaults /\ faults' = faults + 1

Goto(r, pc) == handler' = [handler EXCEPT ![r].pc = pc]

\* The response or the error handler's response
Answer(r, status) ==
  handler' = [handler EXCEPT
    ![r] = [Idle EXCEPT !.pc = "answered", !.token = handler[r].token,
                        !.status = status]]

-----------------------------------------------------------------------------
\* A request arrives with a bearer token: authenticateSiws up to its await.
\* valid: its payload can be parsed and normalised.
Receive(r, token, publicKey, version, valid) ==
  /\ handler[r].pc = "none"
  /\ handler' = [handler EXCEPT
       ![r] = [pc |-> "verifying", token |-> token, key |-> publicKey,
               version |-> version, valid |-> valid, status |-> NotOver]]
  /\ UNCHANGED <<signInVars, used, key, queue, torn, faults>>

TokenExpired(r) == tokens[handler[r].token] = "expired"
\* Mutant: reserving a nonce twice is not an error.
NeverReplayed(r) == FALSE
Replayed(r)     == handler[r].token \in used

\* Mutant: nothing is answered to a replay.
RejectTokenSilently(r) ==
  /\ handler[r].pc = "verifying"
  /\ TokenExpired(r) /\ Answer(r, 401)
  /\ UNCHANGED <<signInVars, used, key, queue, torn, faults>>

\* verifyBearerToken throws (401), or inserting the nonce does (409).
RejectToken(r) ==
  /\ handler[r].pc = "verifying"
  /\ \/ TokenExpired(r) /\ Answer(r, 401)
     \/ ~TokenExpired(r) /\ Replayed(r) /\ Answer(r, 409)
  /\ UNCHANGED <<signInVars, used, key, queue, torn, faults>>

\* decryptRequest recovers the payload: it was encrypted to the key of this process.
Decryptable(r) == handler[r].key = key

\* reserveNonce, then without an await decryptRequest, the parse of the payload
\* and normalizeInput, which may refuse what was admitted.
Admit(r) ==
  /\ handler[r].pc = "verifying"
  /\ ~TokenExpired(r) /\ ~Replayed(r)
  /\ used' = used \cup {handler[r].token}
  /\ \/ ~Decryptable(r) /\ Answer(r, 400)
     \/ Decryptable(r) /\ ~handler[r].valid /\ Answer(r, 500)
     \/ /\ Decryptable(r) /\ handler[r].valid
        /\ handler' = [handler EXCEPT
             ![r] = [Idle EXCEPT !.pc = "profile", !.token = handler[r].token,
                                 !.version = handler[r].version]]
  /\ UNCHANGED <<signInVars, key, queue, torn, faults>>

\* Mutant: the footprint is queued before the policy is known.
LoadProfileAndQueue(r) ==
  /\ handler[r].pc = "profile"
  /\ Goto(r, "policy")
  /\ queue' = Append(queue, [kind |-> "submit_verified_footprint", request |-> r,
                             version |-> 0, status |-> "pending"])
  /\ UNCHANGED <<signInVars, used, key, torn, faults>>

LoadUserProfile(r) ==
  /\ handler[r].pc = "profile"
  /\ Goto(r, "policy")
  /\ UNCHANGED <<signInVars, used, key, queue, torn, faults>>

LoadProtocolConfig(r) ==
  /\ handler[r].pc = "policy"
  /\ Goto(r, "publish")
  /\ UNCHANGED <<signInVars, used, key, queue, torn, faults>>

\* The node does not answer either call, or the database is locked when the
\* nonce is inserted.
AwaitFails(r) ==
  /\ \/ handler[r].pc \in {"profile", "policy"}
     \/ handler[r].pc = "verifying" /\ ~TokenExpired(r)
  /\ Fault
  /\ Answer(r, 500)
  /\ UNCHANGED <<signInVars, used, key, queue, torn>>

Job(r, kind, version) ==
  [kind |-> kind, request |-> r, version |-> version, status |-> "pending"]

\* Mutant: the document keeps the version that the browser knows.
SyncJobSameVersion(r) == Job(r, "sync_sbt_state", handler[r].version)
\* currentMetadataVersion comes from the browser.
SyncJob(r) == Job(r, "sync_sbt_state", handler[r].version + 1)

\* Mutant: the document is queued first.
DocumentFirst(r) == SyncJob(r)
\* What is left behind if the second insert is not reached
FirstJob(r) == Job(r, "submit_verified_footprint", 0)

\* publishMetadata has answered: two inserts and the response.
EnqueueJobs(r) ==
  /\ handler[r].pc = "publish"
  /\ queue' = queue \o <<FirstJob(r), SyncJob(r)>>
  /\ Answer(r, 202)
  /\ UNCHANGED <<signInVars, used, key, torn, faults>>

\* The first insert throws (a locked database, or the same footprint computed in
\* the same millisecond by another request), or only the second does.
InsertThrows(r) ==
  /\ handler[r].pc = "publish"
  /\ Fault
  /\ \/ UNCHANGED <<queue, torn>>
     \/ queue' = Append(queue, FirstJob(r)) /\ torn' = torn \cup {r}
  /\ Answer(r, 500)
  /\ UNCHANGED <<signInVars, used, key>>

KeyAfterRestart == IF KeyConfigured THEN key ELSE key + 1

\* The process dies and is restarted: handlers, challenges and a key that is not
\* configured are gone.
ServerDies ==
  /\ Fault
  /\ ForgetChallenges
  /\ key' = KeyAfterRestart
  /\ \/ UNCHANGED <<queue, torn>>
     \/ \E r \in Requests :
          /\ handler[r].pc = "publish"
          /\ queue' = Append(queue, FirstJob(r))
          /\ torn' = torn \cup {r}
  /\ handler' = [r \in Requests |->
       IF handler[r].pc \in {"none", "answered"} THEN handler[r]
       ELSE [handler[r] EXCEPT !.pc = "died"]]
  /\ UNCHANGED used

\* What goes on in the handler of r
Handle(r) ==
  \/ RejectToken(r)
  \/ Admit(r)
  \/ LoadUserProfile(r)
  \/ LoadProtocolConfig(r)
  \/ EnqueueJobs(r)

-----------------------------------------------------------------------------
Queued(r, kind) ==
  \E i \in DOMAIN queue : queue[i].request = r /\ queue[i].kind = kind
IsSubmit(j) == j.kind = "submit_verified_footprint"

\* How many footprints in the queue each ticket has brought
Footprints  == {i \in DOMAIN queue : IsSubmit(queue[i])}
TicketOf(i) == handler[queue[i].request].token
HonouredTickets ==
  [t \in {TicketOf(i) : i \in Footprints} |->
     Cardinality({i \in Footprints : TicketOf(i) = t})]

TicketsOfTokens == INSTANCE Tickets WITH
  granted <- Len(tokens), spent <- used, honoured <- HonouredTickets

\* However requests share tokens, overlap, fail or are cut short by the death of
\* the process, a token is admitted once and queues one footprint at most.
TicketSpec == TicketsOfTokens!Spec

\* A document is never queued without or before the footprint it tells of, and a
\* footprint lacks its document only if its request was cut short.
JobsInPairs ==
  \A r \in Requests :
    LET at(kind) == {i \in DOMAIN queue :
                       queue[i].request = r /\ queue[i].kind = kind}
    IN  /\ \A s \in at("sync_sbt_state") :
             \E f \in at("submit_verified_footprint") : f < s
        /\ at("submit_verified_footprint") # {} /\ r \notin torn =>
             at("sync_sbt_state") # {}
=============================================================================
