-------------------------- MODULE SubmissionProofs --------------------------
(***************************************************************************)
(* For any number of submissions, tabs, days and faults: tokens are          *)
(* single-use tickets, jobs come in pairs, the panel tells the truth and is   *)
(* locked after a success, and a document is refused only if its tab was out  *)
(* of date.                                                                *)
(***************************************************************************)
EXTENDS Submission, SequenceTheorems, FiniteSetTheorems, TLAPS

\* The handler of an answered or dead request does nothing any more.
Closed  == {"answered", "died"}
\* An admitted request
Admitted == {"profile", "policy", "publish"}
\* A flow that has not posted its request
Unsent == {"none", "token", "sign", "verify", "key", "post"}

\* Tabs, flows and handlers hold tokens that were issued.
TokensHeld ==
  /\ \A t \in Tabs : tab[t].token \in Tokens \cup {NoToken}
  /\ \A r \in Requests :
       /\ flow[r].token \in Tokens \cup {NoToken}
       /\ flow[r].pc \in {"key", "post"} => flow[r].token \in Tokens
       /\ handler[r].pc # "none" => handler[r].token \in Tokens

\* A request queues each job once; footprints are not settled by SyncDocument.
OneOfEach ==
  /\ \A i, j \in DOMAIN queue :
       queue[i].request = queue[j].request /\ queue[i].kind = queue[j].kind => i = j
  /\ \A i \in DOMAIN queue : IsSubmit(queue[i]) => queue[i].status = "pending"

\* What is queued was answered with a 202 or torn; what was answered with a 202
\* is queued.
HandlersTell ==
  /\ \A i \in DOMAIN queue :
       handler[queue[i].request].status = 202 \/ queue[i].request \in torn
  /\ \A r \in torn : handler[r].pc \in Closed /\ handler[r].status # 202
  /\ \A r \in Requests : handler[r].status = 202 =>
       handler[r].pc = "answered" /\ \A kind \in JobKinds : Queued(r, kind)

\* What a flow has seen of its handler
FlowsTell ==
  \A r \in Requests :
    /\ flow[r].pc \in Unsent => handler[r].pc = "none"
    /\ flow[r].pc = "succeeded" => handler[r].status = 202
    /\ flow[r].pc = "refused" =>
         handler[r].pc \in {"none", "answered"} /\ handler[r].status # 202

\* An admitted or queued request has spent a token of its own.
Spending(r) ==
  handler[r].pc \in Admitted \/ Queued(r, "submit_verified_footprint")
OwnTokens ==
  /\ \A r \in Requests : Spending(r) => handler[r].token \in used
  /\ \A r, s \in Requests :
       Spending(r) /\ Spending(s) /\ handler[r].token = handler[s].token => r = s

\* The success of today is in localStorage and in the tab that showed it.
TodayStored ==
  \A r \in Requests : flow[r].pc = "succeeded" =>
    /\ flow[r].day <= today
    /\ flow[r].day = today => stored = today /\ tab[flow[r].tab].day = today

\* Version v, loaded when the documents of S were settled, is current unless a
\* document of another request was completed since.
Current(v, S) ==
  version > v => \E j \in DOMAIN queue :
                   queue[j].status = "completed" /\ queue[j].request \notin S
VersionsKnown ==
  /\ \A t \in Tabs :
       tab[t].seen \subseteq Settled /\ Current(tab[t].version, tab[t].seen)
  /\ \A r \in Requests :
       /\ flow[r].seen \subseteq Settled
       /\ flow[r].pc \in Unsent \ {"none"} => Current(flow[r].version, flow[r].seen)
       /\ handler[r].pc \in Admitted \cup {"verifying"} =>
            Current(handler[r].version, flow[r].seen)
  /\ \A i \in DOMAIN queue : ~IsSubmit(queue[i]) /\ queue[i].status = "pending" =>
       \E v \in Nat : queue[i].version = v + 1 /\ Current(v, flow[queue[i].request].seen)

\* The inductive invariant.
SubmissionInv ==
  /\ TypeOK
  /\ TokensHeld
  /\ JobsInPairs
  /\ OneOfEach
  /\ HandlersTell
  /\ FlowsTell
  /\ OwnTokens
  /\ TodayStored
  /\ VersionsKnown
  /\ RefusedOnlyIfStale

\* The sets of TypeOK
HandlerRecords ==
  [pc : HandlerStates, token : Nat, key : Nat, version : Nat,
   valid : BOOLEAN, status : Statuses \cup {NotOver}]
JobRecords ==
  [kind : JobKinds, request : Requests, version : Nat, status : JobStates]
FlowRecords ==
  [pc : FlowStates, tab : Tabs, again : BOOLEAN, challenge : Nat,
   token : Nat, key : Nat, version : Nat, valid : BOOLEAN, day : Nat,
   seen : SUBSET Requests]
TabRecords ==
  [stage : Stages, day : Nat, token : Nat, version : Nat,
   seen : SUBSET Requests, jobs : BOOLEAN]

-----------------------------------------------------------------------------
\* What a step does to the sign-in service.
SignInStep ==
  \/ IssueChallenge
  \/ \E r \in Requests : BeginVerification(r, flow[r].challenge)
  \/ \E r \in Requests : RefuseChallenge(flow[r].challenge)
  \/ \E r \in Requests : FinishVerification(r, flow[r].challenge)
  \/ ForgetChallenges
  \/ \E r \in Requests : ChallengeExpires(flow[r].challenge)
  \/ \E k \in Tokens : TokenAges(k)
  \/ UNCHANGED signInVars

LEMMA StepsOfSignIn == [SubmissionNext]_submissionVars => SignInStep
<1> SUFFICES ASSUME [SubmissionNext]_submissionVars PROVE SignInStep
  OBVIOUS
<1>1. ASSUME NEW r \in Requests, Proceed(r) PROVE SignInStep
  BY <1>1
  DEF Proceed, UseCachedToken, RequestChallenge, SendSignature, ReceiveToken,
      FetchPublicKey, SubmitEncryptedFootprint, Receive, ReceiveResult,
      ReceiveError, ConnectionBreaks, ingestionVars, SignInStep
<1>2. ASSUME NEW r \in Requests, HandlerStep(r) PROVE SignInStep
  BY <1>2
  DEF HandlerStep, Handle, RejectToken, Admit, LoadUserProfile, LoadProtocolConfig,
      EnqueueJobs, AwaitFails, InsertThrows, SignInStep
<1>3. ASSUME ServerDies PROVE SignInStep
  BY <1>3 DEF ServerDies, SignInStep
<1>4. ASSUME TimePasses PROVE SignInStep
  BY <1>4 DEF TimePasses, SignInStep
<1>5. ASSUME \/ \E t \in Tabs, r \in Requests, valid \in BOOLEAN :
                   SubmitForScoring(t, r, valid)
             \/ \E t \in Tabs : RefreshJobFails(t) \/ Reload(t)
             \/ \E i \in DOMAIN queue : SyncDocument(i)
             \/ NextDay
             \/ UNCHANGED submissionVars
      PROVE  SignInStep
  BY <1>5
  DEF SubmitForScoring, RefreshJobFails, Reload, SyncDocument, NextDay,
      submissionVars, ingestionVars, SignInStep
<1>6. QED
  BY <1>1, <1>2, <1>3, <1>4, <1>5 DEF SubmissionNext

\* The sign-in service keeps its types, and no token is forgotten.
LEMMA SignInTyped ==
  ASSUME SignInTypeOK, SignInStep
  PROVE  /\ SignInTypeOK'
         /\ Tokens \subseteq Tokens' /\ Tokens' \subseteq Nat \ {0}
         /\ Len(tokens') \in {Len(tokens), Len(tokens) + 1}
<1>1. /\ issued \in Nat /\ challenges \subseteq Challenges
      /\ overdue \subseteq Challenges /\ verifying \subseteq Requests \X Challenges
      /\ tokens \in Seq(Ages)
  BY DEF SignInTypeOK
<1>2. Len(tokens) \in Nat /\ Tokens = 1 .. Len(tokens)
  BY <1>1, LenProperties DEF Tokens
<1>3. CASE IssueChallenge
  <2>1. /\ issued' = issued + 1 /\ challenges' \subseteq challenges \cup {issued'}
        /\ UNCHANGED <<overdue, verifying, tokens>>
    BY <1>3 DEF IssueChallenge
  <2>2. Challenges \subseteq Challenges' /\ issued' \in Challenges' /\ issued' \in Nat
    BY <1>1, <2>1 DEF Challenges
  <2>3. SignInTypeOK'
    BY <1>1, <2>1, <2>2 DEF SignInTypeOK
  <2>4. QED
    BY <1>2, <2>1, <2>3 DEF Tokens
<1>4. ASSUME NEW r \in Requests, BeginVerification(r, flow[r].challenge)
      PROVE  SignInTypeOK' /\ UNCHANGED tokens
  <2>1. /\ flow[r].challenge \in Challenges
        /\ verifying' = verifying \cup {<<r, flow[r].challenge>>}
        /\ UNCHANGED <<issued, challenges, overdue, tokens>>
    BY <1>1, <1>4 DEF BeginVerification
  <2>2. verifying' \subseteq Requests \X Challenges
    BY <1>1, <2>1
  <2>3. QED
    BY <1>1, <2>1, <2>2 DEF SignInTypeOK, Challenges
<1>5. ASSUME NEW r \in Requests, RefuseChallenge(flow[r].challenge)
      PROVE  SignInTypeOK' /\ UNCHANGED tokens
  BY <1>1, <1>5 DEF RefuseChallenge, SignInTypeOK, Challenges
<1>6. ASSUME NEW r \in Requests, FinishVerification(r, flow[r].challenge)
      PROVE  SignInTypeOK' /\ Len(tokens') = Len(tokens) + 1
  <2>1. /\ verifying' \subseteq verifying /\ challenges' \subseteq challenges
        /\ tokens' = Append(tokens, "fresh") /\ UNCHANGED <<issued, overdue>>
    BY <1>6 DEF FinishVerification
  <2>2. tokens' \in Seq(Ages) /\ Len(tokens') = Len(tokens) + 1
    BY <1>1, <2>1, AppendProperties DEF Ages
  <2>3. QED
    BY <1>1, <2>1, <2>2 DEF SignInTypeOK, Challenges
<1>7. CASE ForgetChallenges
  BY <1>1, <1>2, <1>7 DEF ForgetChallenges, SignInTypeOK, Challenges, Tokens
<1>8. ASSUME NEW r \in Requests, ChallengeExpires(flow[r].challenge)
      PROVE  SignInTypeOK' /\ UNCHANGED tokens
  BY <1>1, <1>8 DEF ChallengeExpires, SignInTypeOK, Challenges
<1>9. ASSUME NEW k \in Tokens, TokenAges(k)
      PROVE  SignInTypeOK' /\ Len(tokens') = Len(tokens)
  <2>1. PICK a \in Ages : tokens' = [tokens EXCEPT ![k] = a]
    BY <1>9 DEF TokenAges, Ages
  <2>2. tokens' \in Seq(Ages) /\ Len(tokens') = Len(tokens)
    BY <1>1, <1>2, <2>1, ExceptSeq
  <2>3. QED
    BY <1>1, <1>9, <2>2 DEF TokenAges, SignInTypeOK, Challenges
<1>10. CASE UNCHANGED signInVars
  BY <1>1, <1>2, <1>10 DEF signInVars, SignInTypeOK, Challenges, Tokens
<1>11. ASSUME SignInTypeOK', Len(tokens') = Len(tokens) \/ Len(tokens') = Len(tokens) + 1
       PROVE  Tokens \subseteq Tokens' /\ Tokens' \subseteq Nat \ {0}
  <2>1. Tokens' = 1 .. Len(tokens')
    BY <1>11, LenProperties DEF SignInTypeOK, Tokens
  <2>2. QED
    BY <1>2, <1>11, <2>1
<1>12. QED
  BY <1>3, <1>4, <1>5, <1>6, <1>7, <1>8, <1>9, <1>10, <1>11 DEF SignInStep

-----------------------------------------------------------------------------
\* The steps by what they queue

\* The handler of s goes on, or not, without being admitted or answering 202.
Continues(s) ==
  \/ handler'[s] = handler[s]
  \/ /\ handler[s].pc \notin Closed
     /\ handler'[s].pc # "none" /\ handler'[s].status # 202
     /\ handler'[s].pc \in Admitted => handler[s].pc \in Admitted
     /\ handler[s].pc # "none" => handler'[s].token = handler[s].token
     /\ handler'[s].pc \in Admitted \cup {"verifying"} /\ handler[s].pc # "none" =>
          handler'[s].version = handler[s].version

QueuesNothing ==
  /\ UNCHANGED <<queue, torn, used>>
  /\ \A s \in Requests : Continues(s)

\* r spends its token.
Admits(r) ==
  /\ handler[r].pc = "verifying" /\ handler[r].token \notin used
  /\ used' = used \cup {handler[r].token}
  /\ \E h \in HandlerRecords :
       /\ handler' = [handler EXCEPT ![r] = h]
       /\ h.pc \in {"profile", "answered"} /\ h.token = handler[r].token
       /\ h.status # 202
       /\ h.pc = "profile" => h.version = handler[r].version
  /\ UNCHANGED <<queue, torn, tokens>>

QueuesPair(r) ==
  /\ handler[r].pc = "publish"
  /\ queue' = queue \o <<FirstJob(r), SyncJob(r)>>
  /\ handler' = [handler EXCEPT
       ![r] = [Idle EXCEPT !.pc = "answered", !.token = handler[r].token,
                           !.status = 202]]
  /\ UNCHANGED <<torn, used, tokens>>

QueuesFirst(r) ==
  /\ handler[r].pc = "publish"
  /\ queue' = Append(queue, FirstJob(r))
  /\ torn' = torn \cup {r}
  /\ \A s \in Requests : Continues(s)
  /\ handler'[r].pc \in Closed /\ handler'[r].status # 202
  /\ UNCHANGED <<used, tokens>>

Settles(i) ==
  /\ queue[i].status = "pending" /\ ~IsSubmit(queue[i])
  /\ \E q \in {"completed", "failed"} : queue' = [queue EXCEPT ![i].status = q]
  /\ UNCHANGED <<handler, torn, used, tokens>>

QueueStep ==
  \/ QueuesNothing
  \/ \E r \in Requests : Admits(r) \/ QueuesPair(r) \/ QueuesFirst(r)
  \/ \E i \in DOMAIN queue : Settles(i)

\* The types of what the server keeps beside the sign-in service
ServerTypeOK ==
  /\ used \subseteq Tokens
  /\ handler \in [Requests -> HandlerRecords]
  /\ queue \in Seq(JobRecords)
  /\ torn \subseteq Requests

LEMMA IdleTyped == Idle \in HandlerRecords
BY DEF Idle, HandlerRecords, HandlerStates, Statuses, NotOver, NoToken

\* The records that Answer and Admit leave behind.
AnsweredWith(token, status) ==
  [Idle EXCEPT !.pc = "answered", !.token = token, !.status = status]
AdmittedAs(token, v) ==
  [Idle EXCEPT !.pc = "profile", !.token = token, !.version = v]

LEMMA AnsweredRecord ==
  ASSUME NEW token \in Nat, NEW status \in Statuses
  PROVE  /\ AnsweredWith(token, status) \in HandlerRecords
         /\ AnsweredWith(token, status).pc = "answered"
         /\ AnsweredWith(token, status).token = token
         /\ AnsweredWith(token, status).status = status
BY IdleTyped DEF AnsweredWith, HandlerRecords, HandlerStates

LEMMA AdmittedRecord ==
  ASSUME NEW token \in Nat, NEW v \in Nat
  PROVE  /\ AdmittedAs(token, v) \in HandlerRecords
         /\ AdmittedAs(token, v).pc = "profile"
         /\ AdmittedAs(token, v).token = token
         /\ AdmittedAs(token, v).version = v
         /\ AdmittedAs(token, v).status # 202
<1>1. AdmittedAs(token, v).status # 202
  BY DEF AdmittedAs, Idle, NotOver
<1>2. QED
  BY <1>1, IdleTyped DEF AdmittedAs, HandlerRecords, HandlerStates

\* A handler that does not touch queue or nonces, or dies.
LEMMA HandlerContinues ==
  ASSUME handler \in [Requests -> HandlerRecords], NEW r \in Requests,
         NEW h \in HandlerRecords, handler' = [handler EXCEPT ![r] = h],
         handler[r].pc \notin Closed,
         h.pc # "none", h.status # 202,
         h.pc \in Admitted => handler[r].pc \in Admitted,
         handler[r].pc # "none" => h.token = handler[r].token,
         h.pc \in Admitted \cup {"verifying"} /\ handler[r].pc # "none" =>
           h.version = handler[r].version
  PROVE  \A s \in Requests : Continues(s)
<1>1. /\ handler'[r] = h
      /\ \A s \in Requests \ {r} : handler'[s] = handler[s]
  OBVIOUS
<1>2. Continues(r)
  BY <1>1 DEF Continues
<1>3. QED
  BY <1>1, <1>2 DEF Continues

\* An answer other than 202 does not touch the queue.
LEMMA AnswerContinues ==
  ASSUME handler \in [Requests -> HandlerRecords], NEW r \in Requests,
         NEW status \in Statuses \ {202}, Answer(r, status),
         handler[r].pc \notin Closed, handler[r].pc # "none"
  PROVE  /\ \A s \in Requests : Continues(s)
         /\ handler' \in [Requests -> HandlerRecords]
         /\ handler'[r].pc = "answered" /\ handler'[r].status # 202
<1> DEFINE h == [Idle EXCEPT !.pc = "answered", !.token = handler[r].token,
                             !.status = status]
<1>1. handler' = [handler EXCEPT ![r] = h] /\ handler[r] \in HandlerRecords
  BY DEF Answer
<1>2. /\ h \in HandlerRecords /\ h.pc = "answered" /\ h.status = status
      /\ h.token = handler[r].token
  BY <1>1, IdleTyped DEF HandlerRecords, HandlerStates, Idle
<1> HIDE DEF h
<1>3. \A s \in Requests : Continues(s)
  BY <1>1, <1>2, HandlerContinues DEF Admitted
<1>4. QED
  BY <1>1, <1>2, <1>3

LEMMA JobsTyped ==
  ASSUME NEW r \in Requests, handler[r] \in HandlerRecords
  PROVE  FirstJob(r) \in JobRecords /\ SyncJob(r) \in JobRecords
BY DEF FirstJob, SyncJob, Job, JobRecords, JobKinds, JobStates, HandlerRecords

LEMMA EntryTyped ==
  ASSUME NEW q \in Seq(JobRecords), NEW i \in DOMAIN q
  PROVE  /\ q[i] \in JobRecords
         /\ q[i].request \in Requests /\ q[i].version \in Nat
         /\ q[i].kind \in JobKinds
<1>1. q[i] \in JobRecords
  BY LenProperties, ElementOfSeq
<1>2. QED
  BY <1>1 DEF JobRecords

\* Every step is one of these as far as the queue and the nonces go.
LEMMA StepsOfQueue ==
  ASSUME TypeOK, TokensHeld, HandlersTell, [SubmissionNext]_submissionVars
  PROVE  QueueStep /\ handler' \in [Requests -> HandlerRecords]
<1>1. /\ handler \in [Requests -> HandlerRecords]
      /\ flow \in [Requests -> FlowRecords]
      /\ \A r \in Requests : handler[r] \in HandlerRecords /\ flow[r] \in FlowRecords
  BY DEF TypeOK, IngestionTypeOK, HandlerRecords, FlowRecords
<1>2. ASSUME UNCHANGED <<handler, queue, torn, used>>
      PROVE  QueueStep /\ handler' \in [Requests -> HandlerRecords]
  BY <1>1, <1>2 DEF QueueStep, QueuesNothing, Continues
<1>3. ASSUME NEW r \in Requests, NEW status \in Statuses \ {202}, Answer(r, status),
             handler[r].pc \notin Closed, handler[r].pc # "none",
             UNCHANGED <<queue, torn, used>>
      PROVE  QueueStep /\ handler' \in [Requests -> HandlerRecords]
  BY <1>1, <1>3, AnswerContinues DEF QueueStep, QueuesNothing
<1>4. ASSUME NEW r \in Requests, NEW pc \in Admitted, Goto(r, pc),
             handler[r].pc \in Admitted, UNCHANGED <<queue, torn, used>>
      PROVE  QueueStep /\ handler' \in [Requests -> HandlerRecords]
  <2> DEFINE h == [handler[r] EXCEPT !.pc = pc]
  <2>1. handler' = [handler EXCEPT ![r] = h] /\ handler[r].status # 202
    BY <1>1, <1>4 DEF Goto, HandlersTell, Admitted
  <2>2. /\ h \in HandlerRecords /\ h.pc = pc /\ h.status # 202
        /\ h.token = handler[r].token /\ h.version = handler[r].version
    <3>1. pc \in HandlerStates
      BY DEF HandlerStates, Admitted
    <3>2. handler[r] \in HandlerRecords
      BY <1>1
    <3>3. /\ h \in HandlerRecords /\ h.pc = pc /\ h.status = handler[r].status
          /\ h.token = handler[r].token /\ h.version = handler[r].version
      BY <3>1, <3>2 DEF HandlerRecords
    <3>4. QED
      BY <2>1, <3>3
  <2> HIDE DEF h
  <2>3. \A s \in Requests : Continues(s)
    BY <1>1, <1>4, <2>1, <2>2, HandlerContinues DEF Admitted, Closed
  <2>4. QED
    BY <1>1, <1>4, <2>1, <2>2, <2>3 DEF QueueStep, QueuesNothing
<1>5. ASSUME NEW r \in Requests, SubmitEncryptedFootprint(r)
      PROVE  QueueStep /\ handler' \in [Requests -> HandlerRecords]
  <2> DEFINE h == [pc |-> "verifying", token |-> flow[r].token, key |-> flow[r].key,
                   version |-> flow[r].version, valid |-> flow[r].valid,
                   status |-> NotOver]
  <2>1. /\ handler' = [handler EXCEPT ![r] = h] /\ handler[r].pc = "none"
        /\ UNCHANGED <<queue, torn, used>>
    BY <1>5 DEF SubmitEncryptedFootprint, Receive
  <2>2. /\ h \in HandlerRecords /\ h.pc = "verifying" /\ h.status # 202
    BY <1>1 DEF HandlerRecords, HandlerStates, FlowRecords, NotOver
  <2> HIDE DEF h
  <2>3. \A s \in Requests : Continues(s)
    BY <1>1, <2>1, <2>2, HandlerContinues DEF Admitted, Closed
  <2>4. QED
    BY <1>1, <2>1, <2>2, <2>3 DEF QueueStep, QueuesNothing
<1>6. ASSUME NEW r \in Requests, Proceed(r)
      PROVE  QueueStep /\ handler' \in [Requests -> HandlerRecords]
  BY <1>2, <1>5, <1>6
  DEF Proceed, UseCachedToken, RequestChallenge, SendSignature, ReceiveToken,
      FetchPublicKey, ReceiveResult, ReceiveError, ConnectionBreaks, ingestionVars
<1>7. ASSUME NEW r \in Requests, RejectToken(r)
      PROVE  QueueStep /\ handler' \in [Requests -> HandlerRecords]
  BY <1>3, <1>7 DEF RejectToken, Statuses, Closed
<1>8. ASSUME NEW r \in Requests, Admit(r)
      PROVE  QueueStep /\ handler' \in [Requests -> HandlerRecords]
  <2>1. \E h \in HandlerRecords :
          /\ handler' = [handler EXCEPT ![r] = h]
          /\ h.pc \in {"profile", "answered"} /\ h.token = handler[r].token
          /\ h.status # 202
          /\ h.pc = "profile" => h.version = handler[r].version
    <3>1. CASE Answer(r, 400) \/ Answer(r, 500)
      <4>1. PICK status \in {400, 500} : Answer(r, status)
        BY <3>1
      <4>2. handler' = [handler EXCEPT ![r] = AnsweredWith(handler[r].token, status)]
        BY <4>1 DEF Answer, AnsweredWith
      <4>3. status \in Statuses /\ status # 202 /\ handler[r].token \in Nat
        BY <1>1 DEF Statuses, HandlerRecords
      <4> DEFINE h == AnsweredWith(handler[r].token, status)
      <4>4. /\ h \in HandlerRecords /\ h.pc = "answered"
            /\ h.token = handler[r].token /\ h.status = status
        BY <4>3, AnsweredRecord
      <4>5. /\ handler' = [handler EXCEPT ![r] = h]
            /\ h.pc \in {"profile", "answered"} /\ h.token = handler[r].token
            /\ h.status # 202
            /\ h.pc = "profile" => h.version = handler[r].version
        BY <4>2, <4>3, <4>4
      <4> HIDE DEF h
      <4>6. QED
        BY <4>4, <4>5
    <3>2. CASE handler' = [handler EXCEPT
             ![r] = [Idle EXCEPT !.pc = "profile", !.token = handler[r].token,
                                 !.version = handler[r].version]]
      <4>1. handler' = [handler EXCEPT
                          ![r] = AdmittedAs(handler[r].token, handler[r].version)]
        BY <3>2 DEF AdmittedAs
      <4>2. handler[r].token \in Nat /\ handler[r].version \in Nat
        BY <1>1 DEF HandlerRecords
      <4> DEFINE h == AdmittedAs(handler[r].token, handler[r].version)
      <4>3. /\ h \in HandlerRecords /\ h.pc = "profile"
            /\ h.token = handler[r].token /\ h.version = handler[r].version
            /\ h.status # 202
        BY <4>2, AdmittedRecord
      <4>4. QED
        BY <4>1, <4>3
    <3>3. QED
      BY <1>8, <3>1, <3>2 DEF Admit
  <2>2. Admits(r)
    BY <1>8, <2>1 DEF Admit, Admits, Replayed, signInVars
  <2>3. QED
    BY <1>1, <2>1, <2>2 DEF QueueStep
<1>9. ASSUME NEW r \in Requests, LoadUserProfile(r) \/ LoadProtocolConfig(r)
      PROVE  QueueStep /\ handler' \in [Requests -> HandlerRecords]
  BY <1>4, <1>9 DEF LoadUserProfile, LoadProtocolConfig, Admitted
<1>10. ASSUME NEW r \in Requests, AwaitFails(r)
       PROVE  QueueStep /\ handler' \in [Requests -> HandlerRecords]
  BY <1>3, <1>10 DEF AwaitFails, Statuses, Closed
<1>11. ASSUME NEW r \in Requests, EnqueueJobs(r)
       PROVE  QueueStep /\ handler' \in [Requests -> HandlerRecords]
  <2>1. QueuesPair(r)
    BY <1>11 DEF EnqueueJobs, QueuesPair, Answer, signInVars
  <2>2. AnsweredWith(handler[r].token, 202) \in HandlerRecords
    <3>1. handler[r].token \in Nat /\ 202 \in Statuses
      BY <1>1 DEF HandlerRecords, Statuses
    <3>2. QED
      BY <3>1, AnsweredRecord
  <2>3. QED
    BY <1>1, <2>1, <2>2 DEF QueuesPair, QueueStep, AnsweredWith
<1>12. ASSUME NEW r \in Requests, InsertThrows(r)
       PROVE  QueueStep /\ handler' \in [Requests -> HandlerRecords]
  <2>1. CASE UNCHANGED <<queue, torn>>
    BY <1>3, <1>12, <2>1 DEF InsertThrows, Statuses, Closed
  <2>2. CASE queue' = Append(queue, FirstJob(r)) /\ torn' = torn \cup {r}
    <3>1. /\ \A s \in Requests : Continues(s)
          /\ handler' \in [Requests -> HandlerRecords]
          /\ handler'[r].pc = "answered" /\ handler'[r].status # 202
      BY <1>1, <1>12, AnswerContinues DEF InsertThrows, Statuses, Closed
    <3>2. QueuesFirst(r)
      BY <1>12, <2>2, <3>1 DEF InsertThrows, QueuesFirst, Closed, signInVars
    <3>3. QED
      BY <3>1, <3>2 DEF QueueStep
  <2>3. QED
    BY <1>12, <2>1, <2>2 DEF InsertThrows
<1>13. ASSUME NEW r \in Requests, HandlerStep(r)
       PROVE  QueueStep /\ handler' \in [Requests -> HandlerRecords]
  BY <1>7, <1>8, <1>9, <1>10, <1>11, <1>12, <1>13 DEF HandlerStep, Handle
<1>14. ASSUME ServerDies
       PROVE  QueueStep /\ handler' \in [Requests -> HandlerRecords]
  <2>1. \A s \in Requests : handler'[s] =
          IF handler[s].pc \in {"none", "answered"} THEN handler[s]
          ELSE [handler[s] EXCEPT !.pc = "died"]
    BY <1>14 DEF ServerDies
  <2>2. ASSUME NEW s \in Requests
        PROVE  /\ Continues(s) /\ handler'[s] \in HandlerRecords
               /\ handler[s].pc \notin Closed \cup {"none"} =>
                    handler'[s].pc = "died" /\ handler'[s].status # 202
    <3>1. CASE handler[s].pc \in {"none", "answered"}
      BY <1>1, <2>1, <3>1 DEF Continues, Closed
    <3>2. CASE handler[s].pc \notin {"none", "answered"}
      <4> DEFINE h == [handler[s] EXCEPT !.pc = "died"]
      <4>1. handler'[s] = h
        BY <2>1, <3>2
      <4>2. /\ h \in HandlerRecords /\ h.pc = "died" /\ h.status = handler[s].status
            /\ h.token = handler[s].token
        BY <1>1 DEF HandlerRecords, HandlerStates
      <4>3. handler[s].status # 202
        BY <3>2 DEF HandlersTell
      <4>4. handler[s].pc = "died" => h = handler[s]
        BY <1>1 DEF HandlerRecords
      <4> HIDE DEF h
      <4>5. QED
        BY <3>2, <4>1, <4>2, <4>3, <4>4 DEF Continues, Closed, Admitted
    <3>3. QED
      BY <3>1, <3>2
  <2>3. handler' \in [Requests -> HandlerRecords]
    BY <1>14, <2>2 DEF ServerDies
  <2>4. CASE UNCHANGED <<queue, torn>>
    BY <1>14, <2>2, <2>3, <2>4 DEF ServerDies, QueueStep, QueuesNothing
  <2>5. CASE \E r \in Requests :
               /\ handler[r].pc = "publish"
               /\ queue' = Append(queue, FirstJob(r))
               /\ torn' = torn \cup {r}
    BY <1>14, <2>2, <2>3, <2>5 DEF ServerDies, QueueStep, QueuesFirst, Closed,
                                       ForgetChallenges
  <2>6. QED
    BY <1>14, <2>4, <2>5 DEF ServerDies
<1>15. ASSUME NEW i \in DOMAIN queue, SyncDocument(i)
       PROVE  QueueStep /\ handler' \in [Requests -> HandlerRecords]
  BY <1>1, <1>15 DEF SyncDocument, QueueStep, Settles, signInVars
<1>16. QED
  <2>1. CASE \E r \in Requests : Proceed(r) \/ HandlerStep(r)
    BY <1>6, <1>13, <2>1
  <2>2. CASE ServerDies /\ UNCHANGED browserVars
    BY <1>14, <2>2
  <2>3. CASE \E i \in DOMAIN queue : SyncDocument(i)
    BY <1>15, <2>3
  <2>4. CASE \/ \E t \in Tabs, r \in Requests, valid \in BOOLEAN :
                   SubmitForScoring(t, r, valid)
             \/ \E t \in Tabs : RefreshJobFails(t) \/ Reload(t)
             \/ NextDay
             \/ TimePasses
             \/ UNCHANGED submissionVars
    BY <1>2, <2>4
    DEF SubmitForScoring, RefreshJobFails, Reload, NextDay, TimePasses,
        submissionVars, ingestionVars
  <2>5. QED
    BY <2>1, <2>2, <2>3, <2>4 DEF SubmissionNext

\* What the server keeps has its types after any step.
LEMMA ServerTyped ==
  ASSUME TypeOK, TokensHeld, QueueStep, handler' \in [Requests -> HandlerRecords],
         Tokens \subseteq Tokens'
  PROVE  ServerTypeOK'
<1>1. /\ used \subseteq Tokens /\ queue \in Seq(JobRecords) /\ torn \subseteq Requests
      /\ \A r \in Requests : handler[r] \in HandlerRecords
  BY DEF TypeOK, IngestionTypeOK, HandlerRecords, JobRecords
<1>2. CASE QueuesNothing
  BY <1>1, <1>2 DEF QueuesNothing, ServerTypeOK
<1>3. ASSUME NEW r \in Requests, Admits(r) PROVE ServerTypeOK'
  <2>1. handler[r].token \in Tokens
    BY <1>3 DEF Admits, TokensHeld
  <2>2. QED
    BY <1>1, <1>3, <2>1 DEF Admits, ServerTypeOK
<1>4. ASSUME NEW r \in Requests, QueuesPair(r) PROVE ServerTypeOK'
  <2>1. FirstJob(r) \in JobRecords /\ SyncJob(r) \in JobRecords
    BY <1>1, JobsTyped
  <2>2. <<FirstJob(r), SyncJob(r)>> \in Seq(JobRecords)
    BY <2>1
  <2>3. queue' \in Seq(JobRecords)
    BY <1>1, <1>4, <2>2, ConcatProperties DEF QueuesPair
  <2>4. QED
    BY <1>1, <1>4, <2>3 DEF QueuesPair, ServerTypeOK
<1>5. ASSUME NEW r \in Requests, QueuesFirst(r) PROVE ServerTypeOK'
  <2>1. FirstJob(r) \in JobRecords
    BY <1>1, JobsTyped
  <2>2. queue' \in Seq(JobRecords)
    BY <1>1, <1>5, <2>1, AppendProperties DEF QueuesFirst
  <2>3. QED
    BY <1>1, <1>5, <2>2 DEF QueuesFirst, ServerTypeOK
<1>6. ASSUME NEW i \in DOMAIN queue, Settles(i) PROVE ServerTypeOK'
  <2>1. PICK q \in {"completed", "failed"} : queue' = [queue EXCEPT ![i].status = q]
    BY <1>6 DEF Settles
  <2>2. i \in 1 .. Len(queue) /\ queue[i] \in JobRecords
    BY <1>1, LenProperties, ElementOfSeq
  <2>3. [queue[i] EXCEPT !.status = q] \in JobRecords
    BY <2>2 DEF JobRecords, JobStates
  <2>4. queue' = [queue EXCEPT ![i] = [queue[i] EXCEPT !.status = q]]
    BY <2>1
  <2>5. queue' \in Seq(JobRecords)
    BY <1>1, <2>2, <2>3, <2>4, ExceptSeq
  <2>6. QED
    BY <1>1, <1>6, <2>5 DEF Settles, ServerTypeOK
<1>7. QED
  BY <1>2, <1>3, <1>4, <1>5, <1>6 DEF QueueStep

-----------------------------------------------------------------------------
\* The queue after a step: entries stay where they are, with the request, kind
\* and version they have; only a pending document changes its status.
QueueKept ==
  /\ DOMAIN queue \subseteq DOMAIN queue'
  /\ \A i \in DOMAIN queue :
       /\ queue'[i].request = queue[i].request /\ queue'[i].kind = queue[i].kind
       /\ queue'[i].version = queue[i].version
       /\ queue'[i].status # queue[i].status =>
            queue[i].status = "pending" /\ ~IsSubmit(queue[i])

LEMMA PairQueued ==
  ASSUME ServerTypeOK, ServerTypeOK', NEW r \in Requests, QueuesPair(r)
  PROVE  \E n \in Nat :
           /\ DOMAIN queue = 1 .. n /\ DOMAIN queue' = 1 .. n + 2
           /\ \A i \in 1 .. n : queue'[i] = queue[i]
           /\ queue'[n + 1] = FirstJob(r) /\ queue'[n + 2] = SyncJob(r)
<1> DEFINE n == Len(queue)
           pair == <<FirstJob(r), SyncJob(r)>>
<1>1. /\ queue \in Seq(JobRecords) /\ queue' \in Seq(JobRecords)
      /\ FirstJob(r) \in JobRecords /\ SyncJob(r) \in JobRecords
  BY JobsTyped DEF ServerTypeOK
<1>2. pair \in Seq(JobRecords) /\ Len(pair) = 2 /\ pair[1] = FirstJob(r)
      /\ pair[2] = SyncJob(r)
  BY <1>1
<1>3. n \in Nat /\ DOMAIN queue = 1 .. n /\ DOMAIN queue' = 1 .. Len(queue')
  BY <1>1, LenProperties
<1> HIDE DEF n, pair
<1>4. queue' = queue \o pair
  BY DEF QueuesPair, pair
<1>5. /\ Len(queue') = n + 2
      /\ \A i \in 1 .. n + 2 : queue'[i] = IF i <= n THEN queue[i] ELSE pair[i - n]
  <2>1. /\ Len(queue \o pair) = Len(queue) + Len(pair)
        /\ \A i \in 1 .. Len(queue) + Len(pair) :
             (queue \o pair)[i] = IF i <= Len(queue) THEN queue[i]
                                  ELSE pair[i - Len(queue)]
    BY <1>1, <1>2, ConcatProperties
  <2>2. QED
    BY <1>2, <1>4, <2>1 DEF n
<1>6. /\ \A i \in 1 .. n : queue'[i] = queue[i]
      /\ queue'[n + 1] = pair[1] /\ queue'[n + 2] = pair[2]
  BY <1>3, <1>5
<1>7. QED
  BY <1>2, <1>3, <1>5, <1>6

LEMMA FirstQueued ==
  ASSUME ServerTypeOK, ServerTypeOK', NEW r \in Requests, QueuesFirst(r)
  PROVE  \E n \in Nat :
           /\ DOMAIN queue = 1 .. n /\ DOMAIN queue' = 1 .. n + 1
           /\ \A i \in 1 .. n : queue'[i] = queue[i]
           /\ queue'[n + 1] = FirstJob(r)
<1>1. /\ queue \in Seq(JobRecords) /\ FirstJob(r) \in JobRecords
      /\ queue' \in Seq(JobRecords)
  BY JobsTyped DEF ServerTypeOK
<1>2. /\ Len(queue) \in Nat /\ DOMAIN queue = 1 .. Len(queue)
      /\ DOMAIN queue' = 1 .. Len(queue')
  BY <1>1, LenProperties
<1>3. /\ Len(queue') = Len(queue) + 1
      /\ \A i \in 1 .. Len(queue) : queue'[i] = queue[i]
      /\ queue'[Len(queue) + 1] = FirstJob(r)
  BY <1>1, AppendProperties DEF QueuesFirst
<1>4. QED
  BY <1>2, <1>3

LEMMA DocumentSettled ==
  ASSUME ServerTypeOK, NEW i \in DOMAIN queue, Settles(i)
  PROVE  /\ DOMAIN queue' = DOMAIN queue
         /\ \A j \in DOMAIN queue \ {i} : queue'[j] = queue[j]
         /\ queue'[i].request = queue[i].request /\ queue'[i].kind = queue[i].kind
         /\ queue'[i].version = queue[i].version
         /\ queue'[i].status \in {"completed", "failed"}
<1>1. \A j \in DOMAIN queue : queue[j] \in JobRecords
  BY LenProperties, ElementOfSeq DEF ServerTypeOK
<1>2. QED
  BY <1>1 DEF Settles, JobRecords

LEMMA QueueStepKeeps ==
  ASSUME ServerTypeOK, ServerTypeOK', QueueStep
  PROVE  QueueKept
<1>1. CASE QueuesNothing \/ \E r \in Requests : Admits(r)
  BY <1>1 DEF QueuesNothing, Admits, QueueKept
<1>2. ASSUME NEW r \in Requests, QueuesPair(r) PROVE QueueKept
  BY <1>2, PairQueued DEF QueueKept
<1>3. ASSUME NEW r \in Requests, QueuesFirst(r) PROVE QueueKept
  BY <1>3, FirstQueued DEF QueueKept
<1>4. ASSUME NEW i \in DOMAIN queue, Settles(i) PROVE QueueKept
  <2>1. /\ DOMAIN queue' = DOMAIN queue
        /\ \A j \in DOMAIN queue \ {i} : queue'[j] = queue[j]
        /\ queue'[i].request = queue[i].request /\ queue'[i].kind = queue[i].kind
        /\ queue'[i].version = queue[i].version
    BY <1>4, DocumentSettled
  <2>2. queue[i].status = "pending" /\ ~IsSubmit(queue[i])
    BY <1>4 DEF Settles
  <2>3. QED
    BY <2>1, <2>2 DEF QueueKept
<1>5. QED
  BY <1>1, <1>2, <1>3, <1>4 DEF QueueStep

-----------------------------------------------------------------------------
\* The jobs of a request

JobsInv == JobsInPairs /\ OneOfEach /\ HandlersTell

\* A request that was not answered has queued nothing.
LEMMA OpenUnqueued ==
  ASSUME HandlersTell, NEW r \in Requests, handler[r].pc \notin Closed
  PROVE  /\ r \notin torn /\ handler[r].status # 202
         /\ \A i \in DOMAIN queue : queue[i].request # r
BY DEF HandlersTell, Closed

\* Entries that keep their request and kind keep the order of a request's jobs.
LEMMA SameJobs ==
  ASSUME JobsInv, DOMAIN queue' = DOMAIN queue, torn' = torn,
         \A i \in DOMAIN queue :
           queue'[i].request = queue[i].request /\ queue'[i].kind = queue[i].kind
  PROVE  /\ JobsInPairs'
         /\ \A i, j \in DOMAIN queue' :
              queue'[i].request = queue'[j].request /\ queue'[i].kind = queue'[j].kind
                => i = j
         /\ \A r \in Requests, kind \in JobKinds : Queued(r, kind) => Queued(r, kind)'
<1>1. JobsInPairs'
  BY DEF JobsInv, JobsInPairs
<1>2. QED
  BY <1>1 DEF JobsInv, OneOfEach, Queued

LEMMA NothingKeepsJobs ==
  ASSUME ServerTypeOK, JobsInv, UNCHANGED <<queue, torn>>,
         \A s \in Requests :
           \/ handler'[s] = handler[s]
           \/ handler[s].pc \notin Closed /\ handler'[s].status # 202
  PROVE  JobsInv'
<1>1. JobsInPairs' /\ OneOfEach'
  BY DEF JobsInv, JobsInPairs, OneOfEach
<1>2. \A i \in DOMAIN queue : queue[i].request \in Requests
  BY EntryTyped DEF ServerTypeOK
<1>3. \A r \in torn : r \in Requests
  BY DEF ServerTypeOK
<1>4. HandlersTell'
  <2>1. ASSUME NEW i \in DOMAIN queue'
        PROVE  handler'[queue'[i].request].status = 202 \/ queue'[i].request \in torn'
    <3>1. i \in DOMAIN queue /\ queue[i].request \in Requests
      BY <1>2
    <3>2. handler[queue[i].request].pc \in Closed
      BY <3>1, OpenUnqueued DEF JobsInv
    <3>3. handler'[queue[i].request] = handler[queue[i].request]
      BY <3>1, <3>2
    <3>4. QED
      BY <3>1, <3>3 DEF JobsInv, HandlersTell
  <2>2. ASSUME NEW r \in torn'
        PROVE  handler'[r].pc \in Closed /\ handler'[r].status # 202
    BY <1>3, <2>2 DEF JobsInv, HandlersTell
  <2>3. ASSUME NEW r \in Requests, handler'[r].status = 202
        PROVE  handler'[r].pc = "answered" /\ \A kind \in JobKinds : Queued(r, kind)'
    BY <2>3 DEF JobsInv, HandlersTell, Queued
  <2>4. QED
    BY <2>1, <2>2, <2>3 DEF HandlersTell
<1>5. QED
  BY <1>1, <1>4 DEF JobsInv

LEMMA PairKeepsJobs ==
  ASSUME ServerTypeOK, ServerTypeOK', JobsInv, NEW r \in Requests, QueuesPair(r)
  PROVE  JobsInv'
<1>1. PICK n \in Nat :
        /\ DOMAIN queue = 1 .. n /\ DOMAIN queue' = 1 .. n + 2
        /\ \A i \in 1 .. n : queue'[i] = queue[i]
        /\ queue'[n + 1] = FirstJob(r) /\ queue'[n + 2] = SyncJob(r)
  BY PairQueued
<1>2. /\ r \notin torn /\ \A i \in 1 .. n : queue[i].request # r
  BY <1>1, OpenUnqueued DEF QueuesPair, Closed, JobsInv
<1>3. /\ queue'[n + 1].request = r /\ queue'[n + 1].kind = "submit_verified_footprint"
      /\ queue'[n + 2].request = r /\ queue'[n + 2].kind = "sync_sbt_state"
      /\ queue'[n + 1].status = "pending" /\ queue'[n + 2].status = "pending"
  BY <1>1 DEF FirstJob, SyncJob, Job
<1>4. /\ handler'[r].pc = "answered" /\ handler'[r].status = 202
      /\ \A s \in Requests \ {r} : handler'[s] = handler[s]
      /\ torn' = torn
  BY DEF QueuesPair, ServerTypeOK, HandlerRecords
<1>5. \A i \in 1 .. n + 2 : i \in 1 .. n \/ i = n + 1 \/ i = n + 2
  BY <1>1
<1>6. JobsInPairs'
  <2>1. ASSUME NEW s \in Requests, NEW i \in DOMAIN queue',
               queue'[i].request = s, queue'[i].kind = "sync_sbt_state"
        PROVE  \E f \in DOMAIN queue' :
                 /\ queue'[f].request = s /\ f < i
                 /\ queue'[f].kind = "submit_verified_footprint"
    BY <1>1, <1>2, <1>3, <1>5, <2>1 DEF JobsInv, JobsInPairs
  <2>2. ASSUME NEW s \in Requests, s \notin torn', NEW i \in DOMAIN queue',
               queue'[i].request = s, queue'[i].kind = "submit_verified_footprint"
        PROVE  \E f \in DOMAIN queue' :
                 queue'[f].request = s /\ queue'[f].kind = "sync_sbt_state"
    <3>1. CASE s = r
      BY <1>1, <1>3, <3>1
    <3>2. CASE s # r
      <4>1. i \in 1 .. n /\ queue[i] = queue'[i] /\ s \notin torn
        BY <1>1, <1>3, <1>4, <1>5, <2>2, <3>2
      <4>2. \E f \in 1 .. n : queue[f].request = s /\ queue[f].kind = "sync_sbt_state"
        BY <1>1, <2>2, <4>1 DEF JobsInv, JobsInPairs
      <4>3. QED
        BY <1>1, <4>2
    <3>3. QED
      BY <3>1, <3>2
  <2>3. QED
    BY <2>1, <2>2 DEF JobsInPairs
<1>7. OneOfEach'
  BY <1>1, <1>2, <1>3, <1>5 DEF JobsInv, OneOfEach, IsSubmit
<1>8. HandlersTell'
  <2>1. ASSUME NEW i \in DOMAIN queue'
        PROVE  handler'[queue'[i].request].status = 202 \/ queue'[i].request \in torn'
    <3>1. queue'[i].request \in Requests
      BY EntryTyped DEF ServerTypeOK
    <3>2. QED
      BY <1>1, <1>2, <1>3, <1>4, <1>5, <3>1 DEF JobsInv, HandlersTell
  <2>2. ASSUME NEW s \in torn'
        PROVE  handler'[s].pc \in Closed /\ handler'[s].status # 202
    BY <1>2, <1>4, <2>2 DEF JobsInv, HandlersTell, ServerTypeOK
  <2>3. ASSUME NEW s \in Requests, handler'[s].status = 202
        PROVE  handler'[s].pc = "answered" /\ \A kind \in JobKinds : Queued(s, kind)'
    <3>1. CASE s = r
      BY <1>1, <1>3, <1>4, <3>1 DEF Queued, JobKinds
    <3>2. CASE s # r
      <4>1. handler[s].pc = "answered" /\ \A kind \in JobKinds : Queued(s, kind)
        BY <1>4, <2>3, <3>2 DEF JobsInv, HandlersTell
      <4>2. QED
        BY <1>1, <1>4, <3>2, <4>1 DEF Queued
    <3>3. QED
      BY <3>1, <3>2
  <2>4. QED
    BY <2>1, <2>2, <2>3 DEF HandlersTell
<1>9. QED
  BY <1>6, <1>7, <1>8 DEF JobsInv

LEMMA FirstKeepsJobs ==
  ASSUME ServerTypeOK, ServerTypeOK', JobsInv, NEW r \in Requests, QueuesFirst(r)
  PROVE  JobsInv'
<1>1. PICK n \in Nat :
        /\ DOMAIN queue = 1 .. n /\ DOMAIN queue' = 1 .. n + 1
        /\ \A i \in 1 .. n : queue'[i] = queue[i]
        /\ queue'[n + 1] = FirstJob(r)
  BY FirstQueued
<1>2. /\ r \notin torn /\ \A i \in 1 .. n : queue[i].request # r
  BY <1>1, OpenUnqueued DEF QueuesFirst, Closed, JobsInv
<1>3. /\ queue'[n + 1].request = r /\ queue'[n + 1].kind = "submit_verified_footprint"
      /\ queue'[n + 1].status = "pending"
  BY <1>1 DEF FirstJob, Job
<1>4. /\ handler'[r].pc \in Closed /\ handler'[r].status # 202
      /\ torn' = torn \cup {r} /\ handler[r].status # 202
      /\ \A s \in Requests : \/ handler'[s] = handler[s]
                             \/ handler[s].pc \notin Closed /\ handler'[s].status # 202
  BY OpenUnqueued DEF QueuesFirst, Continues, Closed, JobsInv
<1>5. \A i \in 1 .. n + 1 : i \in 1 .. n \/ i = n + 1
  BY <1>1
<1>6. JobsInPairs'
  <2>1. ASSUME NEW s \in Requests, NEW i \in DOMAIN queue',
               queue'[i].request = s, queue'[i].kind = "sync_sbt_state"
        PROVE  \E f \in DOMAIN queue' :
                 /\ queue'[f].request = s /\ f < i
                 /\ queue'[f].kind = "submit_verified_footprint"
    <3>1. i \in 1 .. n /\ queue[i] = queue'[i]
      BY <1>1, <1>3, <1>5, <2>1
    <3>2. \E f \in 1 .. n : /\ queue[f].request = s /\ f < i
                            /\ queue[f].kind = "submit_verified_footprint"
      BY <1>1, <2>1, <3>1 DEF JobsInv, JobsInPairs
    <3>3. QED
      BY <1>1, <3>2
  <2>2. ASSUME NEW s \in Requests, s \notin torn', NEW i \in DOMAIN queue',
               queue'[i].request = s, queue'[i].kind = "submit_verified_footprint"
        PROVE  \E f \in DOMAIN queue' :
                 queue'[f].request = s /\ queue'[f].kind = "sync_sbt_state"
    <3>1. i \in 1 .. n /\ queue[i] = queue'[i] /\ s \notin torn
      BY <1>1, <1>3, <1>4, <1>5, <2>2
    <3>2. \E f \in 1 .. n : queue[f].request = s /\ queue[f].kind = "sync_sbt_state"
      BY <1>1, <2>2, <3>1 DEF JobsInv, JobsInPairs
    <3>3. QED
      BY <1>1, <3>2
  <2>3. QED
    BY <2>1, <2>2 DEF JobsInPairs
<1>7. OneOfEach'
  BY <1>1, <1>2, <1>3, <1>5 DEF JobsInv, OneOfEach, IsSubmit
<1>8. HandlersTell'
  <2>1. ASSUME NEW i \in DOMAIN queue'
        PROVE  handler'[queue'[i].request].status = 202 \/ queue'[i].request \in torn'
    <3>1. queue'[i].request \in Requests
      BY EntryTyped DEF ServerTypeOK
    <3>2. CASE i \in 1 .. n
      <4>1. handler[queue[i].request].pc \in Closed
        BY <1>1, <3>1, <3>2, OpenUnqueued DEF JobsInv
      <4>2. QED
        BY <1>1, <1>4, <3>1, <3>2, <4>1 DEF JobsInv, HandlersTell
    <3>3. CASE i = n + 1
      BY <1>3, <1>4, <3>3
    <3>4. QED
      BY <1>1, <1>5, <3>2, <3>3
  <2>2. ASSUME NEW s \in torn'
        PROVE  handler'[s].pc \in Closed /\ handler'[s].status # 202
    BY <1>4, <2>2 DEF JobsInv, HandlersTell, ServerTypeOK
  <2>3. ASSUME NEW s \in Requests, handler'[s].status = 202
        PROVE  handler'[s].pc = "answered" /\ \A kind \in JobKinds : Queued(s, kind)'
    <3>1. /\ handler'[s] = handler[s]
          /\ handler[s].pc = "answered" /\ \A kind \in JobKinds : Queued(s, kind)
      BY <1>4, <2>3 DEF JobsInv, HandlersTell
    <3>2. QED
      BY <1>1, <3>1 DEF Queued
  <2>4. QED
    BY <2>1, <2>2, <2>3 DEF HandlersTell
<1>9. QED
  BY <1>6, <1>7, <1>8 DEF JobsInv

LEMMA SettlingKeepsJobs ==
  ASSUME ServerTypeOK, JobsInv, NEW i \in DOMAIN queue, Settles(i)
  PROVE  JobsInv'
<1>1. /\ DOMAIN queue' = DOMAIN queue
      /\ \A j \in DOMAIN queue : /\ queue'[j].request = queue[j].request
                                 /\ queue'[j].kind = queue[j].kind
                                 /\ j # i => queue'[j].status = queue[j].status
      /\ ~IsSubmit(queue[i]) /\ UNCHANGED <<handler, torn>>
  BY DocumentSettled DEF Settles
<1>2. /\ JobsInPairs'
      /\ \A j, k \in DOMAIN queue' :
           queue'[k].request = queue'[j].request /\ queue'[k].kind = queue'[j].kind
             => k = j
      /\ \A r \in Requests, kind \in JobKinds : Queued(r, kind) => Queued(r, kind)'
  BY <1>1, SameJobs
<1>3. OneOfEach'
  BY <1>1, <1>2 DEF JobsInv, OneOfEach, IsSubmit
<1>4. HandlersTell'
  BY <1>1, <1>2 DEF JobsInv, HandlersTell
<1>5. QED
  BY <1>2, <1>3, <1>4 DEF JobsInv

LEMMA JobsKept ==
  ASSUME ServerTypeOK, ServerTypeOK', JobsInv, QueueStep
  PROVE  JobsInv'
<1>1. CASE QueuesNothing
  <2>1. \A s \in Requests :
          \/ handler'[s] = handler[s]
          \/ handler[s].pc \notin Closed /\ handler'[s].status # 202
    BY <1>1 DEF QueuesNothing, Continues
  <2>2. QED
    BY <1>1, <2>1, NothingKeepsJobs DEF QueuesNothing
<1>2. ASSUME NEW r \in Requests, Admits(r) PROVE JobsInv'
  <2>1. \A s \in Requests :
          \/ handler'[s] = handler[s]
          \/ handler[s].pc \notin Closed /\ handler'[s].status # 202
    BY <1>2 DEF Admits, Closed, ServerTypeOK
  <2>2. QED
    BY <1>2, <2>1, NothingKeepsJobs DEF Admits
<1>3. QED
  BY <1>1, <1>2, PairKeepsJobs, FirstKeepsJobs, SettlingKeepsJobs DEF QueueStep

-----------------------------------------------------------------------------
\* Tokens are tickets

\* What a request that is admitted or queued did to its token stays.
LEMMA SpendingStays ==
  ASSUME ServerTypeOK, ServerTypeOK', JobsInv, QueueStep,
         NEW s \in Requests, Spending(s)', ~Admits(s)
  PROVE  Spending(s) /\ handler'[s].token = handler[s].token
<1>1. ASSUME Continues(s), Queued(s, "submit_verified_footprint")' =>
                             Spending(s)
      PROVE  Spending(s) /\ handler'[s].token = handler[s].token
  <2>1. Spending(s)
    BY <1>1 DEF Spending, Continues
  <2>2. Spending(s) => handler[s].pc # "none"
    BY OpenUnqueued DEF Spending, Admitted, Closed, JobsInv, Queued
  <2>3. QED
    BY <1>1, <2>1, <2>2 DEF Continues
<1>2. CASE QueuesNothing
  BY <1>1, <1>2 DEF QueuesNothing, Queued, Spending
<1>3. ASSUME NEW r \in Requests, Admits(r)
      PROVE  Spending(s) /\ handler'[s].token = handler[s].token
  <2>1. r # s
    BY <1>3
  <2>2. handler'[s] = handler[s] /\ queue' = queue
    BY <1>3, <2>1 DEF Admits, ServerTypeOK
  <2>3. QED
    BY <2>2 DEF Spending, Queued
<1>4. ASSUME NEW r \in Requests, QueuesPair(r)
      PROVE  Spending(s) /\ handler'[s].token = handler[s].token
  <2>1. PICK n \in Nat :
          /\ DOMAIN queue = 1 .. n /\ DOMAIN queue' = 1 .. n + 2
          /\ \A i \in 1 .. n : queue'[i] = queue[i]
          /\ queue'[n + 1] = FirstJob(r) /\ queue'[n + 2] = SyncJob(r)
    BY <1>4, PairQueued
  <2>2. CASE s = r
    <3>1. handler'[r].token = handler[r].token
      BY <1>4 DEF QueuesPair, ServerTypeOK, HandlerRecords
    <3>2. QED
      BY <1>4, <2>2, <3>1 DEF QueuesPair, Spending, Admitted
  <2>3. CASE s # r
    <3>1. handler'[s] = handler[s]
      BY <1>4, <2>3 DEF QueuesPair, ServerTypeOK
    <3>2. Queued(s, "submit_verified_footprint")' =>
            Queued(s, "submit_verified_footprint")
      <4>1. \A i \in 1 .. n + 2 : i \in 1 .. n \/ i = n + 1 \/ i = n + 2
        BY <2>1
      <4>2. FirstJob(r).request = r /\ SyncJob(r).request = r
        BY DEF FirstJob, SyncJob, Job
      <4>3. QED
        BY <2>1, <2>3, <4>1, <4>2 DEF Queued
    <3>3. QED
      BY <3>1, <3>2 DEF Spending
  <2>4. QED
    BY <2>2, <2>3
<1>5. ASSUME NEW r \in Requests, QueuesFirst(r)
      PROVE  Spending(s) /\ handler'[s].token = handler[s].token
  <2>1. PICK n \in Nat :
          /\ DOMAIN queue = 1 .. n /\ DOMAIN queue' = 1 .. n + 1
          /\ \A i \in 1 .. n : queue'[i] = queue[i]
          /\ queue'[n + 1] = FirstJob(r)
    BY <1>5, FirstQueued
  <2>2. \A i \in 1 .. n + 1 : i \in 1 .. n \/ i = n + 1
    BY <2>1
  <2>3. FirstJob(r).request = r /\ handler[r].pc \in Admitted /\ Continues(s)
    BY <1>5 DEF FirstJob, Job, QueuesFirst, Admitted
  <2>4. Queued(s, "submit_verified_footprint")' => Spending(s)
    BY <2>1, <2>2, <2>3 DEF Queued, Spending
  <2>5. QED
    BY <1>1, <2>3, <2>4
<1>6. ASSUME NEW i \in DOMAIN queue, Settles(i)
      PROVE  Spending(s) /\ handler'[s].token = handler[s].token
  <2>1. /\ DOMAIN queue' = DOMAIN queue /\ handler' = handler
        /\ \A j \in DOMAIN queue : /\ queue'[j].request = queue[j].request
                                   /\ queue'[j].kind = queue[j].kind
    BY <1>6, DocumentSettled DEF Settles
  <2>2. QED
    BY <2>1 DEF Spending, Queued
<1>7. QED
  BY <1>2, <1>3, <1>4, <1>5, <1>6 DEF QueueStep

LEMMA OwnTokensKept ==
  ASSUME ServerTypeOK, ServerTypeOK', JobsInv, OwnTokens, QueueStep
  PROVE  OwnTokens'
<1>1. CASE \E r \in Requests : Admits(r)
  <2>1. PICK r \in Requests : Admits(r)
    BY <1>1
  <2>2. \A s \in Requests : Admits(s) => s = r
    BY <2>1 DEF Admits, ServerTypeOK
  <2>3. \A s \in Requests \ {r} :
          Spending(s)' => Spending(s) /\ handler'[s].token = handler[s].token
    BY <2>2, SpendingStays
  <2>4. /\ handler'[r].token = handler[r].token
        /\ handler[r].token \notin used /\ used' = used \cup {handler[r].token}
    BY <2>1 DEF Admits, ServerTypeOK
  <2>5. QED
    BY <2>3, <2>4 DEF OwnTokens
<1>2. CASE ~ \E r \in Requests : Admits(r)
  <2>1. \A s \in Requests :
          Spending(s)' => Spending(s) /\ handler'[s].token = handler[s].token
    BY <1>2, SpendingStays
  <2>2. used' = used
    BY <1>2 DEF QueueStep, QueuesNothing, QueuesPair, QueuesFirst, Settles
  <2>3. QED
    BY <2>1, <2>2 DEF OwnTokens
<1>3. QED
  BY <1>1, <1>2

\* Footprints that stay, with the tickets they have.
LEMMA SameFootprints ==
  ASSUME Footprints' = Footprints, \A i \in Footprints : TicketOf(i)' = TicketOf(i)
  PROVE  HonouredTickets' = HonouredTickets
<1>1. {TicketOf(i)' : i \in Footprints'} = {TicketOf(i) : i \in Footprints}
  OBVIOUS
<1>2. \A t : {i \in Footprints' : TicketOf(i)' = t} = {i \in Footprints : TicketOf(i) = t}
  OBVIOUS
<1>3. QED
  BY <1>1, <1>2 DEF HonouredTickets

\* One more footprint, with a ticket that no other has.
LEMMA NewFootprint ==
  ASSUME NEW n, n \notin Footprints, Footprints' = Footprints \cup {n},
         \A i \in Footprints : TicketOf(i)' = TicketOf(i),
         \A i \in Footprints : TicketOf(i) # TicketOf(n)'
  PROVE  /\ TicketOf(n)' \notin DOMAIN HonouredTickets
         /\ HonouredTickets' =
              [u \in DOMAIN HonouredTickets \cup {TicketOf(n)'} |->
                 IF u = TicketOf(n)' THEN 1 ELSE HonouredTickets[u]]
<1> DEFINE t == TicketOf(n)'
           Of(u) == {i \in Footprints : TicketOf(i) = u}
           OfNew(u) == {i \in Footprints' : TicketOf(i)' = u}
<1>1. DOMAIN HonouredTickets = {TicketOf(i) : i \in Footprints}
  BY DEF HonouredTickets
<1>2. t \notin DOMAIN HonouredTickets
  BY <1>1
<1>3. {TicketOf(i)' : i \in Footprints'} = DOMAIN HonouredTickets \cup {t}
  BY <1>1
<1>4. OfNew(t) = {n}
  OBVIOUS
<1>5. Cardinality(OfNew(t)) = 1
  BY <1>4, FS_Singleton
<1>6. ASSUME NEW u \in DOMAIN HonouredTickets
      PROVE  u # t /\ Cardinality(OfNew(u)) = HonouredTickets[u]
  <2>1. u # t
    BY <1>2
  <2>2. OfNew(u) = Of(u)
    BY <2>1
  <2>3. QED
    BY <1>1, <2>1, <2>2 DEF HonouredTickets
<1>7. HonouredTickets' =
        [u \in DOMAIN HonouredTickets \cup {t} |-> Cardinality(OfNew(u))]
  BY <1>3 DEF HonouredTickets
<1>8. QED
  BY <1>2, <1>5, <1>6, <1>7

LEMMA TicketsHonoured ==
  ASSUME ServerTypeOK, ServerTypeOK', JobsInv, OwnTokens, SignInTypeOK,
         tokens' = tokens, NEW r \in Requests, NEW n, n \notin DOMAIN queue,
         handler[r].pc = "publish", handler'[r].token = handler[r].token, used' = used,
         \A s \in Requests : handler[s].pc \in Closed => handler'[s] = handler[s],
         Footprints' = Footprints \cup {n}, queue'[n].request = r,
         \A i \in DOMAIN queue : queue'[i].request = queue[i].request
  PROVE  TicketsOfTokens!Next
<1> DEFINE t == handler[r].token
<1>1. TicketOf(n)' = t
  BY DEF TicketOf
<1>2. Spending(r) /\ t \in used /\ t \in Tokens
  BY DEF Spending, Admitted, OwnTokens, ServerTypeOK
<1>3. ASSUME NEW i \in Footprints
      PROVE  TicketOf(i)' = TicketOf(i) /\ TicketOf(i) # t
  <2> DEFINE s == queue[i].request
  <2>1. i \in DOMAIN queue /\ s \in Requests /\ queue[i].kind = "submit_verified_footprint"
    BY <1>3, EntryTyped DEF Footprints, IsSubmit, ServerTypeOK
  <2>2. handler[s].pc \in Closed
    BY <2>1, OpenUnqueued DEF JobsInv
  <2>3. s # r
    BY <2>2 DEF Closed
  <2>4. Spending(s)
    BY <2>1 DEF Spending, Queued
  <2>5. TicketOf(i) # t
    BY <1>2, <2>1, <2>3, <2>4 DEF OwnTokens, TicketOf
  <2>6. TicketOf(i)' = TicketOf(i)
    BY <2>1, <2>2 DEF TicketOf
  <2>7. QED
    BY <2>5, <2>6
<1>4. n \notin Footprints
  BY DEF Footprints
<1>5. /\ t \notin DOMAIN HonouredTickets
      /\ HonouredTickets' = [u \in DOMAIN HonouredTickets \cup {t} |->
                               IF u = t THEN 1 ELSE HonouredTickets[u]]
  <2>1. /\ \A i \in Footprints : TicketOf(i)' = TicketOf(i)
        /\ \A i \in Footprints : TicketOf(i) # TicketOf(n)'
    BY <1>1, <1>3
  <2>2. /\ TicketOf(n)' \notin DOMAIN HonouredTickets
        /\ HonouredTickets' =
              [u \in DOMAIN HonouredTickets \cup {TicketOf(n)'} |->
                 IF u = TicketOf(n)' THEN 1 ELSE HonouredTickets[u]]
    BY <1>4, <2>1, NewFootprint
  <2>3. QED
    BY <1>1, <2>2
<1>6. TicketsOfTokens!Honour(t)
  BY <1>2, <1>5 DEF TicketsOfTokens!Honour
<1>7. t \in 1 .. Len(tokens)
  BY <1>2, LenProperties DEF Tokens, SignInTypeOK
<1>8. QED
  BY <1>6, <1>7 DEF TicketsOfTokens!Next

\* Every step grants a token, spends one, honours one, or does not matter.
LEMMA TicketStep ==
  ASSUME ServerTypeOK, ServerTypeOK', JobsInv, OwnTokens, SignInTypeOK, TokensHeld,
         Len(tokens') \in {Len(tokens), Len(tokens) + 1}, QueueStep
  PROVE  [TicketsOfTokens!Next]_TicketsOfTokens!vars
<1>1. \A i \in Footprints :
        /\ i \in DOMAIN queue /\ queue[i].request \in Requests
        /\ handler[queue[i].request].pc \in Closed
  BY EntryTyped, OpenUnqueued DEF Footprints, JobsInv, ServerTypeOK
<1>2. ASSUME UNCHANGED queue,
             \A s \in Requests : handler[s].pc \in Closed => handler'[s] = handler[s]
      PROVE  HonouredTickets' = HonouredTickets
  <2>1. Footprints' = Footprints /\ \A i \in Footprints : TicketOf(i)' = TicketOf(i)
    BY <1>1, <1>2 DEF Footprints, TicketOf
  <2>2. QED
    BY <2>1, SameFootprints
<1>3. CASE QueuesNothing
  <2>1. HonouredTickets' = HonouredTickets /\ used' = used
    BY <1>2, <1>3 DEF QueuesNothing, Continues
  <2>2. QED
    BY <2>1 DEF TicketsOfTokens!Next, TicketsOfTokens!Grant, TicketsOfTokens!vars
<1>4. ASSUME NEW r \in Requests, Admits(r) PROVE TicketsOfTokens!Next
  <2>1. \A s \in Requests : handler[s].pc \in Closed => handler'[s] = handler[s]
    BY <1>4 DEF Admits, Closed, ServerTypeOK
  <2>2. HonouredTickets' = HonouredTickets
    BY <1>2, <1>4, <2>1 DEF Admits
  <2>3. handler[r].token \in 1 .. Len(tokens)
    BY <1>4, LenProperties DEF Admits, TokensHeld, Tokens, SignInTypeOK
  <2>4. TicketsOfTokens!Spend(handler[r].token)
    BY <1>4, <2>2, <2>3 DEF Admits, TicketsOfTokens!Spend
  <2>5. QED
    BY <2>3, <2>4 DEF TicketsOfTokens!Next
<1>5. ASSUME NEW r \in Requests, QueuesPair(r) PROVE TicketsOfTokens!Next
  <2>1. PICK n \in Nat :
          /\ DOMAIN queue = 1 .. n /\ DOMAIN queue' = 1 .. n + 2
          /\ \A i \in 1 .. n : queue'[i] = queue[i]
          /\ queue'[n + 1] = FirstJob(r) /\ queue'[n + 2] = SyncJob(r)
    BY <1>5, PairQueued
  <2>2. /\ handler'[r].token = handler[r].token /\ handler[r].pc = "publish"
        /\ \A s \in Requests : handler[s].pc \in Closed => handler'[s] = handler[s]
        /\ used' = used /\ tokens' = tokens
    BY <1>5 DEF QueuesPair, Closed, ServerTypeOK, HandlerRecords
  <2>3. IsSubmit(FirstJob(r)) /\ ~IsSubmit(SyncJob(r)) /\ FirstJob(r).request = r
    BY DEF IsSubmit, FirstJob, SyncJob, Job
  <2>4. Footprints' = Footprints \cup {n + 1}
    <3>1. \A i \in 1 .. n + 2 : i \in 1 .. n \/ i = n + 1 \/ i = n + 2
      BY <2>1
    <3>2. QED
      BY <2>1, <2>3, <3>1 DEF Footprints
  <2>5. n + 1 \notin DOMAIN queue
    BY <2>1
  <2>6. QED
    BY <2>1, <2>2, <2>3, <2>4, <2>5, TicketsHonoured
<1>6. ASSUME NEW r \in Requests, QueuesFirst(r) PROVE TicketsOfTokens!Next
  <2>1. PICK n \in Nat :
          /\ DOMAIN queue = 1 .. n /\ DOMAIN queue' = 1 .. n + 1
          /\ \A i \in 1 .. n : queue'[i] = queue[i]
          /\ queue'[n + 1] = FirstJob(r)
    BY <1>6, FirstQueued
  <2>2. /\ handler'[r].token = handler[r].token /\ handler[r].pc = "publish"
        /\ \A s \in Requests : handler[s].pc \in Closed => handler'[s] = handler[s]
        /\ used' = used /\ tokens' = tokens
    BY <1>6 DEF QueuesFirst, Continues, Closed
  <2>3. IsSubmit(FirstJob(r)) /\ FirstJob(r).request = r
    BY DEF IsSubmit, FirstJob, Job
  <2>4. Footprints' = Footprints \cup {n + 1}
    <3>1. \A i \in 1 .. n + 1 : i \in 1 .. n \/ i = n + 1
      BY <2>1
    <3>2. QED
      BY <2>1, <2>3, <3>1 DEF Footprints
  <2>5. n + 1 \notin DOMAIN queue
    BY <2>1
  <2>6. QED
    BY <2>1, <2>2, <2>3, <2>4, <2>5, TicketsHonoured
<1>7. ASSUME NEW i \in DOMAIN queue, Settles(i) PROVE UNCHANGED TicketsOfTokens!vars
  <2>1. /\ DOMAIN queue' = DOMAIN queue /\ UNCHANGED <<handler, used, tokens>>
        /\ \A j \in DOMAIN queue : /\ queue'[j].request = queue[j].request
                                   /\ queue'[j].kind = queue[j].kind
    BY <1>7, DocumentSettled DEF Settles
  <2>2. Footprints' = Footprints /\ \A j \in Footprints : TicketOf(j)' = TicketOf(j)
    BY <2>1 DEF Footprints, TicketOf, IsSubmit
  <2>3. QED
    BY <2>1, <2>2, SameFootprints DEF TicketsOfTokens!vars
<1>8. QED
  BY <1>3, <1>4, <1>5, <1>6, <1>7 DEF QueueStep

-----------------------------------------------------------------------------
\* The browser

\* The flow of r starts, goes on or ends, and becomes f.
FlowStarts(r, f) ==
  /\ flow[r].pc = "none" /\ f.pc = "token" /\ f.day = today /\ f.token = NoToken
  /\ f.tab \in Tabs /\ tab[f.tab].day # today
  /\ f.version = tab[f.tab].version /\ f.seen = tab[f.tab].seen

FlowGoesOn(r, f) ==
  /\ flow[r].pc \in Unsent \ {"none"} /\ f.pc \in Unsent \ {"none"}
  /\ f.token \in Tokens' \cup {NoToken}
  /\ f.pc \in {"key", "post"} => f.token \in Tokens'
  /\ f.version = flow[r].version /\ f.seen = flow[r].seen

FlowEnds(r, f) ==
  /\ flow[r].pc \notin Ended \cup {"none"} /\ f.pc \in Ended \cup {"posted"}
  /\ f.token \in Tokens' \cup {NoToken} /\ f.seen = flow[r].seen
  /\ f.pc = "succeeded" =>
       /\ handler[r].pc = "answered" /\ handler[r].status = 202
       /\ f.day = today /\ today' = today
       /\ stored' = today /\ tab'[f.tab].day = today
  /\ f.pc = "refused" =>
       \/ handler[r].pc = "none"
       \/ handler[r].pc = "answered" /\ handler[r].status # 202

FlowStep ==
  /\ flow' \in [Requests -> FlowRecords]
  /\ \A r \in Requests :
       \/ flow'[r] = flow[r]
       \/ FlowStarts(r, flow'[r]) \/ FlowGoesOn(r, flow'[r]) \/ FlowEnds(r, flow'[r])

\* A tab is loaded anew, or keeps its snapshot and takes a token or a day.
TabMoves(t, q) ==
  \/ q = Loaded /\ UNCHANGED <<queue, version>>
  \/ /\ q.version = tab[t].version /\ q.seen = tab[t].seen
     /\ q.token \in Tokens' \cup {NoToken} /\ q.day \in {tab[t].day, today}

TabStep ==
  /\ tab' \in [Tabs -> TabRecords]
  /\ \A t \in Tabs : TabMoves(t, tab'[t])

\* A handler gets to work for a flow that posts its request.
Arrives ==
  \A r \in Requests : handler[r].pc = "none" =>
    \/ handler'[r] = handler[r] 
    \/ /\ flow[r].pc = "post" /\ flow'[r].pc = "posted"
       /\ handler'[r].pc = "verifying" /\ handler'[r].token = flow[r].token
       /\ handler'[r].version = flow[r].version

DaysStep ==
  /\ stored' \in {stored, today}
  /\ \/ today' = today
     \/ today' = today + 1 /\ today' \in 1 .. MaxDay

BrowserStep == FlowStep /\ TabStep /\ Arrives /\ DaysStep
BrowserTypeOK ==
  /\ flow \in [Requests -> FlowRecords]
  /\ tab \in [Tabs -> TabRecords]
  /\ today \in 1 .. MaxDay /\ stored \in 0 .. MaxDay /\ version \in Nat

LEMMA EndsTyped ==
  ASSUME BrowserTypeOK, NEW r \in Requests, NEW pc \in FlowStates
  PROVE  /\ NoFlow \in FlowRecords /\ NoFlow.token = NoToken /\ NoFlow.pc = "none"
         /\ EndOf(r, pc) \in FlowRecords
         /\ EndOf(r, pc).pc = pc /\ EndOf(r, pc).tab = flow[r].tab
         /\ EndOf(r, pc).day = flow[r].day /\ EndOf(r, pc).seen = flow[r].seen
         /\ EndOf(r, pc).token = NoToken
<1>1. (CHOOSE t \in Tabs : TRUE) \in Tabs
  BY SubmissionAssumption
<1>2. NoFlow \in FlowRecords /\ NoFlow.token = NoToken /\ NoFlow.pc = "none"
  BY <1>1 DEF NoFlow, FlowRecords, FlowStates, NoChallenge, NoToken, NoDay
<1>3. flow[r] \in FlowRecords
  BY DEF BrowserTypeOK
<1>4. QED
  BY <1>2, <1>3 DEF EndOf, FlowRecords

LEMMA LoadedTyped ==
  ASSUME BrowserTypeOK, ServerTypeOK
  PROVE  /\ Loaded \in TabRecords /\ Loaded.version = version /\ Loaded.seen = Settled
         /\ Loaded.token = NoToken /\ Loaded.day = stored
<1>1. Settled \subseteq Requests
  BY EntryTyped DEF Settled, ServerTypeOK
<1>2. QED
  BY <1>1, SubmissionAssumption
  DEF Loaded, TabRecords, Stages, NoToken, BrowserTypeOK

\* The types that the browser's steps start from
Typed ==
  /\ BrowserTypeOK /\ ServerTypeOK /\ SignInTypeOK /\ key \in Nat

\* One flow and one tab move, the other flows and tabs stay.
LEMMA OneFlowMoves ==
  ASSUME Typed, TokensHeld, Tokens \subseteq Tokens',
         NEW r \in Requests, NEW f \in FlowRecords, flow' = [flow EXCEPT ![r] = f],
         FlowStarts(r, f) \/ FlowGoesOn(r, f) \/ FlowEnds(r, f)
  PROVE  FlowStep
BY DEF Typed, BrowserTypeOK, FlowStep

LEMMA FlowsStay ==
  ASSUME Typed, flow' = flow PROVE FlowStep
BY DEF Typed, BrowserTypeOK, FlowStep

LEMMA OneTabMoves ==
  ASSUME Typed, TokensHeld, Tokens \subseteq Tokens',
         NEW t \in Tabs, NEW q \in TabRecords, tab' = [tab EXCEPT ![t] = q],
         TabMoves(t, q)
  PROVE  TabStep
<1>1. ASSUME NEW s \in Tabs PROVE TabMoves(s, tab[s])
  BY DEF TabMoves, TokensHeld
<1>2. QED
  BY <1>1 DEF Typed, BrowserTypeOK, TabStep

LEMMA TabsStay ==
  ASSUME Typed, TokensHeld, Tokens \subseteq Tokens', tab' = tab PROVE TabStep
BY DEF Typed, BrowserTypeOK, TabStep, TabMoves, TokensHeld

\* The handlers that nobody called do not start.
LEMMA NobodyArrives ==
  ASSUME \A s \in Requests : handler[s].pc = "none" => handler'[s] = handler[s]
  PROVE  Arrives
BY DEF Arrives

\* Fail ends the flow without a token.
LEMMA FailMoves ==
  ASSUME Typed, TokensHeld, Tokens \subseteq Tokens',
         NEW r \in Requests, NEW pc \in {"refused", "broken"}, Fail(r, pc),
         flow[r].pc \notin Ended \cup {"none"},
         pc = "refused" => \/ handler[r].pc = "none"
                           \/ handler[r].pc = "answered" /\ handler[r].status # 202
  PROVE  FlowStep /\ TabStep /\ UNCHANGED <<stored, today, version>>
<1>1. pc \in FlowStates
  BY DEF FlowStates
<1>2. /\ EndOf(r, pc) \in FlowRecords
      /\ EndOf(r, pc).pc = pc /\ EndOf(r, pc).tab = flow[r].tab
      /\ EndOf(r, pc).seen = flow[r].seen /\ EndOf(r, pc).token = NoToken
  BY <1>1, EndsTyped DEF Typed
<1>3. FlowEnds(r, EndOf(r, pc))
  BY <1>2 DEF FlowEnds, Ended
<1>4. flow' = [flow EXCEPT ![r] = EndOf(r, pc)] /\ UNCHANGED <<stored, today, version>>
  BY DEF Fail
<1>5. FlowStep
  BY <1>2, <1>3, <1>4, OneFlowMoves
<1> DEFINE t == flow[r].tab
           q == [tab[t] EXCEPT !.stage = "other"]
<1>6. t \in Tabs /\ tab[t] \in TabRecords
  BY DEF Typed, BrowserTypeOK, FlowRecords
<1>7. tab' = [tab EXCEPT ![t] = q]
  BY <1>6 DEF Fail
<1>8. q \in TabRecords /\ TabMoves(t, q)
  BY <1>6 DEF TabRecords, Stages, TabMoves, TokensHeld
<1>9. TabStep
  BY <1>6, <1>7, <1>8, OneTabMoves
<1>10. QED
  BY <1>4, <1>5, <1>9

\* A flow that takes a token calls for the next, or goes on to fetch the key.
LEMMA TakeTokenMoves ==
  ASSUME Typed, TokensHeld, Tokens \subseteq Tokens',
         NEW r \in Requests, NEW k \in Tokens', k \in Nat, TakeToken(r, k),
         flow[r].pc \in Unsent \ {"none"}
  PROVE  FlowStep
<1> DEFINE pc == IF flow[r].again THEN "key" ELSE "token"
           f == [flow[r] EXCEPT !.pc = pc, !.again = TRUE, !.token = k]
<1>1. flow \in [Requests -> FlowRecords] /\ flow[r] \in FlowRecords
  BY DEF Typed, BrowserTypeOK
<1>2. flow' = [flow EXCEPT ![r] = f]
  BY <1>1 DEF TakeToken, FlowRecords
<1>3. pc \in FlowStates /\ pc \in Unsent \ {"none"} /\ TRUE \in BOOLEAN
  BY DEF FlowStates, Unsent
<1> HIDE DEF pc
<1>4. f \in FlowRecords
  BY <1>1, <1>3 DEF FlowRecords
<1>5. /\ f.pc = pc /\ f.token = k /\ f.version = flow[r].version
      /\ f.seen = flow[r].seen
  BY <1>1 DEF FlowRecords
<1> HIDE DEF f
<1>6. FlowGoesOn(r, f)
  BY <1>3, <1>5 DEF FlowGoesOn
<1>7. QED
  BY <1>2, <1>4, <1>6, OneFlowMoves

\* A flow that goes on without a new token.
LEMMA FlowMovesOn ==
  ASSUME Typed, TokensHeld, Tokens \subseteq Tokens',
         NEW r \in Requests, NEW f \in FlowRecords, flow' = [flow EXCEPT ![r] = f],
         flow[r].pc \in Unsent \ {"none"}, f.pc \in Unsent \ {"none"},
         f.token = flow[r].token, f.version = flow[r].version,
         f.seen = flow[r].seen,
         f.pc \in {"key", "post"} => flow[r].pc \in {"key", "post"}
  PROVE  FlowStep
<1>1. FlowGoesOn(r, f)
  BY DEF FlowGoesOn, TokensHeld
<1>2. QED
  BY <1>1, OneFlowMoves

-----------------------------------------------------------------------------
\* The browser's actions

LEMMA FlowBegins ==
  ASSUME Typed, TokensHeld, Tokens \subseteq Tokens', NEW t \in Tabs,
         NEW r \in Requests, NEW valid \in BOOLEAN, SubmitForScoring(t, r, valid)
  PROVE  BrowserStep
<1> DEFINE f == [NoFlow EXCEPT !.pc = "token", !.tab = t, !.valid = valid,
                               !.version = tab[t].version, !.day = today,
                               !.seen = tab[t].seen]
           q == [tab[t] EXCEPT !.stage = "submitting"]
<1>1. /\ flow[r].pc = "none" /\ tab[t].day # today
      /\ flow' = [flow EXCEPT ![r] = f]
      /\ tab' = [tab EXCEPT ![t].stage = "submitting"]
      /\ handler' = handler /\ stored' = stored /\ today' = today
  BY DEF SubmitForScoring, CanSubmit, HasSubmittedToday, ingestionVars
<1>2. tab[t] \in TabRecords /\ today \in Nat
  BY DEF Typed, BrowserTypeOK
<1>3. NoFlow \in FlowRecords /\ NoFlow.token = NoToken /\ "token" \in FlowStates
  BY EndsTyped DEF Typed, FlowStates, Ended
<1>4. f \in FlowRecords
  BY <1>2, <1>3 DEF FlowRecords, TabRecords
<1>5. /\ f.pc = "token" /\ f.tab = t /\ f.version = tab[t].version
      /\ f.day = today /\ f.seen = tab[t].seen /\ f.token = NoToken
  BY <1>3 DEF FlowRecords
<1> HIDE DEF f
<1>6. FlowStarts(r, f)
  BY <1>1, <1>5 DEF FlowStarts
<1>7. FlowStep
  BY <1>1, <1>4, <1>6, OneFlowMoves
<1>8. tab' = [tab EXCEPT ![t] = q]
  BY <1>1
<1>9. q \in TabRecords /\ TabMoves(t, q)
  BY <1>2 DEF TabRecords, Stages, TabMoves, TokensHeld
<1>10. TabStep
  BY <1>8, <1>9, OneTabMoves
<1>11. Arrives /\ DaysStep
  BY <1>1, NobodyArrives DEF DaysStep
<1>12. QED
  BY <1>7, <1>10, <1>11 DEF BrowserStep

\* A flow and a tab move, nothing else does in the browser.
LEMMA QuietStep ==
  ASSUME FlowStep, TabStep, UNCHANGED <<handler, stored, today>>
  PROVE  BrowserStep
BY NobodyArrives DEF BrowserStep, DaysStep

\* On its way to a token and the key
LEMMA FlowAdvances ==
  ASSUME Typed, TokensHeld, FlowsTell, SignInTypeOK', Tokens \subseteq Tokens',
         Tokens' \subseteq Nat \ {0}, NEW r \in Requests,
         \/ UseCachedToken(r) \/ RequestChallenge(r) \/ SendSignature(r)
         \/ ReceiveToken(r) \/ FetchPublicKey(r)
  PROVE  BrowserStep
<1>1. /\ flow \in [Requests -> FlowRecords] /\ flow[r] \in FlowRecords
      /\ flow[r].tab \in Tabs /\ key \in Nat
  BY DEF Typed, BrowserTypeOK, FlowRecords
<1>2. CASE UseCachedToken(r)
  <2> DEFINE k == tab[flow[r].tab].token
  <2>1. /\ k \in Tokens /\ TakeToken(r, k) /\ flow[r].pc = "token"
        /\ UNCHANGED <<handler, tab, stored, today>>
    BY <1>1, <1>2 DEF UseCachedToken, HasCachedToken, TokensHeld, ingestionVars
  <2>2. k \in Tokens' /\ k \in Nat /\ flow[r].pc \in Unsent \ {"none"}
    BY <2>1 DEF Unsent
  <2> HIDE DEF k
  <2>3. FlowStep
    BY <2>1, <2>2, TakeTokenMoves
  <2>4. QED
    BY <2>1, <2>3, TabsStay, QuietStep
<1>3. CASE RequestChallenge(r)
  <2> DEFINE f == [flow[r] EXCEPT !.pc = "sign", !.challenge = issued']
  <2>1. /\ flow' = [flow EXCEPT ![r] = f] /\ flow[r].pc = "token"
        /\ UNCHANGED <<handler, tab, stored, today>>
    BY <1>1, <1>3 DEF RequestChallenge, FlowRecords
  <2>2. /\ f \in FlowRecords /\ f.pc = "sign" /\ f.token = flow[r].token
        /\ f.version = flow[r].version /\ f.seen = flow[r].seen
    BY <1>1 DEF FlowRecords, FlowStates, SignInTypeOK
  <2> HIDE DEF f
  <2>3. FlowStep
    BY <2>1, <2>2, FlowMovesOn DEF Unsent
  <2>4. QED
    BY <2>1, <2>3, TabsStay, QuietStep
<1>4. CASE SendSignature(r)
  <2>1. flow[r].pc = "sign" /\ handler[r].pc = "none" /\ handler' = handler
    BY <1>4 DEF SendSignature, FlowsTell, Unsent
  <2>2. CASE flow' = [flow EXCEPT ![r].pc = "verify"] /\ UNCHANGED <<tab, stored, today>>
    <3> DEFINE f == [flow[r] EXCEPT !.pc = "verify"]
    <3>1. flow' = [flow EXCEPT ![r] = f]
      BY <1>1, <2>2
    <3>2. /\ f \in FlowRecords /\ f.pc = "verify" /\ f.token = flow[r].token
          /\ f.version = flow[r].version /\ f.seen = flow[r].seen
      BY <1>1 DEF FlowRecords, FlowStates
    <3> HIDE DEF f
    <3>3. FlowStep
      BY <2>1, <3>1, <3>2, FlowMovesOn DEF Unsent
    <3>4. QED
      BY <2>1, <2>2, <3>3, TabsStay, QuietStep
  <2>3. CASE Fail(r, "refused")
    BY <2>1, <2>3, FailMoves, QuietStep DEF Ended
  <2>4. QED
    BY <1>4, <2>2, <2>3 DEF SendSignature
<1>5. CASE ReceiveToken(r)
  <2> DEFINE k == Len(tokens')
             t == flow[r].tab
             q == [tab[t] EXCEPT !.token = k]
  <2>1. /\ tab' = [tab EXCEPT ![t].token = k] /\ TakeToken(r, k)
        /\ flow[r].pc = "verify" /\ UNCHANGED <<handler, stored, today>>
    BY <1>5 DEF ReceiveToken
  <2>2. k \in Tokens' /\ k \in Nat
    <3>1. tokens' = Append(tokens, "fresh") /\ tokens \in Seq(Ages)
      BY <1>5 DEF ReceiveToken, FinishVerification, Typed, SignInTypeOK
    <3>2. Len(tokens') = Len(tokens) + 1 /\ Len(tokens) \in Nat /\ tokens' \in Seq(Ages)
      BY <3>1, AppendProperties, LenProperties DEF Ages
    <3>3. DOMAIN tokens' = 1 .. Len(tokens')
      BY <3>2, LenProperties
    <3>4. QED
      BY <3>2, <3>3 DEF Tokens
  <2>3. flow[r].pc \in Unsent \ {"none"}
    BY <2>1 DEF Unsent
  <2> HIDE DEF k
  <2>4. FlowStep
    BY <2>1, <2>2, <2>3, TakeTokenMoves
  <2>5. tab[t] \in TabRecords
    BY <1>1 DEF Typed, BrowserTypeOK
  <2>6. tab' = [tab EXCEPT ![t] = q]
    BY <2>1
  <2>7. q \in TabRecords /\ TabMoves(t, q)
    BY <2>2, <2>5 DEF TabRecords, TabMoves
  <2>8. TabStep
    BY <1>1, <2>6, <2>7, OneTabMoves
  <2>9. QED
    BY <2>1, <2>4, <2>8, QuietStep
<1>6. CASE FetchPublicKey(r)
  <2> DEFINE f == [flow[r] EXCEPT !.pc = "post", !.key = key]
  <2>1. /\ flow' = [flow EXCEPT ![r] = f] /\ flow[r].pc = "key"
        /\ UNCHANGED <<handler, tab, stored, today>>
    BY <1>1, <1>6 DEF FetchPublicKey, FlowRecords, ingestionVars
  <2>2. /\ f \in FlowRecords /\ f.pc = "post" /\ f.token = flow[r].token
        /\ f.version = flow[r].version /\ f.seen = flow[r].seen
    BY <1>1 DEF FlowRecords, FlowStates
  <2> HIDE DEF f
  <2>3. FlowStep
    BY <2>1, <2>2, FlowMovesOn DEF Unsent
  <2>4. QED
    BY <2>1, <2>3, TabsStay, QuietStep
<1>7. QED
  BY <1>2, <1>3, <1>4, <1>5, <1>6

\* The request is posted.
LEMMA FlowPosts ==
  ASSUME Typed, TokensHeld, Tokens \subseteq Tokens', NEW r \in Requests,
         SubmitEncryptedFootprint(r)
  PROVE  BrowserStep
<1> DEFINE f == EndOf(r, "posted")
           h == [pc |-> "verifying", token |-> flow[r].token, key |-> flow[r].key,
                 version |-> flow[r].version, valid |-> flow[r].valid,
                 status |-> NotOver]
<1>1. /\ flow[r].pc = "post" /\ flow' = [flow EXCEPT ![r] = f]
      /\ handler[r].pc = "none" /\ handler' = [handler EXCEPT ![r] = h]
      /\ UNCHANGED <<tab, stored, today>>
  BY DEF SubmitEncryptedFootprint, Receive
<1>2. flow \in [Requests -> FlowRecords] /\ handler \in [Requests -> HandlerRecords]
  BY DEF Typed, BrowserTypeOK, ServerTypeOK
<1>3. /\ f \in FlowRecords /\ f.pc = "posted" /\ f.seen = flow[r].seen
      /\ f.token = NoToken
  BY EndsTyped DEF Typed, FlowStates
<1>4. h.pc = "verifying" /\ h.token = flow[r].token /\ h.version = flow[r].version
  OBVIOUS
<1> HIDE DEF f, h
<1>5. FlowEnds(r, f)
  BY <1>1, <1>3 DEF FlowEnds, Ended
<1>6. FlowStep
  BY <1>1, <1>3, <1>5, OneFlowMoves
<1>7. TabStep
  BY <1>1, TabsStay
<1>8. Arrives
  BY <1>1, <1>2, <1>3, <1>4 DEF Arrives
<1>9. QED
  BY <1>1, <1>6, <1>7, <1>8 DEF BrowserStep, DaysStep

\* The answer 202 arrives.
LEMMA FlowSucceeds ==
  ASSUME Typed, TokensHeld, Tokens \subseteq Tokens', NEW r \in Requests,
         ReceiveResult(r)
  PROVE  BrowserStep
<1> DEFINE t == flow[r].tab
           f == [flow[r] EXCEPT !.pc = "succeeded", !.day = today]
           q == [tab[t] EXCEPT !.stage = "other", !.day = today, !.jobs = TRUE]
<1>1. /\ flow \in [Requests -> FlowRecords] /\ flow[r] \in FlowRecords
      /\ t \in Tabs /\ tab[t] \in TabRecords /\ tab \in [Tabs -> TabRecords]
      /\ today \in Nat
  BY DEF Typed, BrowserTypeOK, FlowRecords
<1>2. /\ flow[r].pc = "posted"
      /\ handler[r].pc = "answered" /\ handler[r].status = 202
      /\ stored' = today /\ today' = today /\ handler' = handler
  BY DEF ReceiveResult, StoreSnapshot, ingestionVars
<1>3. flow' = [flow EXCEPT ![r] = f] /\ tab' = [tab EXCEPT ![t] = q]
  <2>1. /\ flow' = [flow EXCEPT ![r].pc = "succeeded", ![r].day = today]
        /\ tab' = [tab EXCEPT ![t].stage = "other", ![t].day = today, ![t].jobs = TRUE]
    BY DEF ReceiveResult
  <2>2. flow' = [flow EXCEPT ![r] = f]
    BY <1>1, <2>1 DEF FlowRecords
  <2>3. tab' = [tab EXCEPT ![t] = q]
    BY <1>1, <2>1 DEF TabRecords
  <2>4. QED
    BY <2>2, <2>3
<1>4. TRUE \in BOOLEAN /\ "other" \in Stages /\ "succeeded" \in FlowStates
  BY DEF Stages, FlowStates
<1>5. q \in TabRecords
  BY <1>1, <1>4 DEF TabRecords
<1>6. /\ q.version = tab[t].version /\ q.seen = tab[t].seen
      /\ q.token = tab[t].token /\ q.day = today
  BY <1>1 DEF TabRecords
<1>7. f \in FlowRecords
  BY <1>1, <1>4 DEF FlowRecords
<1>8. /\ f.pc = "succeeded" /\ f.day = today /\ f.tab = t
      /\ f.seen = flow[r].seen /\ f.token = flow[r].token
  BY <1>1 DEF FlowRecords
<1> HIDE DEF f, q
<1>9. tab'[t].day = today
  BY <1>1, <1>3, <1>6
<1>10. FlowEnds(r, f)
  BY <1>2, <1>8, <1>9 DEF FlowEnds, Ended, TokensHeld
<1>11. FlowStep
  BY <1>3, <1>7, <1>10, OneFlowMoves
<1>12. TabMoves(t, q)
  BY <1>1, <1>6 DEF TabMoves, TokensHeld
<1>13. TabStep
  BY <1>1, <1>3, <1>5, <1>12, OneTabMoves
<1>14. QED
  BY <1>2, <1>11, <1>13, NobodyArrives DEF BrowserStep, DaysStep

\* An error answer arrives, or the connection breaks.
LEMMA FlowFails ==
  ASSUME Typed, TokensHeld, Tokens \subseteq Tokens', NEW r \in Requests,
         ReceiveError(r) \/ ConnectionBreaks(r)
  PROVE  BrowserStep
<1>1. handler' = handler
  BY DEF ReceiveError, ConnectionBreaks, ingestionVars
<1>2. CASE ReceiveError(r)
  BY <1>1, <1>2, FailMoves, QuietStep DEF ReceiveError, Ended
<1>3. CASE ConnectionBreaks(r)
  BY <1>1, <1>3, FailMoves, QuietStep DEF ConnectionBreaks, Ended
<1>4. QED
  BY <1>2, <1>3

LEMMA TabReloads ==
  ASSUME Typed, TokensHeld, Tokens \subseteq Tokens', NEW t \in Tabs, Reload(t)
  PROVE  BrowserStep
<1>1. /\ tab' = [tab EXCEPT ![t] = Loaded]
      /\ UNCHANGED <<queue, handler, stored, today, version>>
      /\ flow' = [r \in Requests |->
           IF flow[r].tab = t /\ flow[r].pc \notin Ended \cup {"none"}
           THEN EndOf(r, "abandoned") ELSE flow[r]]
  BY DEF Reload, ingestionVars
<1>2. Loaded \in TabRecords
  BY LoadedTyped DEF Typed
<1>3. TabStep
  BY <1>1, <1>2, OneTabMoves DEF TabMoves
<1>4. flow \in [Requests -> FlowRecords]
  BY DEF Typed, BrowserTypeOK
<1>5. ASSUME NEW r \in Requests
      PROVE  /\ flow'[r] \in FlowRecords
             /\ flow'[r] = flow[r] \/ FlowEnds(r, flow'[r])
  <2>1. CASE flow'[r] = flow[r]
    BY <1>4, <2>1
  <2>2. CASE /\ flow'[r] = EndOf(r, "abandoned")
             /\ flow[r].pc \notin Ended \cup {"none"}
    <3>1. /\ EndOf(r, "abandoned") \in FlowRecords
          /\ EndOf(r, "abandoned").pc = "abandoned"
          /\ EndOf(r, "abandoned").seen = flow[r].seen
          /\ EndOf(r, "abandoned").token = NoToken
      BY EndsTyped DEF Typed, FlowStates
    <3>2. QED
      BY <2>2, <3>1 DEF FlowEnds, Ended
  <2>3. QED
    BY <1>1, <2>1, <2>2
<1>6. FlowStep
  BY <1>1, <1>5 DEF FlowStep
<1>7. QED
  BY <1>1, <1>3, <1>6, QuietStep

\* Every step is one of these as far as the browser goes.
LEMMA StepsOfBrowser ==
  ASSUME Typed, TokensHeld, FlowsTell, SignInTypeOK', Tokens \subseteq Tokens',
         Tokens' \subseteq Nat \ {0}, [SubmissionNext]_submissionVars
  PROVE  BrowserStep
<1>1. ASSUME UNCHANGED <<flow, tab, stored, today>>,
             \A s \in Requests : handler[s].pc = "none" => handler'[s] = handler[s]
      PROVE  BrowserStep
  BY <1>1, FlowsStay, TabsStay, NobodyArrives DEF BrowserStep, DaysStep
<1>2. ASSUME NEW r \in Requests, Proceed(r) PROVE BrowserStep
  BY <1>2, FlowAdvances, FlowPosts, FlowSucceeds, FlowFails DEF Proceed
<1>3. ASSUME NEW r \in Requests, HandlerStep(r) PROVE BrowserStep
  <2>1. handler[r].pc # "none"
    BY <1>3
    DEF HandlerStep, Handle, RejectToken, Admit, LoadUserProfile, LoadProtocolConfig,
        EnqueueJobs, AwaitFails, InsertThrows
  <2>2. \A s \in Requests \ {r} : handler'[s] = handler[s]
    BY <1>3
    DEF HandlerStep, Handle, RejectToken, Admit, LoadUserProfile, LoadProtocolConfig,
        EnqueueJobs, AwaitFails, InsertThrows, Answer, Goto, Typed, ServerTypeOK
  <2>3. UNCHANGED <<flow, tab, stored, today>>
    BY <1>3 DEF HandlerStep, browserVars
  <2>4. QED
    BY <1>1, <2>1, <2>2, <2>3
<1>4. ASSUME ServerDies, UNCHANGED browserVars PROVE BrowserStep
  BY <1>1, <1>4 DEF ServerDies, browserVars
<1>5. ASSUME NEW t \in Tabs, RefreshJobFails(t) PROVE BrowserStep
  <2> DEFINE q == [tab[t] EXCEPT !.stage = "other"]
  <2>1. tab' = [tab EXCEPT ![t] = q] /\ UNCHANGED <<flow, handler, stored, today>>
    BY <1>5 DEF RefreshJobFails, ingestionVars
  <2>2. tab[t] \in TabRecords
    BY DEF Typed, BrowserTypeOK
  <2>3. q \in TabRecords /\ TabMoves(t, q)
    BY <2>2 DEF TabRecords, Stages, TabMoves, TokensHeld
  <2>4. QED
    BY <2>1, <2>3, OneTabMoves, FlowsStay, QuietStep
<1>6. ASSUME NEW i \in DOMAIN queue, SyncDocument(i) PROVE BrowserStep
  BY <1>1, <1>6 DEF SyncDocument
<1>7. ASSUME NextDay PROVE BrowserStep
  BY <1>7, FlowsStay, TabsStay, NobodyArrives, SubmissionAssumption
  DEF NextDay, BrowserStep, DaysStep, ingestionVars, Typed, BrowserTypeOK
<1>8. ASSUME TimePasses \/ UNCHANGED submissionVars PROVE BrowserStep
  BY <1>1, <1>8 DEF TimePasses, submissionVars, ingestionVars, browserVars
<1>9. QED
  BY <1>2, <1>3, <1>4, <1>5, <1>6, <1>7, <1>8, FlowBegins, TabReloads
  DEF SubmissionNext

-----------------------------------------------------------------------------
\* The version on the chain

VersionStep ==
  /\ version' \in Nat
  /\ version' # version => \E i \in DOMAIN queue :
       /\ queue[i].status = "pending" /\ ~IsSubmit(queue[i])
       /\ queue'[i].status = "completed"
  /\ \A i \in DOMAIN queue :
       queue[i].status = "pending" /\ queue'[i].status = "failed" =>
         ~IsSubmit(queue[i]) /\ queue[i].version <= version

LEMMA StepsOfVersion ==
  ASSUME Typed, faults \in 0 .. MaxFaults, [SubmissionNext]_submissionVars
  PROVE  /\ VersionStep
         /\ key' \in Nat /\ faults' \in 0 .. MaxFaults
<1>0. /\ MaxFaults \in Nat /\ key \in Nat /\ version \in Nat
      /\ queue \in Seq(JobRecords)
  BY IngestionAssumption DEF Typed, BrowserTypeOK, ServerTypeOK
<1>1. Fault => faults' \in 0 .. MaxFaults
  BY <1>0 DEF Fault
<1>2. ASSUME NEW r \in Requests, Proceed(r)
      PROVE  UNCHANGED <<queue, version, key>> /\ faults' \in 0 .. MaxFaults
  BY <1>1, <1>2
  DEF Proceed, UseCachedToken, RequestChallenge, SendSignature, ReceiveToken,
      FetchPublicKey, SubmitEncryptedFootprint, Receive, ReceiveResult,
      ReceiveError, ConnectionBreaks, Fail, ingestionVars
<1>3. ASSUME NEW r \in Requests, HandlerStep(r)
      PROVE  /\ UNCHANGED <<version, key>> /\ faults' \in 0 .. MaxFaults
             /\ \/ UNCHANGED queue
                \/ queue' = Append(queue, FirstJob(r))
                \/ queue' = queue \o <<FirstJob(r), SyncJob(r)>>
  BY <1>1, <1>3
  DEF HandlerStep, Handle, RejectToken, Admit, LoadUserProfile, LoadProtocolConfig,
      EnqueueJobs, AwaitFails, InsertThrows, browserVars
<1>4. ASSUME ServerDies, UNCHANGED browserVars
      PROVE  /\ UNCHANGED version /\ key' \in Nat /\ faults' \in 0 .. MaxFaults
             /\ \/ UNCHANGED queue
                \/ \E r \in Requests : queue' = Append(queue, FirstJob(r))
  BY <1>0, <1>1, <1>4 DEF ServerDies, KeyAfterRestart, browserVars
<1>5. ASSUME NEW i \in DOMAIN queue, SyncDocument(i)
      PROVE  VersionStep
  <2>1. /\ queue[i] \in JobRecords /\ queue[i].version \in Nat
        /\ queue[i].status = "pending" /\ ~IsSubmit(queue[i])
    BY <1>0, <1>5, EntryTyped DEF SyncDocument
  <2>2. CASE queue' = [queue EXCEPT ![i].status = "completed"] /\ version' = queue[i].version
    <3>1. queue'[i].status = "completed"
      BY <2>1, <2>2 DEF JobRecords
    <3>2. \A j \in DOMAIN queue \ {i} : queue'[j] = queue[j]
      BY <2>2
    <3>3. ASSUME NEW j \in DOMAIN queue,
                 queue[j].status = "pending", queue'[j].status = "failed"
          PROVE  FALSE
      BY <3>1, <3>2, <3>3
    <3>4. QED
      BY <2>1, <2>2, <3>1, <3>3 DEF VersionStep
  <2>3. CASE /\ queue[i].version <= version
             /\ queue' = [queue EXCEPT ![i].status = "failed"] /\ version' = version
    <3>1. \A j \in DOMAIN queue \ {i} : queue'[j] = queue[j]
      BY <2>3
    <3>2. ASSUME NEW j \in DOMAIN queue,
                 queue[j].status = "pending", queue'[j].status = "failed"
          PROVE  j = i
      BY <3>1, <3>2
    <3>3. QED
      BY <1>0, <2>1, <2>3, <3>2 DEF VersionStep
  <2>4. QED
    BY <1>5, <2>2, <2>3 DEF SyncDocument
<1>6. ASSUME \/ \E t \in Tabs, r \in Requests, valid \in BOOLEAN :
                   SubmitForScoring(t, r, valid)
             \/ \E t \in Tabs : RefreshJobFails(t) \/ Reload(t)
             \/ NextDay \/ TimePasses \/ UNCHANGED submissionVars
      PROVE  UNCHANGED <<queue, version, key, faults>>
  BY <1>6
  DEF SubmitForScoring, RefreshJobFails, Reload, NextDay, TimePasses,
      submissionVars, ingestionVars, browserVars
<1>7. ASSUME UNCHANGED version,
             \/ UNCHANGED queue
             \/ \E r \in Requests : queue' = Append(queue, FirstJob(r))
             \/ \E r \in Requests : queue' = queue \o <<FirstJob(r), SyncJob(r)>>
      PROVE  VersionStep
  <2>1. \A i \in DOMAIN queue : queue'[i] = queue[i]
    <3>1. CASE UNCHANGED queue
      BY <3>1
    <3>2. ASSUME NEW r \in Requests, queue' = Append(queue, FirstJob(r))
          PROVE  \A i \in DOMAIN queue : queue'[i] = queue[i]
      <4>1. FirstJob(r) \in JobRecords
        BY JobsTyped DEF Typed, ServerTypeOK
      <4>2. \A i \in 1 .. Len(queue) : Append(queue, FirstJob(r))[i] = queue[i]
        BY <1>0, <4>1, AppendProperties
      <4>3. QED
        BY <1>0, <3>2, <4>2, LenProperties
    <3>3. ASSUME NEW r \in Requests, queue' = queue \o <<FirstJob(r), SyncJob(r)>>
          PROVE  \A i \in DOMAIN queue : queue'[i] = queue[i]
      <4> DEFINE pair == <<FirstJob(r), SyncJob(r)>>
      <4>1. FirstJob(r) \in JobRecords /\ SyncJob(r) \in JobRecords
        BY JobsTyped DEF Typed, ServerTypeOK
      <4>2. pair \in Seq(JobRecords) /\ Len(pair) \in Nat
        BY <4>1
      <4> HIDE DEF pair
      <4>3. \A i \in 1 .. Len(queue) + Len(pair) :
              (queue \o pair)[i] = IF i <= Len(queue) THEN queue[i]
                                   ELSE pair[i - Len(queue)]
        BY <1>0, <4>2, ConcatProperties
      <4>4. Len(queue) \in Nat /\ DOMAIN queue = 1 .. Len(queue)
        BY <1>0, LenProperties
      <4>5. queue' = queue \o pair
        BY <3>3 DEF pair
      <4>6. QED
        BY <4>2, <4>3, <4>4, <4>5
    <3>4. QED
      BY <1>7, <3>1, <3>2, <3>3
  <2>2. QED
    BY <1>0, <1>7, <2>1 DEF VersionStep
<1>8. QED
  BY <1>0, <1>2, <1>3, <1>4, <1>5, <1>6, <1>7 DEF SubmissionNext, SyncDocument

\* What is queued is pending, and a document is one version ahead of its request.
LEMMA NewEntries ==
  ASSUME ServerTypeOK, ServerTypeOK', QueueStep,
         NEW i \in DOMAIN queue', i \notin DOMAIN queue
  PROVE  /\ queue'[i].status = "pending"
         /\ \/ IsSubmit(queue'[i])
            \/ /\ handler[queue'[i].request].pc = "publish"
               /\ queue'[i].version = handler[queue'[i].request].version + 1
<1>1. CASE QueuesNothing \/ \E r \in Requests : Admits(r)
  BY <1>1 DEF QueuesNothing, Admits
<1>2. ASSUME NEW r \in Requests, QueuesPair(r)
      PROVE  queue'[i] \in {FirstJob(r), SyncJob(r)} /\ handler[r].pc = "publish"
  <2>1. PICK n \in Nat :
          /\ DOMAIN queue = 1 .. n /\ DOMAIN queue' = 1 .. n + 2
          /\ queue'[n + 1] = FirstJob(r) /\ queue'[n + 2] = SyncJob(r)
    BY <1>2, PairQueued
  <2>2. i = n + 1 \/ i = n + 2
    BY <2>1
  <2>3. QED
    BY <1>2, <2>1, <2>2 DEF QueuesPair
<1>3. ASSUME NEW r \in Requests, QueuesFirst(r)
      PROVE  queue'[i] = FirstJob(r)
  <2>1. PICK n \in Nat :
          /\ DOMAIN queue = 1 .. n /\ DOMAIN queue' = 1 .. n + 1
          /\ queue'[n + 1] = FirstJob(r)
    BY <1>3, FirstQueued
  <2>2. i = n + 1
    BY <2>1
  <2>3. QED
    BY <2>1, <2>2
<1>4. ASSUME NEW j \in DOMAIN queue, Settles(j) PROVE FALSE
  BY <1>4, DocumentSettled
<1>5. ASSUME NEW r \in Requests
      PROVE  /\ FirstJob(r).status = "pending" /\ IsSubmit(FirstJob(r))
             /\ SyncJob(r).status = "pending" /\ SyncJob(r).request = r
             /\ SyncJob(r).version = handler[r].version + 1
  BY DEF FirstJob, SyncJob, Job, IsSubmit
<1>6. QED
  BY <1>1, <1>2, <1>3, <1>4, <1>5 DEF QueueStep

\* Settled documents stay settled.
LEMMA SettledGrows ==
  ASSUME QueueKept PROVE Settled \subseteq Settled'
<1>1. ASSUME NEW i \in DOMAIN queue, queue[i].status # "pending"
      PROVE  /\ i \in DOMAIN queue' /\ queue'[i].status # "pending"
             /\ queue'[i].request = queue[i].request
  BY <1>1 DEF QueueKept
<1>2. ASSUME NEW s \in Settled PROVE s \in Settled'
  <2>1. PICK i \in DOMAIN queue : queue[i].status # "pending" /\ s = queue[i].request
    BY <1>2 DEF Settled
  <2>2. QED
    BY <1>1, <2>1 DEF Settled
<1>3. QED
  BY <1>2

\* A version known together with the settled documents stays as current as it
\* was: whatever raises the version now was not settled then.
LEMMA CurrentKept ==
  ASSUME QueueKept, VersionStep, OneOfEach, ServerTypeOK, version \in Nat,
         NEW v \in Nat, NEW S, S \subseteq Settled, Current(v, S)
  PROVE  version' > v => \E j \in DOMAIN queue' :
           queue'[j].status = "completed" /\ queue'[j].request \notin S
<1>1. ASSUME NEW j \in DOMAIN queue,
             queue[j].status = "completed", queue[j].request \notin S
      PROVE  /\ j \in DOMAIN queue'
             /\ queue'[j].status = "completed" /\ queue'[j].request \notin S
  BY <1>1 DEF QueueKept
<1>2. CASE version' = version
  BY <1>1, <1>2 DEF Current
<1>3. CASE version' # version
  <2>1. PICK i \in DOMAIN queue :
          /\ queue[i].status = "pending" /\ ~IsSubmit(queue[i])
          /\ queue'[i].status = "completed"
    BY <1>3 DEF VersionStep
  <2>2. queue[i].request \notin Settled
    <3>1. SUFFICES ASSUME NEW j \in DOMAIN queue, queue[j].status # "pending",
                          queue[j].request = queue[i].request
                   PROVE  FALSE
      BY DEF Settled
    <3>2. ~IsSubmit(queue[j])
      BY <3>1 DEF OneOfEach
    <3>3. queue[j].kind = queue[i].kind
      BY <2>1, <3>2, EntryTyped DEF ServerTypeOK, JobKinds, IsSubmit
    <3>4. i = j
      BY <3>1, <3>3 DEF OneOfEach
    <3>5. QED
      BY <2>1, <3>1, <3>4
  <2>3. i \in DOMAIN queue' /\ queue'[i].request \notin S
    BY <2>2 DEF QueueKept
  <2>4. QED
    BY <2>1, <2>3
<1>4. QED
  BY <1>2, <1>3

\* A flow keeps what its tab had seen; only a flow that starts sees it.
LEMMA SeenStays ==
  ASSUME FlowStep, NEW r \in Requests, flow[r].pc # "none"
  PROVE  flow'[r].seen = flow[r].seen
BY DEF FlowStep, FlowStarts, FlowGoesOn, FlowEnds

\* The flow of a queued request has sent it.
LEMMA QueuedIsSent ==
  ASSUME JobsInv, FlowsTell, ServerTypeOK, NEW i \in DOMAIN queue
  PROVE  /\ queue[i].request \in Requests
         /\ flow[queue[i].request].pc \notin Unsent
<1>1. queue[i].request \in Requests
  BY EntryTyped DEF ServerTypeOK
<1>2. handler[queue[i].request].pc \in Closed
  BY <1>1, OpenUnqueued DEF JobsInv
<1>3. QED
  BY <1>1, <1>2 DEF FlowsTell, Closed

LEMMA VersionsKept ==
  ASSUME Typed, ServerTypeOK', JobsInv, FlowsTell, VersionsKnown, QueueKept,
         VersionStep, QueueStep, BrowserStep, handler' \in [Requests -> HandlerRecords]
  PROVE  VersionsKnown'
<1>1. Settled \subseteq Settled'
  BY SettledGrows
<1>2. /\ version \in Nat /\ ServerTypeOK /\ OneOfEach
      /\ \A t \in Tabs : tab[t] \in TabRecords /\ tab[t].version \in Nat
      /\ \A r \in Requests : /\ flow[r] \in FlowRecords /\ flow[r].version \in Nat
                             /\ handler[r] \in HandlerRecords
                             /\ handler[r].version \in Nat
  BY DEF Typed, BrowserTypeOK, ServerTypeOK, TabRecords, FlowRecords,
         HandlerRecords, JobsInv
<1>3. \A v \in Nat : \A S : S \subseteq Settled /\ Current(v, S) =>
        (version' > v => \E j \in DOMAIN queue' :
           queue'[j].status = "completed" /\ queue'[j].request \notin S)
  BY <1>2, CurrentKept
<1> DEFINE Kept(v, S) == version' > v => \E j \in DOMAIN queue' :
                           queue'[j].status = "completed" /\ queue'[j].request \notin S
<1>4. ASSUME NEW t \in Tabs
      PROVE  tab'[t].seen \subseteq Settled' /\ Kept(tab'[t].version, tab'[t].seen)
  <2>1. TabMoves(t, tab'[t])
    BY DEF BrowserStep, TabStep
  <2>2. CASE tab'[t] = Loaded /\ UNCHANGED <<queue, version>>
    <3>1. tab'[t].seen = Settled /\ tab'[t].version = version
      BY <2>2, LoadedTyped DEF Typed
    <3>2. QED
      BY <1>1, <1>2, <2>2, <3>1
  <2>3. CASE tab'[t].version = tab[t].version /\ tab'[t].seen = tab[t].seen
    BY <1>1, <1>2, <1>3, <2>3 DEF VersionsKnown
  <2>4. QED
    BY <2>1, <2>2, <2>3 DEF TabMoves
<1>5. ASSUME NEW r \in Requests
      PROVE  /\ flow'[r].seen \subseteq Settled'
             /\ flow'[r].pc \in Unsent \ {"none"} =>
                  Kept(flow'[r].version, flow'[r].seen)
  <2>1. CASE flow'[r] = flow[r] \/ FlowGoesOn(r, flow'[r])
    BY <1>1, <1>2, <1>3, <2>1 DEF VersionsKnown, FlowGoesOn
  <2>2. CASE FlowStarts(r, flow'[r])
    BY <1>1, <1>2, <1>3, <2>2 DEF VersionsKnown, FlowStarts
  <2>3. CASE FlowEnds(r, flow'[r])
    BY <1>1, <2>3 DEF VersionsKnown, FlowEnds, Ended, Unsent
  <2>4. QED
    BY <2>1, <2>2, <2>3 DEF BrowserStep, FlowStep
<1>6. ASSUME NEW r \in Requests, handler'[r].pc \in Admitted \cup {"verifying"}
      PROVE  Kept(handler'[r].version, flow'[r].seen)
  <2>1. CASE handler[r].pc = "none"
    <3>1. /\ flow[r].pc = "post" /\ handler'[r].version = flow[r].version
      BY <1>6, <2>1 DEF BrowserStep, Arrives, Admitted
    <3>2. flow'[r].seen = flow[r].seen
      BY <3>1, SeenStays DEF BrowserStep
    <3>3. QED
      BY <1>2, <1>3, <3>1, <3>2 DEF VersionsKnown, Unsent
  <2>2. CASE handler[r].pc # "none"
    <3>1. /\ handler[r].pc \in Admitted \cup {"verifying"}
          /\ handler'[r].version = handler[r].version
      <4>1. CASE Continues(r)
        BY <1>2, <1>6, <2>2, <4>1
        DEF Continues, Closed, HandlerRecords, HandlerStates, Admitted
      <4>2. CASE \E s \in Requests : Admits(s)
        BY <1>2, <1>6, <4>2 DEF Admits, Admitted, Typed, ServerTypeOK
      <4>3. CASE \E s \in Requests : QueuesPair(s)
        <5>1. PICK s \in Requests : QueuesPair(s)
          BY <4>3
        <5>2. handler'[s].pc = "answered"
          BY <5>1 DEF QueuesPair, Typed, ServerTypeOK, HandlerRecords
        <5>3. s # r
          BY <1>6, <5>2 DEF Admitted
        <5>4. handler'[r] = handler[r]
          BY <5>1, <5>3 DEF QueuesPair, Typed, ServerTypeOK
        <5>5. QED
          BY <1>6, <5>4
      <4>4. QED
        BY <1>6, <4>1, <4>2, <4>3
        DEF QueueStep, QueuesNothing, QueuesFirst, Settles
    <3>2. flow'[r].seen = flow[r].seen
      BY <2>2, SeenStays DEF BrowserStep, FlowsTell, Unsent
    <3>3. QED
      BY <1>2, <1>3, <3>1, <3>2 DEF VersionsKnown
  <2>3. QED
    BY <2>1, <2>2
<1>7. ASSUME NEW i \in DOMAIN queue', ~IsSubmit(queue'[i]), queue'[i].status = "pending"
      PROVE  \E v \in Nat : /\ queue'[i].version = v + 1
                            /\ Kept(v, flow'[queue'[i].request].seen)
  <2>1. CASE i \in DOMAIN queue
    <3> DEFINE r == queue[i].request
    <3>1. /\ queue'[i].request = r /\ queue'[i].version = queue[i].version
          /\ ~IsSubmit(queue[i]) /\ queue[i].status = "pending"
      BY <1>7, <2>1 DEF QueueKept, IsSubmit
    <3>2. r \in Requests /\ flow[r].pc # "none"
      BY <1>2, <2>1, QueuedIsSent DEF Unsent
    <3>3. flow'[r].seen = flow[r].seen
      BY <3>2, SeenStays DEF BrowserStep
    <3>4. flow[r].seen \subseteq Settled
      BY <3>2 DEF VersionsKnown
    <3>5. PICK v \in Nat : queue[i].version = v + 1 /\ Current(v, flow[r].seen)
      BY <2>1, <3>1 DEF VersionsKnown
    <3>6. Kept(v, flow'[r].seen)
      BY <1>3, <3>3, <3>4, <3>5
    <3>7. QED
      BY <3>1, <3>5, <3>6
  <2>2. CASE i \notin DOMAIN queue
    <3> DEFINE r == queue'[i].request
    <3>1. handler[r].pc = "publish" /\ queue'[i].version = handler[r].version + 1
      BY <1>2, <1>7, <2>2, NewEntries
    <3>2. r \in Requests
      BY EntryTyped DEF ServerTypeOK
    <3>3. flow[r].pc # "none"
      BY <3>1, <3>2 DEF FlowsTell, Unsent
    <3>4. flow'[r].seen = flow[r].seen
      BY <3>2, <3>3, SeenStays DEF BrowserStep
    <3>5. Kept(handler[r].version, flow'[r].seen)
      BY <1>2, <1>3, <3>1, <3>2, <3>4 DEF VersionsKnown, Admitted
    <3>6. QED
      BY <1>2, <3>1, <3>2, <3>5
  <2>3. QED
    BY <2>1, <2>2
<1>8. QED
  BY <1>4, <1>5, <1>6, <1>7 DEF VersionsKnown, Current

LEMMA RefusalsKept ==
  ASSUME Typed, ServerTypeOK', JobsInv, FlowsTell, VersionsKnown, RefusedOnlyIfStale,
         QueueKept, VersionStep, QueueStep, BrowserStep
  PROVE  RefusedOnlyIfStale'
<1>1. ServerTypeOK /\ OneOfEach /\ version \in Nat
  BY DEF Typed, BrowserTypeOK, JobsInv
<1>2. ASSUME NEW i \in DOMAIN queue', queue'[i].status = "failed"
      PROVE  \E j \in DOMAIN queue' :
               /\ queue'[j].status = "completed"
               /\ queue'[j].request \notin flow'[queue'[i].request].seen
  <2> DEFINE r == queue[i].request
  <2>1. i \in DOMAIN queue
    BY <1>1, <1>2, NewEntries
  <2>2. /\ r \in Requests /\ queue'[i].request = r
        /\ flow'[r].seen = flow[r].seen
    BY <1>1, <2>1, QueuedIsSent, SeenStays DEF QueueKept, BrowserStep, Unsent
  <2>3. \E j \in DOMAIN queue :
          queue[j].status = "completed" /\ queue[j].request \notin flow[r].seen
    <3>1. CASE queue[i].status = "failed"
      BY <2>1, <3>1 DEF RefusedOnlyIfStale
    <3>2. CASE queue[i].status # "failed"
      <4>1. /\ queue[i].status = "pending" /\ ~IsSubmit(queue[i])
            /\ queue[i].version <= version
        BY <1>2, <2>1, <3>2 DEF QueueKept, VersionStep
      <4>2. PICK v \in Nat : queue[i].version = v + 1 /\ Current(v, flow[r].seen)
        BY <2>1, <4>1 DEF VersionsKnown
      <4>3. version > v
        BY <1>1, <4>1, <4>2
      <4>4. QED
        BY <4>2, <4>3 DEF Current
    <3>3. QED
      BY <3>1, <3>2
  <2>4. PICK j \in DOMAIN queue :
          queue[j].status = "completed" /\ queue[j].request \notin flow[r].seen
    BY <2>3
  <2>5. /\ j \in DOMAIN queue' /\ queue'[j].status = "completed"
        /\ queue'[j].request = queue[j].request
    BY <2>4 DEF QueueKept
  <2>6. QED
    BY <2>2, <2>4, <2>5
<1>3. QED
  BY <1>2 DEF RefusedOnlyIfStale

\* A handler that is over stays as it is.
LEMMA OverStays ==
  ASSUME ServerTypeOK, QueueStep, NEW r \in Requests, handler[r].pc \in Closed
  PROVE  handler'[r] = handler[r]
<1>1. CASE \E s \in Requests : Admits(s)
  BY <1>1 DEF Admits, Closed, ServerTypeOK
<1>2. CASE \E s \in Requests : QueuesPair(s)
  BY <1>2 DEF QueuesPair, Closed, ServerTypeOK
<1>3. CASE \A s \in Requests : Continues(s)
  BY <1>3 DEF Continues
<1>4. QED
  BY <1>1, <1>2, <1>3 DEF QueueStep, QueuesNothing, QueuesFirst, Settles

\* A handler that was not called starts only for a flow that posts.
LEMMA NotCalledStays ==
  ASSUME QueueStep, BrowserStep, NEW r \in Requests, handler[r].pc = "none",
         flow'[r].pc # "posted"
  PROVE  handler'[r] = handler[r]
BY DEF BrowserStep, Arrives

LEMMA FlowsTellKept ==
  ASSUME Typed, JobsInv, FlowsTell, QueueStep, BrowserStep
  PROVE  FlowsTell'
<1>1. SUFFICES ASSUME NEW r \in Requests
               PROVE  /\ flow'[r].pc \in Unsent => handler'[r].pc = "none"
                      /\ flow'[r].pc = "succeeded" => handler'[r].status = 202
                      /\ flow'[r].pc = "refused" =>
                           /\ handler'[r].pc \in {"none", "answered"}
                           /\ handler'[r].status # 202
  BY DEF FlowsTell
<1>2. handler[r].pc = "answered" => handler'[r] = handler[r]
  BY OverStays DEF Closed, Typed
<1>3. handler[r].pc = "none" => handler[r].status # 202
  BY OpenUnqueued DEF JobsInv, Closed
<1>4. CASE flow'[r] = flow[r]
  <2>1. CASE flow[r].pc \in Unsent
    <3>1. handler'[r] = handler[r] /\ handler[r].pc = "none"
      BY <1>4, <2>1, NotCalledStays DEF FlowsTell, Unsent
    <3>2. QED
      BY <1>4, <2>1, <3>1 DEF Unsent
  <2>2. CASE flow[r].pc = "succeeded"
    <3>1. handler[r].status = 202 /\ handler[r].pc = "answered"
      BY <2>2 DEF FlowsTell, JobsInv, HandlersTell
    <3>2. QED
      BY <1>2, <1>4, <2>2, <3>1 DEF Unsent
  <2>3. CASE flow[r].pc = "refused"
    <3>1. /\ handler[r].pc \in {"none", "answered"} /\ handler[r].status # 202
          /\ handler[r].pc = "none" => handler'[r] = handler[r]
      BY <1>4, <2>3, NotCalledStays DEF FlowsTell
    <3>2. QED
      BY <1>2, <1>4, <2>3, <3>1 DEF Unsent
  <2>4. QED
    BY <1>4, <2>1, <2>2, <2>3
<1>5. CASE FlowStarts(r, flow'[r]) \/ FlowGoesOn(r, flow'[r])
  <2>1. flow[r].pc \in Unsent /\ flow'[r].pc \in Unsent
    BY <1>5 DEF FlowStarts, FlowGoesOn, Unsent
  <2>2. handler'[r] = handler[r] /\ handler[r].pc = "none"
    BY <2>1, NotCalledStays DEF FlowsTell, Unsent
  <2>3. QED
    BY <2>1, <2>2 DEF Unsent
<1>6. CASE FlowEnds(r, flow'[r])
  <2>1. flow'[r].pc \notin Unsent
    BY <1>6 DEF FlowEnds, Ended, Unsent
  <2>2. flow'[r].pc = "succeeded" => handler[r].pc = "answered" /\ handler[r].status = 202
    BY <1>6 DEF FlowEnds
  <2>3. flow'[r].pc = "refused" =>
          \/ handler[r].pc = "none" /\ handler'[r] = handler[r]
          \/ handler[r].pc = "answered" /\ handler[r].status # 202
    BY <1>6, NotCalledStays DEF FlowEnds
  <2>4. QED
    BY <1>2, <1>3, <2>1, <2>2, <2>3
<1>7. QED
  BY <1>4, <1>5, <1>6 DEF BrowserStep, FlowStep

LEMMA TokensHeldKept ==
  ASSUME Typed, TokensHeld, QueueStep, BrowserStep, Tokens \subseteq Tokens'
  PROVE  TokensHeld'
<1>1. ASSUME NEW t \in Tabs PROVE tab'[t].token \in Tokens' \cup {NoToken}
  <2>1. TabMoves(t, tab'[t]) /\ Loaded.token = NoToken
    BY LoadedTyped DEF BrowserStep, TabStep, Typed
  <2>2. QED
    BY <2>1 DEF TabMoves
<1>2. ASSUME NEW r \in Requests
      PROVE  /\ flow'[r].token \in Tokens' \cup {NoToken}
             /\ flow'[r].pc \in {"key", "post"} => flow'[r].token \in Tokens'
  BY DEF BrowserStep, FlowStep, FlowStarts, FlowGoesOn, FlowEnds, Ended, TokensHeld
<1>3. ASSUME NEW r \in Requests, handler'[r].pc # "none"
      PROVE  handler'[r].token \in Tokens'
  <2>1. CASE handler[r].pc = "none"
    BY <1>3, <2>1 DEF BrowserStep, Arrives, TokensHeld
  <2>2. CASE handler[r].pc # "none"
    <3>1. handler'[r].token = handler[r].token
      <4>1. CASE \E s \in Requests : Admits(s)
        BY <4>1 DEF Admits, Typed, ServerTypeOK
      <4>2. CASE \E s \in Requests : QueuesPair(s)
        BY <4>2 DEF QueuesPair, Typed, ServerTypeOK, HandlerRecords
      <4>3. CASE Continues(r)
        BY <2>2, <4>3 DEF Continues
      <4>4. CASE handler' = handler
        BY <4>4
      <4>5. QED
        BY <4>1, <4>2, <4>3, <4>4
        DEF QueueStep, QueuesNothing, QueuesFirst, Settles
    <3>2. QED
      BY <2>2, <3>1 DEF TokensHeld
  <2>3. QED
    BY <2>1, <2>2
<1>4. QED
  BY <1>1, <1>2, <1>3 DEF TokensHeld

LEMMA TodayStoredKept ==
  ASSUME Typed, TodayStored, BrowserStep
  PROVE  TodayStored'
<1>1. /\ today \in Nat /\ stored' \in {stored, today}
      /\ today' = today \/ today' = today + 1
  BY DEF Typed, BrowserTypeOK, BrowserStep, DaysStep
<1>2. SUFFICES ASSUME NEW r \in Requests, flow'[r].pc = "succeeded"
               PROVE  /\ flow'[r].day <= today'
                      /\ flow'[r].day = today' =>
                           stored' = today' /\ tab'[flow'[r].tab].day = today'
  BY DEF TodayStored
<1>3. CASE flow'[r] = flow[r]
  <2> DEFINE t == flow[r].tab
  <2>1. flow[r].day \in Nat /\ flow[r].day <= today /\ t \in Tabs
    BY <1>2, <1>3 DEF TodayStored, Typed, BrowserTypeOK, FlowRecords
  <2>2. CASE flow[r].day = today /\ today' = today
    <3>1. stored = today /\ tab[t].day = today
      BY <1>2, <1>3, <2>2 DEF TodayStored
    <3>2. tab'[t].day \in {stored, tab[t].day, today}
      <4>1. TabMoves(t, tab'[t]) /\ Loaded.day = stored
        BY <2>1, LoadedTyped DEF BrowserStep, TabStep, Typed
      <4>2. QED
        BY <4>1 DEF TabMoves
    <3>3. QED
      BY <1>1, <1>3, <2>2, <3>1, <3>2
  <2>3. CASE ~ (flow[r].day = today /\ today' = today)
    <3>1. flow[r].day < today'
      BY <1>1, <2>1, <2>3
    <3>2. QED
      BY <1>1, <1>3, <2>1, <3>1
  <2>4. QED
    BY <2>2, <2>3
<1>4. CASE FlowEnds(r, flow'[r])
  BY <1>1, <1>2, <1>4 DEF FlowEnds
<1>5. QED
  BY <1>2, <1>3, <1>4 DEF BrowserStep, FlowStep, FlowStarts, FlowGoesOn, Unsent

-----------------------------------------------------------------------------
\* The inductive invariant

LEMMA InvTyped ==
  ASSUME SubmissionInv PROVE Typed /\ JobsInv /\ faults \in 0 .. MaxFaults
BY DEF SubmissionInv, TypeOK, IngestionTypeOK, Typed, BrowserTypeOK, ServerTypeOK,
       HandlerRecords, JobRecords, FlowRecords, TabRecords, JobsInv

\* Every step, by what it does to the server, the browser and the version.
LEMMA StepSummary ==
  ASSUME SubmissionInv, [SubmissionNext]_submissionVars
  PROVE  /\ SignInTypeOK' /\ ServerTypeOK' /\ QueueKept
         /\ Tokens \subseteq Tokens'
         /\ Len(tokens') \in {Len(tokens), Len(tokens) + 1}
         /\ QueueStep /\ BrowserStep /\ VersionStep
         /\ key' \in Nat /\ faults' \in 0 .. MaxFaults
<1>1. /\ Typed /\ JobsInv /\ ServerTypeOK /\ SignInTypeOK /\ faults \in 0 .. MaxFaults
      /\ TypeOK /\ TokensHeld /\ HandlersTell /\ FlowsTell
  BY InvTyped DEF SubmissionInv, Typed
<1>2. /\ SignInTypeOK'
      /\ Tokens \subseteq Tokens' /\ Tokens' \subseteq Nat \ {0}
      /\ Len(tokens') \in {Len(tokens), Len(tokens) + 1}
  BY <1>1, StepsOfSignIn, SignInTyped
<1>3. QueueStep /\ handler' \in [Requests -> HandlerRecords]
  BY <1>1, StepsOfQueue
<1>4. ServerTypeOK'
  BY <1>1, <1>2, <1>3, ServerTyped
<1>5. QueueKept
  BY <1>1, <1>3, <1>4, QueueStepKeeps
<1>6. BrowserStep
  BY <1>1, <1>2, StepsOfBrowser
<1>7. VersionStep /\ key' \in Nat /\ faults' \in 0 .. MaxFaults
  BY <1>1, StepsOfVersion
<1>8. QED
  BY <1>2, <1>3, <1>4, <1>5, <1>6, <1>7

LEMMA TypesKept ==
  ASSUME Typed, SignInTypeOK', ServerTypeOK', BrowserStep, VersionStep,
         key' \in Nat, faults' \in 0 .. MaxFaults
  PROVE  TypeOK'
<1>1. IngestionTypeOK'
  BY DEF IngestionTypeOK, ServerTypeOK, HandlerRecords, JobRecords
<1>2. stored' \in 0 .. MaxDay /\ today' \in 1 .. MaxDay
  BY SubmissionAssumption DEF Typed, BrowserTypeOK, BrowserStep, DaysStep
<1>3. QED
  BY <1>1, <1>2
  DEF TypeOK, BrowserStep, FlowStep, TabStep, VersionStep, FlowRecords, TabRecords

LEMMA SubmissionPreserved ==
  ASSUME SubmissionInv, [SubmissionNext]_submissionVars PROVE SubmissionInv'
<1>1. /\ Typed /\ JobsInv /\ ServerTypeOK /\ TokensHeld /\ FlowsTell
      /\ OwnTokens /\ TodayStored /\ VersionsKnown /\ RefusedOnlyIfStale
  BY InvTyped DEF SubmissionInv, Typed
<1>2. /\ SignInTypeOK' /\ ServerTypeOK' /\ QueueKept
      /\ Tokens \subseteq Tokens'
      /\ QueueStep /\ BrowserStep /\ VersionStep
      /\ key' \in Nat /\ faults' \in 0 .. MaxFaults
  BY StepSummary
<1>3. handler' \in [Requests -> HandlerRecords]
  BY <1>2 DEF ServerTypeOK
<1>4. TypeOK'
  BY <1>1, <1>2, TypesKept
<1>5. TokensHeld'
  BY <1>1, <1>2, TokensHeldKept
<1>6. JobsInPairs' /\ OneOfEach' /\ HandlersTell'
  BY <1>1, <1>2, JobsKept DEF JobsInv
<1>7. FlowsTell'
  BY <1>1, <1>2, FlowsTellKept
<1>8. OwnTokens'
  BY <1>1, <1>2, OwnTokensKept
<1>9. TodayStored'
  BY <1>1, <1>2, TodayStoredKept
<1>10. VersionsKnown'
  BY <1>1, <1>2, <1>3, VersionsKept
<1>11. RefusedOnlyIfStale'
  BY <1>1, <1>2, RefusalsKept
<1>12. QED
  BY <1>4, <1>5, <1>6, <1>7, <1>8, <1>9, <1>10, <1>11 DEF SubmissionInv

LEMMA InitSubmission == SubmissionInit => SubmissionInv
<1> SUFFICES ASSUME SubmissionInit PROVE SubmissionInv
  OBVIOUS
<1>1. /\ issued = 0 /\ challenges = {} /\ overdue = {} /\ verifying = {}
      /\ tokens = << >> /\ used = {} /\ key = 1 /\ queue = << >> /\ torn = {}
      /\ faults = 0 /\ handler = [r \in Requests |-> Idle]
      /\ flow = [r \in Requests |-> NoFlow] /\ tab = [t \in Tabs |-> Loaded]
      /\ stored = 0 /\ today = 1 /\ version = 1
  BY DEF SubmissionInit, IngestionInit, SignInInit, NoDay
<1>2. /\ 0 \in 0 .. MaxFaults /\ today \in 1 .. MaxDay /\ stored \in 0 .. MaxDay
      /\ version \in Nat /\ key \in Nat
  BY <1>1, IngestionAssumption, SubmissionAssumption
<1>3. DOMAIN queue = {} /\ Settled = {}
  BY <1>1 DEF Settled
<1>4. SignInTypeOK
  BY <1>1 DEF SignInTypeOK
<1>5. ServerTypeOK /\ \A r \in Requests : handler[r] = Idle
  BY <1>1, IdleTyped DEF ServerTypeOK
<1>6. (CHOOSE t \in Tabs : TRUE) \in Tabs
  BY SubmissionAssumption
<1>7. /\ NoFlow \in FlowRecords /\ NoFlow.pc = "none" /\ NoFlow.token = NoToken
      /\ NoFlow.seen = {}
  BY <1>6 DEF NoFlow, FlowRecords, FlowStates, NoChallenge, NoToken, NoDay
<1>8. /\ Loaded \in TabRecords /\ Loaded.token = NoToken /\ Loaded.seen = {}
      /\ Loaded.version = version
  BY <1>1, <1>3 DEF Loaded, TabRecords, Stages, NoToken
<1>9. /\ flow \in [Requests -> FlowRecords] /\ tab \in [Tabs -> TabRecords]
      /\ \A r \in Requests : flow[r] = NoFlow
      /\ \A t \in Tabs : tab[t] = Loaded
  BY <1>1, <1>7, <1>8
<1>10. TypeOK
  BY <1>1, <1>2, <1>4, <1>5, <1>9
  DEF TypeOK, IngestionTypeOK, ServerTypeOK, HandlerRecords, JobRecords,
      FlowRecords, TabRecords
<1>11. Idle.pc = "none" /\ Idle.status # 202
  BY DEF Idle, NotOver
<1>12. TokensHeld
  BY <1>5, <1>7, <1>8, <1>9, <1>11 DEF TokensHeld
<1>13. JobsInPairs /\ OneOfEach /\ RefusedOnlyIfStale
  BY <1>3 DEF JobsInPairs, OneOfEach, RefusedOnlyIfStale
<1>14. HandlersTell
  BY <1>1, <1>3, <1>5, <1>11 DEF HandlersTell
<1>15. FlowsTell /\ TodayStored
  BY <1>5, <1>7, <1>9, <1>11 DEF FlowsTell, TodayStored
<1>16. OwnTokens
  BY <1>3, <1>5, <1>11 DEF OwnTokens, Spending, Queued, Admitted
<1>17. VersionsKnown
  <2>1. ~ (version > version)
    BY <1>2
  <2>2. QED
    BY <1>3, <1>5, <1>7, <1>8, <1>9, <1>11, <2>1
    DEF VersionsKnown, Current, Unsent, Admitted
<1>18. QED
  BY <1>10, <1>12, <1>13, <1>14, <1>15, <1>16, <1>17 DEF SubmissionInv

\* The inductive invariant holds of every reachable state.
THEOREM SubmissionInvariant == SubmissionSpec => []SubmissionInv
BY InitSubmission, SubmissionPreserved, PTL DEF SubmissionSpec

\* Challenges, tokens, handlers, jobs, flows and tabs keep their types.
THEOREM SubmissionTyped == SubmissionSpec => []TypeOK
<1>1. SubmissionInv => TypeOK
  BY DEF SubmissionInv
<1>2. QED
  BY <1>1, SubmissionInvariant, PTL

\* What the panel tells the user is so: after a success both jobs are queued,
\* after an error answer neither is, unless the handler was cut short.
THEOREM PanelTellsTheTruth == SubmissionSpec => []AnswersAreTrue
<1>1. SubmissionInv => AnswersAreTrue
  <2>1. SUFFICES ASSUME SubmissionInv, NEW r \in Requests
                 PROVE  /\ flow[r].pc = "succeeded" =>
                             \A kind \in JobKinds : Queued(r, kind)
                        /\ flow[r].pc = "refused" /\ r \notin torn =>
                             \A kind \in JobKinds : ~Queued(r, kind)
    BY DEF AnswersAreTrue
  <2>2. flow[r].pc = "succeeded" => \A kind \in JobKinds : Queued(r, kind)
    BY <2>1 DEF SubmissionInv, FlowsTell, HandlersTell
  <2>3. flow[r].pc = "refused" /\ r \notin torn =>
          \A i \in DOMAIN queue : queue[i].request # r
    BY <2>1 DEF SubmissionInv, FlowsTell, HandlersTell
  <2>4. QED
    BY <2>2, <2>3 DEF Queued
<1>2. QED
  BY <1>1, SubmissionInvariant, PTL

\* A document is never queued without or before its footprint, and a footprint
\* lacks its document only if its request was cut short between the inserts.
THEOREM DocumentsFollowFootprints == SubmissionSpec => []JobsInPairs
<1>1. SubmissionInv => JobsInPairs
  BY DEF SubmissionInv
<1>2. QED
  BY <1>1, SubmissionInvariant, PTL

\* The chain refuses the document of a submission only if its tab was loaded
\* before the document of another submission was settled.
THEOREM RefusalsAreStale == SubmissionSpec => []RefusedOnlyIfStale
<1>1. SubmissionInv => RefusedOnlyIfStale
  BY DEF SubmissionInv
<1>2. QED
  BY <1>1, SubmissionInvariant, PTL

\* Sign-in and ingestion together implement single-use tickets: a token is
\* admitted once and queues one footprint at most, whatever requests share,
\* overlap, fail or are cut short.
THEOREM TokensAreTickets == SubmissionSpec => TicketSpec
<1>1. SubmissionInit => TicketsOfTokens!Init
  <2>1. SUFFICES ASSUME SubmissionInit PROVE TicketsOfTokens!Init
    OBVIOUS
  <2>2. Len(tokens) = 0 /\ used = {} /\ Footprints = {}
    BY <2>1 DEF SubmissionInit, IngestionInit, SignInInit, Footprints
  <2>3. HonouredTickets = [t \in {} |-> 0]
    BY <2>2 DEF HonouredTickets
  <2>4. QED
    BY <2>2, <2>3 DEF TicketsOfTokens!Init
<1>2. ASSUME SubmissionInv, [SubmissionNext]_submissionVars
      PROVE  [TicketsOfTokens!Next]_TicketsOfTokens!vars
  <2>1. /\ ServerTypeOK /\ JobsInv /\ OwnTokens /\ SignInTypeOK /\ TokensHeld
    BY <1>2, InvTyped DEF SubmissionInv, Typed
  <2>2. /\ ServerTypeOK' /\ QueueStep
        /\ Len(tokens') \in {Len(tokens), Len(tokens) + 1}
    BY <1>2, StepSummary
  <2>3. QED
    BY <2>1, <2>2, TicketStep
<1>3. QED
  BY <1>1, <1>2, SubmissionInvariant, PTL
  DEF SubmissionSpec, TicketSpec, TicketsOfTokens!Spec

\* Once a tab has shown the success of a day, it sends nothing else that day,
\* however often it is reloaded and whatever answers late.
THEOREM TabsLockAfterSuccess == SubmissionSpec => LockedAfterSuccess
<1> DEFINE Lock == \A r \in Requests :
              flow[r].pc = "none" /\ flow'[r].pc = "token" =>
                ~ \E s \in Requests : /\ flow[s].pc = "succeeded"
                                      /\ flow[s].day = today
                                      /\ flow[s].tab = flow'[r].tab
<1>1. ASSUME SubmissionInv, [SubmissionNext]_submissionVars PROVE Lock
  <2>1. SUFFICES ASSUME NEW r \in Requests, flow[r].pc = "none", flow'[r].pc = "token",
                        NEW s \in Requests, flow[s].pc = "succeeded",
                        flow[s].day = today, flow[s].tab = flow'[r].tab
                 PROVE  FALSE
    OBVIOUS
  <2>2. FlowStarts(r, flow'[r])
    BY <1>1, <2>1, StepSummary DEF BrowserStep, FlowStep, FlowGoesOn, FlowEnds
  <2>3. tab[flow'[r].tab].day # today
    BY <2>2 DEF FlowStarts
  <2>4. tab[flow[s].tab].day = today
    BY <1>1, <2>1 DEF SubmissionInv, TodayStored
  <2>5. QED
    BY <2>1, <2>3, <2>4
<1>2. SubmissionInv /\ [SubmissionNext]_submissionVars => [Lock]_submissionVars
  BY <1>1
<1>3. QED
  BY <1>2, SubmissionInvariant, PTL DEF SubmissionSpec, LockedAfterSuccess
=============================================================================
