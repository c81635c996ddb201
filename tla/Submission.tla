----------------------------- MODULE Submission -----------------------------
(***************************************************************************)
(* A user submits footprints from browser tabs to the server of Ingestion:   *)
(* frontend/src/features/submission, lib/api/encrypted-ingestion-client.ts,  *)
(* lib/domain/state.ts, and what of the dashboard stores the daily lock.     *)
(*                                                                         *)
(* Every click starts a flow of its own; a reload of the tab abandons its    *)
(* flows but not the handlers that work for them.                          *)
(***************************************************************************)
EXTENDS Ingestion

CONSTANTS
  Tabs,
  MaxDay      \* bound on the days

ASSUME SubmissionAssumption == Tabs # {} /\ MaxDay \in Nat \ {0}

VARIABLES
  flow,      \* submitForScoring of each request
  tab,       \* the panel and the token cache of each tab
  stored,    \* the day of the snapshot in localStorage, 0 if none
  today,
  version    \* metadata_version on the chain

browserVars    == <<flow, tab, stored, today, version>>
submissionVars == <<ingestionVars, browserVars>>

FlowStates == {"none", "token", "sign", "verify", "key", "post", "posted",
               "succeeded", "refused", "broken", "abandoned"}
Ended  == {"succeeded", "refused", "broken", "abandoned"}
\* The guards only ask whether the stage is "submitting".
Stages == {"submitting", "other"}
NoDay  == 0

NoFlow == [pc |-> "none", tab |-> CHOOSE t \in Tabs : TRUE, again |-> FALSE,
           challenge |-> NoChallenge, token |-> NoToken, key |-> 0,
           version |-> 0, valid |-> TRUE, day |-> NoDay, seen |-> {}]

\* The requests whose document is on the chain or was refused there.
Settled == {queue[i].request : i \in
              {j \in DOMAIN queue : queue[j].status # "pending"}}

\* A tab is loaded by a connected user with a registered profile.
Loaded == [stage |-> "other", day |-> stored, token |-> NoToken,
           version |-> version, seen |-> Settled, jobs |-> FALSE]

SubmissionInit ==
  /\ IngestionInit
  /\ flow = [r \in Requests |-> NoFlow]
  /\ stored = NoDay
  /\ today = 1
  /\ version = 1
  /\ tab = [t \in Tabs |-> Loaded]

TypeOK ==
  /\ IngestionTypeOK
  /\ flow \in [Requests ->
       [pc : FlowStates, tab : Tabs, again : BOOLEAN, challenge : Nat,
        token : Nat, key : Nat, version : Nat, valid : BOOLEAN, day : Nat,
        seen : SUBSET Requests]]
  /\ tab \in [Tabs -> [stage : Stages, day : Nat, token : Nat,
                       version : Nat, seen : SUBSET Requests, jobs : BOOLEAN]]
  /\ stored \in 0 .. MaxDay
  /\ today \in 1 .. MaxDay
  /\ version \in Nat

-----------------------------------------------------------------------------
\* isDailySubmissionLocked
HasSubmittedToday(t) == tab[t].day = today

CanSubmit(t) == ~HasSubmittedToday(t) /\ tab[t].stage # "submitting"

\* A click on the button.  The metadata version is the one loaded with the tab.
SubmitForScoring(t, r, valid) ==
  /\ CanSubmit(t)
  /\ flow[r].pc = "none" /\ \A q \in 1 .. r - 1 : flow[q].pc # "none"
  /\ flow' = [flow EXCEPT
       ![r] = [NoFlow EXCEPT !.pc = "token", !.tab = t, !.valid = valid,
                             !.version = tab[t].version, !.day = today,
                             !.seen = tab[t].seen]]
  /\ tab' = [tab EXCEPT ![t].stage = "submitting"]
  /\ UNCHANGED <<ingestionVars, stored, today, version>>

\* getAuthToken is called twice, by the panel and by the ingestion client.
TakeToken(r, k) ==
  flow' = [flow EXCEPT
    ![r].pc    = IF flow[r].again THEN "key" ELSE "token",
    ![r].again = TRUE,
    ![r].token = k]

HasCachedToken(t) ==
  tab[t].token # NoToken /\ tokens[tab[t].token] = "fresh"

UseCachedToken(r) ==
  /\ flow[r].pc = "token"
  /\ HasCachedToken(flow[r].tab)
  /\ TakeToken(r, tab[flow[r].tab].token)
  /\ UNCHANGED <<ingestionVars, tab, stored, today, version>>

RequestChallenge(r) ==
  /\ flow[r].pc = "token"
  /\ ~HasCachedToken(flow[r].tab)
  /\ IssueChallenge
  /\ flow' = [flow EXCEPT ![r].pc = "sign", ![r].challenge = issued']
  /\ UNCHANGED <<used, key, handler, queue, torn, faults>>
  /\ UNCHANGED <<tab, stored, today, version>>

\* A flow that holds nothing any more
EndOf(r, pc) == [NoFlow EXCEPT !.pc = pc, !.tab = flow[r].tab,
                               !.day = flow[r].day, !.seen = flow[r].seen]

\* The flow ends with an error: markSubmissionFailed.
Fail(r, pc) ==
  /\ flow' = [flow EXCEPT ![r] = EndOf(r, pc)]
  /\ tab' = [tab EXCEPT ![flow[r].tab].stage = "other"]
  /\ UNCHANGED <<stored, today, version>>

SendSignature(r) ==
  /\ flow[r].pc = "sign"
  /\ UNCHANGED <<used, key, handler, queue, torn, faults>>
  /\ \/ /\ BeginVerification(r, flow[r].challenge)
        /\ flow' = [flow EXCEPT ![r].pc = "verify"]
        /\ UNCHANGED <<tab, stored, today, version>>
     \/ RefuseChallenge(flow[r].challenge) /\ Fail(r, "refused")

\* The token arrives and is cached for the tab, whatever cached there.
ReceiveToken(r) ==
  /\ flow[r].pc = "verify"
  /\ FinishVerification(r, flow[r].challenge)
  /\ tab' = [tab EXCEPT ![flow[r].tab].token = Len(tokens')]
  /\ TakeToken(r, Len(tokens'))
  /\ UNCHANGED <<used, key, handler, queue, torn, faults>>
  /\ UNCHANGED <<stored, today, version>>

FetchPublicKey(r) ==
  /\ flow[r].pc = "key"
  /\ flow' = [flow EXCEPT ![r].pc = "post", ![r].key = key]
  /\ UNCHANGED <<ingestionVars, tab, stored, today, version>>

SubmitEncryptedFootprint(r) ==
  /\ flow[r].pc = "post"
  /\ Receive(r, flow[r].token, flow[r].key, flow[r].version, flow[r].valid)
  /\ flow' = [flow EXCEPT ![r] = EndOf(r, "posted")]
  /\ UNCHANGED <<tab, stored, today, version>>

\* Mutant: the dashboard does not store the snapshot.
StoreNothing(day) == stored
\* Mutant: the day is one ahead of the browser's.
StoreTomorrow(day) == day + 1
StoreSnapshot(day) == day

\* 202: markSubmissionSucceeded and the dashboard's persistVerifiedSnapshot, both
\* by the browser's clock at the time of the answer.
ReceiveResult(r) ==
  /\ flow[r].pc = "posted"
  /\ handler[r].pc = "answered" /\ handler[r].status = 202
  /\ flow' = [flow EXCEPT ![r].pc = "succeeded", ![r].day = today]
  /\ tab' = [tab EXCEPT ![flow[r].tab].stage = "other",
                        ![flow[r].tab].day   = today,
                        ![flow[r].tab].jobs  = TRUE]
  /\ stored' = StoreSnapshot(today)
  /\ UNCHANGED <<ingestionVars, today, version>>

ReceiveError(r) ==
  /\ flow[r].pc = "posted"
  /\ handler[r].pc = "answered" /\ handler[r].status # 202
  /\ Fail(r, "refused")
  /\ UNCHANGED ingestionVars

\* The process died with the request or the verification, or the answer is lost.
ConnectionBreaks(r) ==
  \/ /\ \/ flow[r].pc = "posted" /\ handler[r].pc = "died"
        \/ flow[r].pc = "verify" /\ <<r, flow[r].challenge>> \notin verifying
     /\ Fail(r, "broken")
     /\ UNCHANGED ingestionVars
  \/ /\ flow[r].pc = "posted" /\ handler[r].pc # "died"
     /\ Fault
     /\ Fail(r, "broken")
     /\ UNCHANGED <<signInVars, used, key, handler, queue, torn>>

\* refreshJob of a job of an earlier submission fails while another is under way.
RefreshJobFails(t) ==
  /\ tab[t].jobs
  /\ tab[t].stage = "submitting"
  /\ tab' = [tab EXCEPT ![t].stage = "other"]
  /\ UNCHANGED <<ingestionVars, flow, stored, today, version>>

Reload(t) ==
  /\ tab' = [tab EXCEPT ![t] = Loaded]
  /\ flow' = [r \in Requests |->
       IF flow[r].tab = t /\ flow[r].pc \notin Ended \cup {"none"}
       THEN EndOf(r, "abandoned") ELSE flow[r]]
  /\ UNCHANGED <<ingestionVars, stored, today, version>>

-----------------------------------------------------------------------------
\* A worker settles a document of the queue (OracleJobs, OracleDelivery).
SyncDocument(i) ==
  /\ queue[i].status = "pending" /\ ~IsSubmit(queue[i])
  /\ \/ /\ queue[i].version > version
        /\ queue' = [queue EXCEPT ![i].status = "completed"]
        /\ version' = queue[i].version
     \/ /\ queue[i].version <= version
        /\ queue' = [queue EXCEPT ![i].status = "failed"]
        /\ UNCHANGED version
  /\ UNCHANGED <<signInVars, used, key, handler, torn, faults>>
  /\ UNCHANGED <<flow, tab, stored, today>>

NextDay ==
  /\ today < MaxDay
  /\ today' = today + 1
  /\ UNCHANGED <<ingestionVars, flow, tab, stored, version>>

\* Only the age of a token that a tab or a request still holds matters.
Held(k) ==
  \/ \E t \in Tabs : tab[t].token = k
  \/ \E r \in Requests :
       /\ flow[r].pc \notin Ended \/ handler[r].pc = "verifying"
       /\ k \in {flow[r].token, handler[r].token}

TimePasses ==
  /\ \/ \E r \in Requests :
          flow[r].pc = "sign" /\ ChallengeExpires(flow[r].challenge)
     \/ \E k \in Tokens : Held(k) /\ TokenAges(k)
  /\ UNCHANGED <<used, key, handler, queue, torn, faults, browserVars>>

\* What the browser does for r without being asked
Proceed(r) ==
  \/ UseCachedToken(r)
  \/ RequestChallenge(r)
  \/ SendSignature(r)
  \/ ReceiveToken(r)
  \/ FetchPublicKey(r)
  \/ SubmitEncryptedFootprint(r)
  \/ ReceiveResult(r)
  \/ ReceiveError(r)
  \/ ConnectionBreaks(r)

HandlerStep(r) == (Handle(r) \/ AwaitFails(r) \/ InsertThrows(r)) /\ UNCHANGED browserVars

SubmissionNext ==
  \/ \E t \in Tabs, r \in Requests, valid \in BOOLEAN :
       SubmitForScoring(t, r, valid)
  \/ \E r \in Requests : Proceed(r) \/ HandlerStep(r)
  \/ \E t \in Tabs : RefreshJobFails(t) \/ Reload(t)
  \/ ServerDies /\ UNCHANGED browserVars
  \/ \E i \in DOMAIN queue : SyncDocument(i)
  \/ NextDay
  \/ TimePasses

SubmissionSpec == SubmissionInit /\ [][SubmissionNext]_submissionVars

\* Every fetch is answered or breaks, every await of a handler ends.
SubmissionFairness ==
  \A r \in Requests :
    /\ WF_submissionVars(Proceed(r))
    /\ WF_submissionVars(HandlerStep(r))

SubmissionFairSpec == SubmissionSpec /\ SubmissionFairness

-----------------------------------------------------------------------------
\* What the panel tells the user is so: after a success both jobs are queued,
\* after an error answer none is, unless the handler was cut short.
AnswersAreTrue ==
  \A r \in Requests :
    /\ flow[r].pc = "succeeded" =>
         \A kind \in JobKinds : Queued(r, kind)
    /\ flow[r].pc = "refused" /\ r \notin torn =>
         \A kind \in JobKinds : ~Queued(r, kind)

\* Once a tab has shown the success of a day, it sends nothing else that day,
\* however often it is reloaded and whatever answers late.
LockedAfterSuccess ==
  [][\A r \in Requests :
       flow[r].pc = "none" /\ flow'[r].pc = "token" =>
         ~ \E s \in Requests : /\ flow[s].pc = "succeeded"
                               /\ flow[s].day = today
                               /\ flow[s].tab = flow'[r].tab]_submissionVars

\* The button does not stay busy for ever.
PanelSettles ==
  \A t \in Tabs : tab[t].stage = "submitting" ~> tab[t].stage # "submitting"

\* The document of a submission is refused on the chain only if its tab was
\* loaded before the document of another submission was settled: nothing but the
\* version that the tab still shows can be out of date.
RefusedOnlyIfStale ==
  \A i \in DOMAIN queue : queue[i].status = "failed" =>
    \E j \in DOMAIN queue :
      /\ queue[j].status = "completed"
      /\ queue[j].request \notin flow[queue[i].request].seen
=============================================================================
