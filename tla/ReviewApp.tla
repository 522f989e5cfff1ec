----------------------------- MODULE ReviewApp -----------------------------
(***************************************************************************)
(* The GitHub App, revsrv: webhook deliveries answered at once, an analysis *)
(* per delivery in a goroutine of its own under a deadline, a shared cache  *)
(* of installation tokens, and one comment per pull request found by its    *)
(* marker.  GitHub may refuse or never answer any call, people comment and  *)
(* delete comments, and the process may be asked to stop or be killed at    *)
(* any moment, and started again.                                           *)
(*                                                                         *)
(* Time is counted in units of which ProcessingTimeout holds a few. A call  *)
(* is a wait (a value of pc) that GitHub ends, refuses or leaves to the     *)
(* deadline.  What the certificate says is the business of Certify; here it *)
(* is "graded" or "F".                                                      *)
(***************************************************************************)
EXTENDS Integers, Sequences, SequencesExt, FiniteSets

CONSTANTS
    Deliveries,      \* webhook deliveries GitHub may send
    Requests,        \* pull requests
    Installations,   \* installations of the app
    NoInstallation,  \* a payload that carries none
    Humans,          \* comments people may write
    Quoting,         \* those that carry the app's marker, quoted from its source
    Kind,            \* Kind[d]: what the delivery turns out to be
    Request,         \* Request[d]: the pull request it is about
    Installation,    \* Installation[d]: the installation it names
    FetchCalls,      \* API calls the changeset takes
    PageSize,        \* comments per page of a listing
    ProcessingTimeout,       \* what one analysis may take
    InstallationTokenMargin, \* how early a token is refreshed
    TokenLifetime,           \* how long GitHub makes a token last
    MaxTime,         \* bound on the clock
    MaxMishaps       \* bound on restarts and deleted comments together

Kinds == {"forged", "other", "unreadable", "analyzed"}

ASSUME DeliveriesAssumption ==
    /\ Kind \in [Deliveries -> Kinds]
    /\ Request \in [Deliveries -> Requests]
    /\ Installation \in [Deliveries -> Installations \cup {NoInstallation}]
    /\ NoInstallation \notin Installations
    /\ Deliveries \cap Humans = {}
    /\ Quoting \subseteq Humans

\* Both durations are five minutes, a token lasts an hour.
ASSUME TimesAssumption ==
    /\ ProcessingTimeout \in Nat \ {0}
    /\ InstallationTokenMargin \in Nat /\ InstallationTokenMargin >= ProcessingTimeout
    /\ TokenLifetime \in Nat /\ TokenLifetime >= ProcessingTimeout

ASSUME BoundsAssumption ==
    /\ FetchCalls \in Nat /\ PageSize \in Nat \ {0}
    /\ MaxTime \in Nat /\ MaxMishaps \in Nat

VARIABLES
    now,
    server,    \* "up", "draining" after a signal, "down"
    restarts,
    answer,    \* answer[d]: what the delivery was answered
    job,       \* job[d]: the goroutine analyzing it
    tokens,    \* the authenticator's cache, by installation
    comments,  \* comments[p]: the pull request's conversation, oldest first
    deletes

vars == <<now, server, restarts, answer, job, tokens, comments, deletes>>

NoToken == [for |-> NoInstallation, expires |-> 0]
Token   == [for : Installations \cup {NoInstallation}, expires : Nat]

Running == {"auth", "mint", "fetch", "certify", "find", "post"}
Waiting == {"mint", "fetch", "find", "post"}
Ended   == {"reported", "failed", "dropped", "killed"}

\* pc is where the goroutine is; got counts the calls of the fetch that came
\* back; walked the comments of the listing already looked at; found is the
\* app's comment. sure is history, for the properties: the app had a comment
\* when the walk began and nothing was deleted since.
NoJob == [pc |-> "none", deadline |-> 0, token |-> NoToken, got |-> 0,
          cert |-> "none", walked |-> 0, found |-> {}, sure |-> FALSE]

Init ==
    /\ now = 0
    /\ server = "up"
    /\ restarts = 0
    /\ answer = [d \in Deliveries |-> "none"]
    /\ job = [d \in Deliveries |-> NoJob]
    /\ tokens = [i \in Installations |-> NoToken]
    /\ comments = [p \in Requests |-> << >>]
    /\ deletes = 0

-----------------------------------------------------------------------------
(* Deliveries. *)

\* The last moment at which an analysis may begin and still reach its deadline
\* within the bound on the clock.
LastStart == MaxTime - ProcessingTimeout

\* ServeHTTP and handlePullRequest: verify, route, decode; a delivery worth
\* analyzing is dispatched to a goroutine before it is answered.
Receive(d) ==
    /\ server = "up" /\ answer[d] = "none" /\ now <= LastStart
    /\ IF Kind[d] = "analyzed"
       THEN /\ answer' = [answer EXCEPT ![d] = "open"]
            /\ job' = [job EXCEPT ![d].pc = "queued"]
       ELSE /\ answer' = [answer EXCEPT ![d] =
                             CASE Kind[d] = "forged"     -> "rejected"
                               [] Kind[d] = "other"      -> "ignored"
                               [] Kind[d] = "unreadable" -> "bad request"]
            /\ UNCHANGED job
    /\ UNCHANGED <<now, server, restarts, tokens, comments, deletes>>

\* The answer is written after the dispatch, whatever the goroutine does.
Respond(d) ==
    /\ answer[d] = "open"
    /\ answer' = [answer EXCEPT ![d] = "accepted"]
    /\ UNCHANGED <<now, server, restarts, job, tokens, comments, deletes>>

-----------------------------------------------------------------------------
(* One analysis. *)

\* Only the goroutine moves its job; everything else stays.
Move(d, j) ==
    /\ job' = [job EXCEPT ![d] = j]
    /\ UNCHANGED <<now, server, restarts, answer, deletes>>

\* What remains of an analysis that ended: how much of the changeset it got.
Over(d, how) == [NoJob EXCEPT !.pc = how, !.got = job[d].got]

\* The context of d is still good: a call may be answered.
InTime(d) == now < job[d].deadline

\* Mutant: the analysis has no deadline that anything could reach.
BeginUnbounded(d) ==
    /\ job[d].pc = "queued"
    /\ Move(d, [job[d] EXCEPT !.pc = "auth", !.deadline = MaxTime + 1])
    /\ UNCHANGED <<tokens, comments>>

Begin(d) ==
    /\ job[d].pc = "queued"
    /\ Move(d, [job[d] EXCEPT !.pc = "auth", !.deadline = now + ProcessingTimeout])
    /\ UNCHANGED <<tokens, comments>>

\* Mutant: a token is used up to its last moment.
FreshWithoutMargin(token) == token # NoToken /\ now < token.expires

\* A cached token is used only if it outlives the margin.
Fresh(token) == token # NoToken /\ now + InstallationTokenMargin < token.expires

\* installationToken, up to the request for a new one: the cache is read under
\* its lock and the lock released, so two analyses may both ask.
Authenticate(d) ==
    /\ job[d].pc = "auth"
    /\ LET i == Installation[d] IN
       \/ i = NoInstallation /\ Move(d, Over(d, "failed"))
       \/ /\ i # NoInstallation /\ Fresh(tokens[i])
          /\ Move(d, [job[d] EXCEPT !.pc = "fetch", !.token = tokens[i]])
       \/ /\ i # NoInstallation /\ ~Fresh(tokens[i])
          /\ Move(d, [job[d] EXCEPT !.pc = "mint"])
    /\ UNCHANGED <<tokens, comments>>

\* GitHub mints a token; it is cached for the next analysis.
Minted(d) ==
    /\ job[d].pc = "mint" /\ InTime(d)
    /\ LET token == [for |-> Installation[d], expires |-> now + TokenLifetime] IN
       /\ Move(d, [job[d] EXCEPT !.pc = "fetch", !.token = token])
       /\ tokens' = [tokens EXCEPT ![Installation[d]] = token]
    /\ UNCHANGED comments

\* provider.Resolve: comparison, directory listings and contents, in sequence.
Fetched(d) ==
    /\ job[d].pc = "fetch" /\ InTime(d)
    /\ LET got == job[d].got + 1 IN
       Move(d, [job[d] EXCEPT !.got = got,
                              !.pc  = IF got >= FetchCalls THEN "certify" ELSE "fetch"])
    /\ UNCHANGED <<tokens, comments>>

\* The app knows its comment by a marker, whoever wrote it: every comment the
\* app creates begins with it.
Own(c) == c.id \in Deliveries \cup Quoting

\* The walk over the comments starts at the first page.
FindFrom(d, cert) ==
    [job[d] EXCEPT !.pc = "find", !.cert = cert, !.walked = 0,
                   !.sure = \E k \in DOMAIN comments[Request[d]] : Own(comments[Request[d]][k])]

\* Engine.Certify always returns a certificate, a broken run's or one that
\* graded what was fetched; either is reported.
Certify(d) ==
    /\ job[d].pc = "certify"
    /\ \E cert \in {"graded", "F"} : Move(d, FindFrom(d, cert))
    /\ UNCHANGED <<tokens, comments>>

\* Mutant: the first page is the only one that is read.
AfterFirstPage(j, conversation) ==
    LET last  == Len(conversation)
        upTo  == IF j.walked + PageSize < last THEN j.walked + PageSize ELSE last
        mine  == {k \in j.walked + 1 .. upTo : Own(conversation[k])}
    IN  IF mine # {}
        THEN LET first == CHOOSE k \in mine : \A l \in mine : k <= l
             IN  [j EXCEPT !.pc = "post", !.found = {conversation[first].id}]
        ELSE [j EXCEPT !.pc = "post"]

\* findOwnComment, one page: the first comment that carries the marker ends
\* the walk, and so does the last page.
AfterPage(j, conversation) ==
    LET last  == Len(conversation)
        upTo  == IF j.walked + PageSize < last THEN j.walked + PageSize ELSE last
        mine  == {k \in j.walked + 1 .. upTo : Own(conversation[k])}
    IN  IF mine # {}
        THEN LET first == CHOOSE k \in mine : \A l \in mine : k <= l
             IN  [j EXCEPT !.pc = "post", !.found = {conversation[first].id}]
        ELSE IF j.walked + PageSize < last
             THEN [j EXCEPT !.walked = @ + PageSize]
             ELSE [j EXCEPT !.pc = "post"]

Page(d) ==
    /\ job[d].pc = "find" /\ InTime(d)
    /\ Move(d, AfterPage(job[d], comments[Request[d]]))
    /\ UNCHANGED <<tokens, comments>>

\* What the comment of d shows.
Shown(id, d) == [id |-> id, by |-> d, cert |-> job[d].cert]

\* Mutant: a new comment is filed under the one that was not found.
UpsertedUnderNothing(d) ==
    IF job[d].found = {}
    THEN Append(comments[Request[d]], Shown(job[d].found, d))
    ELSE [k \in DOMAIN comments[Request[d]] |->
            IF comments[Request[d]][k].id \in job[d].found
            THEN Shown(comments[Request[d]][k].id, d) ELSE comments[Request[d]][k]]

\* The conversation after GitHub carried out the call of d: the comment that
\* was found is replaced, if it still exists; otherwise one is added.
Upserted(d) ==
    LET conversation == comments[Request[d]] IN
    IF job[d].found = {} THEN Append(conversation, Shown(d, d))
    ELSE [k \in DOMAIN conversation |->
            IF conversation[k].id \in job[d].found
            THEN Shown(conversation[k].id, d) ELSE conversation[k]]

StillThere(d) ==
    job[d].found = {} \/ \E k \in DOMAIN comments[Request[d]] :
                             comments[Request[d]][k].id \in job[d].found

\* The report is carried out. Should its answer get lost on the way back, the
\* goroutine logs that and is over all the same.
Posted(d) ==
    /\ job[d].pc = "post" /\ InTime(d) /\ StillThere(d)
    /\ comments' = [comments EXCEPT ![Request[d]] = Upserted(d)]
    /\ Move(d, Over(d, "reported"))
    /\ UNCHANGED tokens

\* Mutant: a fetch that fails goes on with what it got.
FailKeepsGoing(d) ==
    /\ job[d].pc \in Waiting
    /\ IF job[d].pc = "fetch"
       THEN Move(d, [job[d] EXCEPT !.pc = "certify"])
       ELSE Move(d, Over(d, "failed"))
    /\ UNCHANGED <<tokens, comments>>

\* A call that fails: a refusal, an error, or the deadline. A fetch that fails
\* is itself reported, as an F; any other failure can only be logged.
Fail(d) ==
    /\ job[d].pc \in Waiting
    /\ IF job[d].pc = "fetch"
       THEN Move(d, FindFrom(d, "F"))
       ELSE Move(d, Over(d, "failed"))
    /\ UNCHANGED <<tokens, comments>>

\* The deadline ends every wait.
Expire(d) == ~InTime(d) /\ Fail(d)

-----------------------------------------------------------------------------
(* The process. *)

Stop(how) ==
    /\ server' = "down"
    /\ job' = [d \in Deliveries |->
                 IF job[d].pc \in Running \cup {"queued"} THEN Over(d, how) ELSE job[d]]
    /\ answer' = [d \in Deliveries |-> IF answer[d] = "open" THEN "undelivered" ELSE answer[d]]
    /\ tokens' = [i \in Installations |-> NoToken]
    /\ UNCHANGED <<now, restarts, comments, deletes>>

\* SIGTERM: Shutdown closes the listener.
Signal ==
    /\ server = "up"
    /\ server' = "draining"
    /\ UNCHANGED <<now, restarts, answer, job, tokens, comments, deletes>>

\* Shutdown returns when no request is being handled, Run after it, and the
\* process with them: goroutines that outlived their request end where they are.
Exit ==
    /\ server = "draining"
    /\ \A d \in Deliveries : answer[d] # "open"
    /\ Stop("dropped")

\* The process dies: killed, out of memory, or a panic outside the engine.
Kill ==
    /\ server # "down"
    /\ Stop("killed")

Restart ==
    /\ server = "down" /\ restarts + deletes < MaxMishaps
    /\ server' = "up"
    /\ restarts' = restarts + 1
    /\ UNCHANGED <<now, answer, job, tokens, comments, deletes>>

-----------------------------------------------------------------------------
(* The rest of the world. *)

Tick ==
    /\ now < MaxTime
    /\ (\E d \in Deliveries : job[d].pc = "queued") => now < LastStart
    /\ now' = now + 1
    /\ UNCHANGED <<server, restarts, answer, job, tokens, comments, deletes>>

Says(h, p) ==
    /\ \A q \in Requests : \A k \in DOMAIN comments[q] : comments[q][k].id # h
    /\ comments' = [comments EXCEPT ![p] = Append(@, [id |-> h, by |-> h, cert |-> "none"])]
    /\ UNCHANGED <<now, server, restarts, answer, job, tokens, deletes>>

\* Deleting a comment moves every later one towards the front.
Delete(p, k) ==
    /\ restarts + deletes < MaxMishaps /\ k \in DOMAIN comments[p]
    /\ comments' = [comments EXCEPT ![p] = RemoveAt(@, k)]
    /\ job' = [d \in Deliveries |-> IF Request[d] = p THEN [job[d] EXCEPT !.sure = FALSE] ELSE job[d]]
    /\ deletes' = deletes + 1
    /\ UNCHANGED <<now, server, restarts, answer, tokens>>

-----------------------------------------------------------------------------

\* What the goroutines do by themselves.
Local(d) == Respond(d) \/ Begin(d) \/ Authenticate(d) \/ Certify(d)

\* What GitHub answers.
Answered(d) == Minted(d) \/ Fetched(d) \/ Page(d) \/ Posted(d)

World ==
    \/ Tick
    \/ \E h \in Humans, p \in Requests : Says(h, p)
    \/ \E p \in Requests : \E k \in DOMAIN comments[p] : Delete(p, k)

Process == Signal \/ Exit \/ Kill \/ Restart

Next ==
    \/ \E d \in Deliveries : Receive(d) \/ Local(d) \/ Answered(d) \/ Fail(d)
    \/ Process
    \/ World

Spec == Init /\ [][Next]_vars

\* Goroutines are scheduled, with an expired context as the end of their
\* waits, and the clock runs. No call need ever be answered, no signal need
\* ever come, and an orderly shutdown need never finish.
Fairness ==
    /\ \A d \in Deliveries : WF_vars(Local(d) \/ Expire(d))
    /\ WF_vars(Tick)

FairSpec == Spec /\ Fairness

-----------------------------------------------------------------------------
(* What must hold. *)

Job == [pc : {"none", "queued"} \cup Running \cup Ended,
        deadline : Nat, token : Token, got : Nat, cert : {"none", "graded", "F"},
        walked : Nat, found : SUBSET (Deliveries \cup Humans), sure : BOOLEAN]

Answers == {"none", "open", "accepted", "ignored", "rejected", "bad request", "undelivered"}

Comment == [id : Deliveries \cup Humans, by : Deliveries \cup Humans, cert : {"none", "graded", "F"}]

\* Types of the app's state and of the conversations it keeps a comment in.
TypeOK ==
    /\ now \in Nat /\ restarts \in Nat /\ deletes \in Nat
    /\ server \in {"up", "draining", "down"}
    /\ answer \in [Deliveries -> Answers]
    /\ job \in [Deliveries -> Job]
    /\ tokens \in [Installations -> Token]
    /\ comments \in [Requests -> Seq(Comment)]

\* A request never begins with a token that expires mid-flight: as long as an
\* analysis may make calls, the token it makes them with is good and belongs
\* to its own installation, however long it waited and whoever minted it.
TokenOutlivesJob ==
    \A d \in Deliveries :
        job[d].pc \in {"fetch", "certify", "find", "post"} /\ InTime(d) =>
            job[d].token.for = Installation[d] /\ now < job[d].token.expires

\* Giving up early would post a duplicate: an analysis never adds a comment
\* when the app's comment was there throughout its walk, however many pages of
\* discussion bury it and whatever is said meanwhile.
FoundWhenPresent ==
    \A d \in Deliveries : job[d].pc = "post" /\ job[d].sure => job[d].found # {}

\* An incomplete diff never yields a grade: every comment of the app that
\* shows one was written by an analysis whose fetch came back whole.
PartialNeverGraded ==
    \A p \in Requests : \A k \in DOMAIN comments[p] :
        LET c == comments[p][k] IN
        c.cert = "graded" => c.by \in Deliveries /\ job[c.by].got >= FetchCalls

Board ==
    INSTANCE Bulletin WITH
        People  <- Humans,
        AppLike <- Deliveries \cup Quoting,
        board   <- comments,
        work    <- [d \in Deliveries |-> CASE job[d].pc = "none"   -> "none"
                                           [] job[d].pc \in Ended -> "over"
                                           [] OTHER               -> "open"]

\* What people see of all this is a bulletin: whatever is refused, times out,
\* dies, restarts or is deleted, no analysis speaks twice or after it ended,
\* edits more than one comment, moves one, or touches what a person wrote; and
\* each ends, even when GitHub never answers a call: no goroutine holds a token
\* forever.
ImplementsBulletin == Board!Spec

\* "One certificate showing the current state" (comment.go): a pull request
\* carries at most one comment of the app.
OneCertificate ==
    \A p \in Requests : Cardinality({k \in DOMAIN comments[p] : comments[p][k].by \in Deliveries}) <= 1

\* "Shutdown is given a chance to finish work GitHub already considers
\* delivered" (cmd/revsrv): an orderly exit drops no accepted analysis.
ExitDropsNothing ==
    \A d \in Deliveries : answer[d] = "accepted" => job[d].pc # "dropped"
=============================================================================
