-------------------------- MODULE ReviewAppProofs --------------------------
(***************************************************************************)
(* What the GitHub App promises for any number of deliveries, pull         *)
(* requests, installations, pages and time units: the invariants of        *)
(* webhook.cfg, from one inductive invariant, and the safety part of the   *)
(* refinement of Bulletin, from another.                                   *)
(***************************************************************************)
EXTENDS ReviewApp, SequenceTheorems, NaturalFacts

-----------------------------------------------------------------------------
(* The inductive invariant. *)

\* Waits and steps in which an analysis holds a token.
Authenticated == {"fetch", "certify", "find", "post"}

\* What an analysis j of delivery d relies on.
Held(d, j) ==
    /\ j.pc \in Running => j.deadline <= now + ProcessingTimeout
    /\ j.pc \in Authenticated =>
          j.token.for = Installation[d] /\ j.deadline <= j.token.expires
    /\ j.pc = "certify" \/ j.cert = "graded" => j.got >= FetchCalls
    /\ j.pc = "find" /\ j.sure =>
          \E k \in DOMAIN comments[Request[d]] :
             k > j.walked /\ Own(comments[Request[d]][k])
    /\ j.pc = "post" /\ j.sure => j.found # {}

Cached == \A i \in Installations : tokens[i] = NoToken \/ tokens[i].for = i

Written == \A p \in Requests : \A k \in DOMAIN comments[p] :
              comments[p][k].cert = "graded" =>
                 comments[p][k].by \in Deliveries /\ job[comments[p][k].by].got >= FetchCalls

IInv ==
    /\ TypeOK /\ Cached /\ Written
    /\ \A d \in Deliveries : Held(d, job[d])

-----------------------------------------------------------------------------
(* Conversations. *)

LEMMA SeqDomain ==
    ASSUME NEW S, NEW s \in Seq(S)
    PROVE  /\ Len(s) \in Nat /\ DOMAIN s = 1 .. Len(s)
           /\ \A k \in DOMAIN s : s[k] \in S
OBVIOUS

\* A comment added at the end leaves the others where they are.
LEMMA Appended ==
    ASSUME NEW S, NEW s \in Seq(S), NEW c \in S
    PROVE  /\ Append(s, c) \in Seq(S)
           /\ DOMAIN s \subseteq DOMAIN Append(s, c)
           /\ \A k \in DOMAIN s : Append(s, c)[k] = s[k]
           /\ \A k \in DOMAIN Append(s, c) : Append(s, c)[k] = c \/ (k \in DOMAIN s /\ Append(s, c)[k] = s[k])
OBVIOUS

\* A comment that is removed leaves a conversation of the others.
LEMMA Removed ==
    ASSUME NEW S, NEW s \in Seq(S), NEW k \in DOMAIN s
    PROVE  /\ RemoveAt(s, k) \in Seq(S)
           /\ \A i \in DOMAIN RemoveAt(s, k) :
                 LET j == IF i < k THEN i ELSE i + 1
                 IN  i \in Nat /\ j \in DOMAIN s /\ RemoveAt(s, k)[i] = s[j]
<1> DEFINE a == SubSeq(s, 1, k - 1)
           b == SubSeq(s, k + 1, Len(s))
<1>1. Len(s) \in Nat /\ DOMAIN s = 1 .. Len(s) /\ k \in 1 .. Len(s)
  BY SeqDomain
<1>2. /\ a \in Seq(S) /\ Len(a) = k - 1 /\ \A i \in 1 .. k - 1 : a[i] = s[i]
  BY <1>1
<1>3. /\ b \in Seq(S) /\ Len(b) = Len(s) - k
      /\ \A i \in 1 .. Len(s) - k : b[i] = s[k + i]
  BY <1>1
<1>4. RemoveAt(s, k) = a \o b
  BY DEF RemoveAt
<1> HIDE DEF a, b
<1> DEFINE t == a \o b
<1>5. /\ t \in Seq(S) /\ Len(t) = Len(s) - 1
      /\ \A i \in 1 .. Len(s) - 1 : t[i] = IF i <= k - 1 THEN a[i] ELSE b[i - (k - 1)]
  <2>1. a \in Seq(S) /\ b \in Seq(S)
    BY <1>2, <1>3
  <2>2. /\ t \in Seq(S) /\ Len(t) = Len(a) + Len(b)
        /\ \A i \in 1 .. Len(a) + Len(b) : t[i] = IF i <= Len(a) THEN a[i] ELSE b[i - Len(a)]
    BY <2>1, ConcatProperties
  <2>3. Len(a) + Len(b) = Len(s) - 1
    BY <1>1, <1>2, <1>3
  <2> HIDE DEF t
  <2> QED BY <1>2, <2>2, <2>3
<1>6. DOMAIN t = 1 .. Len(s) - 1
  <2> HIDE DEF t
  <2> QED BY <1>1, <1>5, SeqDomain
<1> HIDE DEF t
<1>7. ASSUME NEW i \in DOMAIN t
      PROVE  LET j == IF i < k THEN i ELSE i + 1
             IN  i \in Nat /\ j \in DOMAIN s /\ t[i] = s[j]
  <2>1. i \in 1 .. Len(s) - 1 /\ i \in Nat /\ k \in Int
    BY <1>1, <1>6
  <2>2. CASE i < k
    <3>1. t[i] = a[i]
      BY <1>5, <2>1, <2>2
    <3>2. i \in 1 .. k - 1 /\ i \in 1 .. Len(s)
      BY <1>1, <2>1, <2>2
    <3>3. t[i] = s[i] /\ i \in DOMAIN s
      BY <1>1, <1>2, <3>1, <3>2
    <3> QED BY <2>1, <2>2, <3>3
  <2>3. CASE ~(i < k)
    <3>1. i - (k - 1) \in 1 .. Len(s) - k
      BY <1>1, <2>1, <2>3
    <3>2. b[i - (k - 1)] = s[k + (i - (k - 1))]
      BY <1>3, <3>1
    <3>3. k + (i - (k - 1)) = i + 1 /\ i + 1 \in DOMAIN s
      BY <1>1, <2>1, <2>3
    <3>4. t[i] = s[i + 1]
      BY <1>5, <2>1, <2>3, <3>2, <3>3
    <3> QED BY <2>1, <2>3, <3>3, <3>4
  <2> QED BY <2>2, <2>3
<1>8. RemoveAt(s, k) = t
  BY <1>4 DEF t
<1> QED BY <1>5, <1>7, <1>8

-----------------------------------------------------------------------------
(* One goroutine moves. *)

LEMMA Moved ==
    ASSUME IInv, NEW d \in Deliveries, NEW j \in Job, Held(d, j), j.got >= job[d].got,
           Move(d, j), comments' = comments,
           tokens' \in [Installations -> Token], Cached'
    PROVE  IInv'
<1>1. /\ job' = [job EXCEPT ![d] = j] /\ now' = now /\ server' = server
      /\ restarts' = restarts /\ answer' = answer /\ deletes' = deletes
  BY DEF Move
<1>2. job \in [Deliveries -> Job]
  BY DEF IInv, TypeOK
<1>3. /\ job' \in [Deliveries -> Job] /\ job'[d] = j
      /\ \A e \in Deliveries : e # d => job'[e] = job[e]
  BY <1>1, <1>2
<1>4. TypeOK'
  BY <1>1, <1>3 DEF IInv, TypeOK
<1>5. \A e \in Deliveries : job'[e].got >= job[e].got
  <2>1. \A e \in Deliveries : job[e].got \in Nat
    BY <1>2 DEF Job
  <2> QED BY <1>3, <2>1
<1>6. Written'
  <2> SUFFICES ASSUME NEW p \in Requests, NEW k \in DOMAIN comments[p],
                      comments[p][k].cert = "graded"
               PROVE  /\ comments[p][k].by \in Deliveries
                      /\ job'[comments[p][k].by].got >= FetchCalls
    BY DEF Written
  <2>1. comments[p][k].by \in Deliveries /\ job[comments[p][k].by].got >= FetchCalls
    BY DEF IInv, Written
  <2>2. /\ job[comments[p][k].by].got \in Nat /\ job'[comments[p][k].by].got \in Nat
        /\ FetchCalls \in Nat
    BY <1>2, <1>3, <2>1, BoundsAssumption DEF Job
  <2> QED BY <1>5, <2>1, <2>2
<1>7. ASSUME NEW e \in Deliveries PROVE Held(e, job[e])'
  <2>1. CASE e = d
    BY <1>1, <1>3, <2>1 DEF Held
  <2>2. CASE e # d
    BY <1>1, <1>3, <2>2 DEF Held, IInv
  <2> QED BY <2>1, <2>2
<1> QED BY <1>4, <1>6, <1>7 DEF IInv

\* An analysis that is over relies on nothing.
LEMMA OverHeld ==
    ASSUME IInv, NEW d \in Deliveries, NEW how \in Ended
    PROVE  /\ Over(d, how) \in Job /\ Over(d, how).got = job[d].got
           /\ Over(d, how).pc = how /\ Over(d, how).got >= job[d].got
           /\ Held(d, Over(d, how))
<1>1. job[d] \in Job /\ job[d].got \in Nat
  BY DEF IInv, TypeOK, Job
<1>2. how \notin Running /\ how \notin Authenticated /\ how # "certify" /\ how # "find" /\ how # "post"
  BY DEF Ended, Running, Authenticated
<1>3. NoJob \in Job
  BY DEF NoJob, Job, NoToken, Token
<1>4. /\ Over(d, how) \in Job /\ Over(d, how).got = job[d].got
      /\ Over(d, how).pc = how /\ Over(d, how).cert = "none"
  BY <1>1, <1>3 DEF Over, NoJob, Job
<1> QED BY <1>1, <1>2, <1>4 DEF Held

\* Where the walk begins, the app's comment lies ahead if there is one.
LEMMA FindFromHeld ==
    ASSUME IInv, NEW d \in Deliveries, NEW cert \in {"graded", "F"},
           job[d].pc \in {"fetch", "certify"},
           cert = "graded" => job[d].got >= FetchCalls
    PROVE  /\ FindFrom(d, cert) \in Job /\ FindFrom(d, cert).got >= job[d].got
           /\ Held(d, FindFrom(d, cert))
<1> DEFINE j == FindFrom(d, cert)
           c == comments[Request[d]]
<1>1. job[d] \in Job /\ job[d].got \in Nat /\ Held(d, job[d])
  BY DEF IInv, TypeOK, Job
<1>2. c \in Seq(Comment)
  BY DeliveriesAssumption DEF IInv, TypeOK
<1>3. \A k \in DOMAIN c : k > 0
  <2> HIDE DEF c
  <2> QED BY <1>2, SeqDomain
<1>4. /\ j.pc = "find" /\ j.walked = 0 /\ j.cert = cert /\ j.got = job[d].got
      /\ j.deadline = job[d].deadline /\ j.token = job[d].token
      /\ j.sure = (\E k \in DOMAIN c : Own(c[k]))
      /\ j.found = job[d].found
  BY <1>1 DEF FindFrom, Job
<1>5. j \in Job
  <2>1. (\E k \in DOMAIN c : Own(c[k])) \in BOOLEAN /\ "find" \in Running /\ 0 \in Nat
    BY DEF Running
  <2> HIDE DEF c
  <2> QED BY <1>1, <2>1 DEF FindFrom, Job, c
<1> HIDE DEF j
<1>6. job[d].deadline <= now + ProcessingTimeout
  BY <1>1 DEF Held, Running
<1>7. job[d].token.for = Installation[d] /\ job[d].deadline <= job[d].token.expires
  BY <1>1 DEF Held, Authenticated
<1>8. Held(d, j)
  BY <1>3, <1>4, <1>6, <1>7 DEF Held
<1> QED BY <1>1, <1>4, <1>5, <1>8 DEF j

LEMMA FailKeeps ==
    ASSUME IInv, NEW d \in Deliveries, Fail(d)
    PROVE  IInv'
<1>1. /\ tokens' \in [Installations -> Token] /\ Cached' /\ comments' = comments
  BY DEF Fail, IInv, TypeOK, Cached
<1>2. job[d] \in Job /\ Held(d, job[d])
  BY DEF IInv, TypeOK
<1>3. CASE job[d].pc = "fetch"
  <2>1. Move(d, FindFrom(d, "F"))
    BY <1>3 DEF Fail
  <2> QED BY <1>1, <1>3, <2>1, FindFromHeld, Moved
<1>4. CASE job[d].pc # "fetch"
  <2>1. Move(d, Over(d, "failed"))
    BY <1>4 DEF Fail
  <2> QED BY <1>1, <2>1, OverHeld, Moved DEF Ended
<1> QED BY <1>3, <1>4

-----------------------------------------------------------------------------
(* The comment is posted. *)

\* The call keeps every comment in its place, the app's remain the app's, and
\* what it writes is the certificate of d.
LEMMA UpsertedConversation ==
    ASSUME IInv, NEW d \in Deliveries, NEW c, c = comments[Request[d]]
    PROVE  /\ Upserted(d) \in Seq(Comment)
           /\ \A k \in DOMAIN c : /\ k \in DOMAIN Upserted(d)
                                  /\ Own(c[k]) => Own(Upserted(d)[k])
           /\ \A k \in DOMAIN Upserted(d) :
                 \/ Upserted(d)[k].by = d /\ Upserted(d)[k].cert = job[d].cert
                 \/ k \in DOMAIN c /\ Upserted(d)[k] = c[k]
<1>1. c \in Seq(Comment) /\ job[d] \in Job
  BY DeliveriesAssumption DEF IInv, TypeOK
<1>2. ASSUME NEW id \in Deliveries \cup Humans
      PROVE  /\ Shown(id, d) \in Comment /\ Shown(id, d).id = id
             /\ Shown(id, d).by = d /\ Shown(id, d).cert = job[d].cert
  BY <1>1 DEF Shown, Comment, Job
<1>3. CASE job[d].found = {}
  <2>1. Upserted(d) = Append(c, Shown(d, d))
    BY <1>3 DEF Upserted
  <2>2. Shown(d, d) \in Comment
    BY <1>2
  <2>3. /\ Upserted(d) \in Seq(Comment) /\ DOMAIN c \subseteq DOMAIN Upserted(d)
        /\ \A k \in DOMAIN c : Upserted(d)[k] = c[k]
        /\ \A k \in DOMAIN Upserted(d) :
              Upserted(d)[k] = Shown(d, d) \/ (k \in DOMAIN c /\ Upserted(d)[k] = c[k])
    BY <1>1, <2>1, <2>2, Appended
  <2> QED BY <1>2, <2>3
<1>4. CASE job[d].found # {}
  <2> DEFINE new == [k \in DOMAIN c |-> IF c[k].id \in job[d].found
                                        THEN Shown(c[k].id, d) ELSE c[k]]
  <2>1. Upserted(d) = new
    BY <1>4 DEF Upserted
  <2>2. \A k \in DOMAIN c : c[k] \in Comment /\ c[k].id \in Deliveries \cup Humans
    <3>1. \A k \in DOMAIN c : c[k] \in Comment
      BY <1>1, SeqDomain
    <3> QED BY <3>1 DEF Comment
  <2>3. \A k \in DOMAIN c : new[k] \in Comment /\ new[k].id = c[k].id
    BY <1>2, <2>2
  <2>4. Len(c) \in Nat /\ DOMAIN c = 1 .. Len(c)
    BY <1>1, SeqDomain
  <2>5. new \in Seq(Comment) /\ DOMAIN new = DOMAIN c
    <3>1. new \in [1 .. Len(c) -> Comment]
      BY <2>3, <2>4
    <3> HIDE DEF new
    <3> QED BY <2>4, <3>1, SeqDef
  <2>6. \A k \in DOMAIN new :
           \/ new[k].by = d /\ new[k].cert = job[d].cert
           \/ k \in DOMAIN c /\ new[k] = c[k]
    BY <1>2, <2>2
  <2> HIDE DEF new
  <2> QED BY <2>1, <2>3, <2>5, <2>6 DEF Own
<1> QED BY <1>3, <1>4

LEMMA PostedKeeps ==
    ASSUME IInv, NEW d \in Deliveries, Posted(d)
    PROVE  IInv'
<1> DEFINE p == Request[d]
           u == Upserted(d)
<1>1. Move(d, Over(d, "reported"))
  BY DEF Posted
<1>2. /\ job' = [job EXCEPT ![d] = Over(d, "reported")] /\ now' = now /\ server' = server
      /\ restarts' = restarts /\ answer' = answer /\ deletes' = deletes
  BY <1>1 DEF Move
<1>3. comments' = [comments EXCEPT ![p] = u] /\ tokens' = tokens /\ job[d].pc = "post"
  BY DEF Posted
<1>4. /\ Over(d, "reported") \in Job /\ Over(d, "reported").got = job[d].got /\ Held(d, Over(d, "reported"))
      /\ Over(d, "reported").pc = "reported" /\ Over(d, "reported").cert = "none"
  BY OverHeld DEF Ended, Over, NoJob
<1>5. p \in Requests /\ job \in [Deliveries -> Job] /\ comments \in [Requests -> Seq(Comment)]
  BY DeliveriesAssumption DEF IInv, TypeOK
<1>6. /\ u \in Seq(Comment)
      /\ \A k \in DOMAIN comments[p] : k \in DOMAIN u /\ (Own(comments[p][k]) => Own(u[k]))
      /\ \A k \in DOMAIN u : \/ u[k].by = d /\ u[k].cert = job[d].cert
                             \/ k \in DOMAIN comments[p] /\ u[k] = comments[p][k]
  BY UpsertedConversation
<1> HIDE DEF u
<1>7. /\ comments'[p] = u /\ comments' \in [Requests -> Seq(Comment)]
      /\ \A q \in Requests : q # p => comments'[q] = comments[q]
  BY <1>3, <1>5, <1>6
<1>8. /\ job' \in [Deliveries -> Job] /\ job'[d] = Over(d, "reported")
      /\ \A e \in Deliveries : /\ e # d => job'[e] = job[e]
                               /\ job'[e].got = job[e].got
  BY <1>2, <1>4, <1>5
<1>9. TypeOK' /\ Cached'
  BY <1>2, <1>3, <1>7, <1>8 DEF IInv, TypeOK, Cached
<1>10. Written'
  <2> SUFFICES ASSUME NEW q \in Requests, NEW k \in DOMAIN comments'[q],
                      comments'[q][k].cert = "graded"
               PROVE  /\ comments'[q][k].by \in Deliveries
                      /\ job'[comments'[q][k].by].got >= FetchCalls
    BY DEF Written
  <2>1. CASE k \in DOMAIN comments[q] /\ comments'[q][k] = comments[q][k]
    <3>1. comments[q][k].by \in Deliveries /\ job[comments[q][k].by].got >= FetchCalls
      BY <2>1 DEF IInv, Written
    <3> QED BY <1>8, <2>1, <3>1
  <2>2. CASE q = p /\ u[k].by = d /\ u[k].cert = job[d].cert
    <3>1. job[d].got >= FetchCalls
      BY <1>7, <2>2 DEF IInv, Held
    <3> QED BY <1>7, <1>8, <2>2, <3>1
  <2>3. CASE q # p
    BY <1>7, <2>1, <2>3
  <2> QED BY <1>6, <1>7, <2>1, <2>2, <2>3
<1>11. ASSUME NEW e \in Deliveries PROVE Held(e, job[e])'
  <2>1. CASE e = d
    <3>1. "reported" \notin Running /\ "reported" \notin Authenticated
      BY DEF Running, Authenticated
    <3> QED BY <1>4, <1>8, <2>1, <3>1 DEF Held
  <2>2. CASE e # d
    <3> DEFINE r == Request[e]
    <3>1. Held(e, job[e]) /\ r \in Requests
      BY DeliveriesAssumption DEF IInv
    <3>2. \A k \in DOMAIN comments[r] :
             k \in DOMAIN comments'[r] /\ (Own(comments[r][k]) => Own(comments'[r][k]))
      BY <1>6, <1>7, <3>1
    <3>3. job'[e] = job[e]
      BY <1>8, <2>2
    <3> QED BY <1>2, <3>1, <3>2, <3>3 DEF Held
  <2> QED BY <2>1, <2>2
<1> QED BY <1>9, <1>10, <1>11 DEF IInv

-----------------------------------------------------------------------------
(* The other steps of a goroutine. *)

LEMMA PageKeeps ==
    ASSUME IInv, NEW d \in Deliveries, Page(d)
    PROVE  IInv'
<1> DEFINE c == comments[Request[d]]
           w == job[d].walked
           last == Len(c)
           upTo == IF w + PageSize < last THEN w + PageSize ELSE last
           mine == {k \in w + 1 .. upTo : Own(c[k])}
           first == CHOOSE k \in mine : \A l \in mine : k <= l
           j == AfterPage(job[d], c)
<1>1. /\ job[d].pc = "find" /\ Move(d, j) /\ tokens' = tokens /\ comments' = comments
  BY DEF Page
<1>2. job[d] \in Job /\ w \in Nat /\ PageSize \in Nat /\ Held(d, job[d])
  BY BoundsAssumption DEF IInv, TypeOK, Job
<1>3. c \in Seq(Comment)
  BY DeliveriesAssumption DEF IInv, TypeOK
<1>4. last \in Nat /\ DOMAIN c = 1 .. last
  <2> HIDE DEF c
  <2> QED BY <1>3, SeqDomain DEF last
<1>5. /\ job[d].deadline <= now + ProcessingTimeout
      /\ job[d].token.for = Installation[d] /\ job[d].deadline <= job[d].token.expires
      /\ job[d].cert = "graded" => job[d].got >= FetchCalls
      /\ job[d].sure => \E k \in DOMAIN c : k > w /\ Own(c[k])
  BY <1>1, <1>2 DEF Held, Running, Authenticated
<1> HIDE DEF c, w, last
<1>6. j \in Job /\ j.got >= job[d].got /\ Held(d, j)
  <2>0. job[d].got \in Nat
    BY <1>2 DEF Job
  <2>1. CASE mine # {}
    <3>1. first \in mine
      <4>1. mine \in SUBSET Nat
        BY <1>2, <1>4
      <4> HIDE DEF mine
      <4>2. \E k \in mine : \A l \in mine : k <= l
        BY <2>1, <4>1, LeastExists
      <4> QED BY <4>2
    <3>2. c[first].id \in Deliveries \cup Humans
      BY <3>1, DeliveriesAssumption DEF Own
    <3>3. j = [job[d] EXCEPT !.pc = "post", !.found = {c[first].id}]
      BY <2>1 DEF AfterPage, last, w
    <3> HIDE DEF j, first
    <3>4. /\ j \in Job /\ j.pc = "post" /\ j.found = {c[first].id} /\ j.got = job[d].got
          /\ j.cert = job[d].cert /\ j.token = job[d].token /\ j.deadline = job[d].deadline
      BY <1>2, <3>2, <3>3 DEF Job, Running
    <3> QED BY <1>5, <2>0, <3>4 DEF Held
  <2>2. CASE mine = {} /\ w + PageSize < last
    <3>1. j = [job[d] EXCEPT !.walked = w + PageSize]
      BY <2>2 DEF AfterPage, last, w
    <3> HIDE DEF j
    <3>2. /\ j \in Job /\ j.pc = "find" /\ j.walked = w + PageSize /\ j.got = job[d].got
          /\ j.cert = job[d].cert /\ j.token = job[d].token /\ j.deadline = job[d].deadline
          /\ j.sure = job[d].sure
      BY <1>1, <1>2, <3>1 DEF Job
    <3>3. \A k \in DOMAIN c : k > w /\ Own(c[k]) => k > w + PageSize
      BY <1>2, <1>4, <2>2
    <3> QED BY <1>5, <2>0, <3>2, <3>3 DEF Held, c
  <2>3. CASE mine = {} /\ ~(w + PageSize < last)
    <3>1. j = [job[d] EXCEPT !.pc = "post"]
      BY <2>3 DEF AfterPage, last, w
    <3>2. ~job[d].sure
      BY <1>2, <1>4, <1>5, <2>3
    <3> HIDE DEF j
    <3>3. /\ j \in Job /\ j.pc = "post" /\ j.sure = job[d].sure /\ j.got = job[d].got
          /\ j.cert = job[d].cert /\ j.token = job[d].token /\ j.deadline = job[d].deadline
      BY <1>2, <3>1 DEF Job, Running
    <3> QED BY <1>5, <2>0, <3>2, <3>3 DEF Held
  <2> QED BY <2>1, <2>2, <2>3
<1>7. tokens' \in [Installations -> Token] /\ Cached'
  BY <1>1 DEF IInv, TypeOK, Cached
<1> HIDE DEF j
<1> QED BY <1>1, <1>6, <1>7, Moved

LEMMA AuthenticateKeeps ==
    ASSUME IInv, NEW d \in Deliveries, Begin(d) \/ Authenticate(d)
    PROVE  IInv'
<1>1. /\ tokens' \in [Installations -> Token] /\ Cached' /\ comments' = comments
  BY DEF Begin, Authenticate, IInv, TypeOK, Cached
<1>2. job[d] \in Job /\ Held(d, job[d]) /\ job[d].got \in Nat /\ now \in Nat
  BY DEF IInv, TypeOK, Job
<1>3. CASE Begin(d)
  <2> DEFINE j == [job[d] EXCEPT !.pc = "auth", !.deadline = now + ProcessingTimeout]
  <2>1. now + ProcessingTimeout \in Nat
    BY <1>2, TimesAssumption
  <2>2. /\ j \in Job /\ j.pc = "auth" /\ j.deadline = now + ProcessingTimeout
        /\ j.got = job[d].got /\ j.cert = job[d].cert
    BY <1>2, <2>1 DEF Job, Running
  <2>3. Move(d, j)
    BY <1>3 DEF Begin
  <2> HIDE DEF j
  <2>4. Held(d, j) /\ j.got >= job[d].got
    BY <1>2, <2>1, <2>2 DEF Held, Authenticated
  <2> QED BY <1>1, <2>2, <2>3, <2>4, Moved
<1>4. CASE Authenticate(d) /\ Move(d, Over(d, "failed"))
  BY <1>1, <1>4, OverHeld, Moved DEF Ended
<1>5. CASE /\ Authenticate(d) /\ Installation[d] # NoInstallation /\ Fresh(tokens[Installation[d]])
           /\ Move(d, [job[d] EXCEPT !.pc = "fetch", !.token = tokens[Installation[d]]])
  <2> DEFINE token == tokens[Installation[d]]
             j == [job[d] EXCEPT !.pc = "fetch", !.token = token]
  <2>1. Installation[d] \in Installations
    BY <1>5, DeliveriesAssumption
  <2>2. token \in Token /\ token.for = Installation[d] /\ token.expires \in Nat
    BY <1>5, <2>1 DEF IInv, TypeOK, Cached, Fresh, Token
  <2>3. now + InstallationTokenMargin < token.expires
    BY <1>5 DEF Fresh
  <2>4. job[d].deadline <= now + ProcessingTimeout /\ job[d].deadline \in Nat
    BY <1>2, <1>5 DEF Authenticate, Held, Running, Job
  <2>5. job[d].deadline <= token.expires
    BY <1>2, <2>2, <2>3, <2>4, TimesAssumption
  <2> HIDE DEF token
  <2>6. /\ j \in Job /\ j.pc = "fetch" /\ j.token = token /\ j.deadline = job[d].deadline
        /\ j.got = job[d].got /\ j.cert = job[d].cert
    BY <1>2, <2>2 DEF Job, Running
  <2>7. Move(d, j)
    BY <1>5 DEF token
  <2> HIDE DEF j
  <2>8. Held(d, j) /\ j.got >= job[d].got
    BY <1>2, <2>2, <2>4, <2>5, <2>6 DEF Held
  <2> QED BY <1>1, <2>6, <2>7, <2>8, Moved
<1>6. CASE Authenticate(d) /\ Move(d, [job[d] EXCEPT !.pc = "mint"])
  <2> DEFINE j == [job[d] EXCEPT !.pc = "mint"]
  <2>1. /\ j \in Job /\ j.pc = "mint" /\ j.deadline = job[d].deadline
        /\ j.got = job[d].got /\ j.cert = job[d].cert
    BY <1>2 DEF Job, Running
  <2>2. job[d].pc = "auth"
    BY <1>6 DEF Authenticate
  <2> HIDE DEF j
  <2>3. Held(d, j) /\ j.got >= job[d].got
    BY <1>2, <2>1, <2>2 DEF Held, Running, Authenticated
  <2> QED BY <1>1, <1>6, <2>1, <2>3, Moved DEF j
<1> QED BY <1>3, <1>4, <1>5, <1>6 DEF Authenticate

LEMMA MintedKeeps ==
    ASSUME IInv, NEW d \in Deliveries, Minted(d)
    PROVE  IInv'
<1> DEFINE i == Installation[d]
           token == [for |-> i, expires |-> now + TokenLifetime]
           j == [job[d] EXCEPT !.pc = "fetch", !.token = token]
<1>1. /\ job[d].pc = "mint" /\ Move(d, j) /\ comments' = comments
      /\ tokens' = [tokens EXCEPT ![i] = token]
  BY DEF Minted
<1>2. /\ job[d] \in Job /\ Held(d, job[d]) /\ job[d].got \in Nat /\ now \in Nat
      /\ job[d].deadline \in Nat
  BY DEF IInv, TypeOK, Job
<1>3. /\ token \in Token /\ token.for = i /\ token.expires = now + TokenLifetime
      /\ now + TokenLifetime \in Nat
  <2>1. now + TokenLifetime \in Nat
    BY <1>2, TimesAssumption
  <2> QED BY <2>1, DeliveriesAssumption DEF Token
<1>4. tokens' \in [Installations -> Token] /\ Cached'
  <2> HIDE DEF token
  <2> QED BY <1>1, <1>3 DEF IInv, TypeOK, Cached
<1>5. job[d].deadline <= now + ProcessingTimeout
  BY <1>1, <1>2 DEF Held, Running
<1>6. job[d].deadline <= token.expires
  BY <1>2, <1>3, <1>5, TimesAssumption
<1> HIDE DEF token
<1>7. /\ j \in Job /\ j.pc = "fetch" /\ j.token = token /\ j.deadline = job[d].deadline
      /\ j.got = job[d].got /\ j.cert = job[d].cert
  BY <1>2, <1>3 DEF Job, Running
<1> HIDE DEF j
<1>8. Held(d, j) /\ j.got >= job[d].got
  BY <1>2, <1>3, <1>5, <1>6, <1>7 DEF Held
<1> QED BY <1>1, <1>4, <1>7, <1>8, Moved

LEMMA FetchedKeeps ==
    ASSUME IInv, NEW d \in Deliveries, Fetched(d)
    PROVE  IInv'
<1> DEFINE got == job[d].got + 1
           pc == IF got >= FetchCalls THEN "certify" ELSE "fetch"
           j == [job[d] EXCEPT !.got = got, !.pc = pc]
<1>1. job[d].pc = "fetch" /\ Move(d, j) /\ comments' = comments /\ tokens' = tokens
  BY DEF Fetched
<1>2. /\ job[d] \in Job /\ Held(d, job[d]) /\ job[d].got \in Nat /\ FetchCalls \in Nat
  BY BoundsAssumption DEF IInv, TypeOK, Job
<1>3. tokens' \in [Installations -> Token] /\ Cached'
  BY <1>1 DEF IInv, TypeOK, Cached
<1>4. /\ got \in Nat /\ got >= job[d].got /\ pc \in {"certify", "fetch"}
      /\ pc = "certify" => got >= FetchCalls
  BY <1>2
<1> HIDE DEF got, pc
<1>5. /\ j \in Job /\ j.pc = pc /\ j.got = got /\ j.token = job[d].token
      /\ j.deadline = job[d].deadline /\ j.cert = job[d].cert
  BY <1>2, <1>4 DEF Job, Running
<1> HIDE DEF j
<1>6. Held(d, j)
  BY <1>1, <1>2, <1>4, <1>5 DEF Held, Running, Authenticated
<1> QED BY <1>1, <1>3, <1>4, <1>5, <1>6, Moved

LEMMA CertifyKeeps ==
    ASSUME IInv, NEW d \in Deliveries, Certify(d)
    PROVE  IInv'
<1>1. PICK cert \in {"graded", "F"} : Move(d, FindFrom(d, cert))
  BY DEF Certify
<1>2. job[d].pc = "certify" /\ tokens' = tokens /\ comments' = comments
  BY DEF Certify
<1>3. job[d].got >= FetchCalls
  BY <1>2 DEF IInv, Held
<1>4. tokens' \in [Installations -> Token] /\ Cached'
  BY <1>2 DEF IInv, TypeOK, Cached
<1> QED BY <1>1, <1>2, <1>3, <1>4, FindFromHeld, Moved

-----------------------------------------------------------------------------
(* Deliveries, the process and the world. *)

LEMMA ReceiveKeeps ==
    ASSUME IInv, NEW d \in Deliveries, Receive(d) \/ Respond(d)
    PROVE  IInv'
<1>1. /\ now' = now /\ server' = server /\ restarts' = restarts /\ tokens' = tokens
      /\ comments' = comments /\ deletes' = deletes
  BY DEF Receive, Respond
<1>2. Kind[d] \in Kinds /\ job \in [Deliveries -> Job] /\ answer \in [Deliveries -> Answers]
  BY DeliveriesAssumption DEF IInv, TypeOK
<1>3. answer' \in [Deliveries -> Answers]
  BY <1>2 DEF Receive, Respond, Answers, Kinds
<1>4. CASE job' = job
  BY <1>1, <1>3, <1>4 DEF IInv, TypeOK, Cached, Written, Held
<1>5. CASE job' = [job EXCEPT ![d].pc = "queued"]
  <2> DEFINE j == [job[d] EXCEPT !.pc = "queued"]
  <2>1. j \in Job /\ j.got = job[d].got /\ j.cert = job[d].cert /\ j.pc = "queued"
    BY <1>2 DEF Job
  <2>2. job' = [job EXCEPT ![d] = j]
    BY <1>5
  <2> HIDE DEF j
  <2>3. /\ job' \in [Deliveries -> Job] /\ job'[d] = j
        /\ \A e \in Deliveries : /\ e # d => job'[e] = job[e]
                                 /\ job'[e].got = job[e].got
    BY <1>2, <2>1, <2>2
  <2>4. TypeOK' /\ Cached'
    BY <1>1, <1>3, <2>3 DEF IInv, TypeOK, Cached
  <2>5. Written'
    BY <1>1, <2>3 DEF IInv, Written
  <2>6. ASSUME NEW e \in Deliveries PROVE Held(e, job[e])'
    <3>1. CASE e = d
      BY <1>1, <2>1, <2>3, <3>1 DEF IInv, Held, Running, Authenticated
    <3>2. CASE e # d
      BY <1>1, <2>3, <3>2 DEF IInv, Held
    <3> QED BY <3>1, <3>2
  <2> QED BY <2>4, <2>5, <2>6 DEF IInv
<1> QED BY <1>4, <1>5 DEF Receive, Respond

LEMMA StopKeeps ==
    ASSUME IInv, NEW how \in {"dropped", "killed"}, Stop(how)
    PROVE  IInv'
<1>1. /\ now' = now /\ restarts' = restarts /\ comments' = comments /\ deletes' = deletes
      /\ server' = "down" /\ tokens' = [i \in Installations |-> NoToken]
  BY DEF Stop
<1>2. job \in [Deliveries -> Job] /\ answer \in [Deliveries -> Answers]
  BY DEF IInv, TypeOK
<1>3. answer' \in [Deliveries -> Answers]
  BY <1>2 DEF Stop, Answers
<1>4. NoToken \in Token
  BY DEF NoToken, Token
<1>5. ASSUME NEW e \in Deliveries
      PROVE  /\ job'[e] \in Job /\ job'[e].got = job[e].got /\ Held(e, job'[e])
  <2>1. job'[e] = Over(e, how) \/ job'[e] = job[e]
    BY DEF Stop
  <2>2. Over(e, how) \in Job /\ Over(e, how).got = job[e].got /\ Held(e, Over(e, how))
    BY OverHeld DEF Ended
  <2> QED BY <1>2, <2>1, <2>2 DEF IInv
<1>6. job' \in [Deliveries -> Job]
  <2>1. job' = [e \in Deliveries |-> job'[e]]
    BY DEF Stop
  <2> QED BY <1>5, <2>1
<1>7. TypeOK' /\ Cached'
  BY <1>1, <1>3, <1>4, <1>6 DEF IInv, TypeOK, Cached
<1>8. Written'
  BY <1>1, <1>5 DEF IInv, Written
<1>9. \A e \in Deliveries : Held(e, job[e])'
  BY <1>1, <1>5 DEF Held
<1> QED BY <1>7, <1>8, <1>9 DEF IInv

LEMMA SaysKeeps ==
    ASSUME IInv, NEW h \in Humans, NEW p \in Requests, Says(h, p)
    PROVE  IInv'
<1> DEFINE new == [id |-> h, by |-> h, cert |-> "none"]
           c == comments[p]
           u == Append(c, new)
<1>1. /\ now' = now /\ server' = server /\ restarts' = restarts /\ tokens' = tokens
      /\ answer' = answer /\ job' = job /\ deletes' = deletes
      /\ comments' = [comments EXCEPT ![p] = u]
  BY DEF Says
<1>2. new \in Comment /\ new.cert = "none" /\ comments \in [Requests -> Seq(Comment)] /\ c \in Seq(Comment)
  BY DEF IInv, TypeOK, Comment
<1> HIDE DEF new
<1>3. /\ u \in Seq(Comment) /\ DOMAIN c \subseteq DOMAIN u
      /\ \A k \in DOMAIN c : u[k] = c[k]
      /\ \A k \in DOMAIN u : u[k] = new \/ (k \in DOMAIN c /\ u[k] = c[k])
  BY <1>2, Appended
<1> HIDE DEF u
<1>4. /\ comments'[p] = u /\ comments' \in [Requests -> Seq(Comment)]
      /\ \A q \in Requests : q # p => comments'[q] = comments[q]
  BY <1>1, <1>2, <1>3
<1>5. TypeOK' /\ Cached'
  BY <1>1, <1>4 DEF IInv, TypeOK, Cached
<1>6. Written'
  BY <1>1, <1>2, <1>3, <1>4 DEF IInv, Written
<1>7. ASSUME NEW e \in Deliveries PROVE Held(e, job[e])'
  <2>1. Held(e, job[e]) /\ Request[e] \in Requests
    BY DeliveriesAssumption DEF IInv
  <2>2. \A k \in DOMAIN comments[Request[e]] :
           k \in DOMAIN comments'[Request[e]] /\ comments'[Request[e]][k] = comments[Request[e]][k]
    BY <1>3, <1>4, <2>1
  <2> QED BY <1>1, <2>1, <2>2 DEF Held
<1> QED BY <1>5, <1>6, <1>7 DEF IInv

LEMMA DeleteKeeps ==
    ASSUME IInv, NEW p \in Requests, NEW k \in DOMAIN comments[p], Delete(p, k)
    PROVE  IInv'
<1> DEFINE c == comments[p]
           u == RemoveAt(c, k)
<1>1. /\ now' = now /\ server' = server /\ restarts' = restarts /\ tokens' = tokens
      /\ answer' = answer /\ deletes' = deletes + 1
      /\ comments' = [comments EXCEPT ![p] = u]
      /\ job' = [d \in Deliveries |-> IF Request[d] = p THEN [job[d] EXCEPT !.sure = FALSE] ELSE job[d]]
  BY DEF Delete
<1>2. comments \in [Requests -> Seq(Comment)] /\ c \in Seq(Comment) /\ job \in [Deliveries -> Job]
  BY DEF IInv, TypeOK
<1>3. u \in Seq(Comment) /\ \A i \in DOMAIN u : \E l \in DOMAIN c : u[i] = c[l]
  <2> HIDE DEF c
  <2>1. /\ u \in Seq(Comment)
        /\ \A i \in DOMAIN u : LET j == IF i < k THEN i ELSE i + 1
                              IN  i \in Nat /\ j \in DOMAIN c /\ u[i] = c[j]
    BY <1>2, Removed DEF c
  <2> QED BY <2>1
<1> HIDE DEF u
<1>4. /\ comments'[p] = u /\ comments' \in [Requests -> Seq(Comment)]
      /\ \A q \in Requests : q # p => comments'[q] = comments[q]
  BY <1>1, <1>2, <1>3
<1>5. ASSUME NEW e \in Deliveries
      PROVE  /\ job'[e] \in Job /\ job'[e].got = job[e].got
             /\ Held(e, job[e])'
  <2>1. Held(e, job[e]) /\ Request[e] \in Requests /\ job[e] \in Job
    BY <1>2, DeliveriesAssumption DEF IInv
  <2>2. CASE Request[e] = p
    <3> DEFINE j == [job[e] EXCEPT !.sure = FALSE]
    <3>1. /\ j \in Job /\ j.pc = job[e].pc /\ j.got = job[e].got /\ j.cert = job[e].cert
          /\ j.deadline = job[e].deadline /\ j.token = job[e].token /\ j.sure = FALSE
      BY <2>1 DEF Job
    <3>2. job'[e] = j
      BY <1>1, <2>2
    <3> HIDE DEF j
    <3> QED BY <1>1, <2>1, <3>1, <3>2 DEF Held
  <2>3. CASE Request[e] # p
    <3>1. job'[e] = job[e] /\ comments'[Request[e]] = comments[Request[e]]
      BY <1>1, <1>4, <2>1, <2>3
    <3> QED BY <1>1, <2>1, <3>1 DEF Held
  <2> QED BY <2>2, <2>3
<1>6. job' \in [Deliveries -> Job]
  <2>1. job' = [e \in Deliveries |-> job'[e]]
    BY <1>1
  <2> QED BY <1>5, <2>1
<1>7. TypeOK' /\ Cached'
  <2>1. deletes' \in Nat
    BY <1>1 DEF IInv, TypeOK
  <2> QED BY <1>1, <1>4, <1>6, <2>1 DEF IInv, TypeOK, Cached
<1>8. Written'
  <2> SUFFICES ASSUME NEW q \in Requests, NEW i \in DOMAIN comments'[q],
                      comments'[q][i].cert = "graded"
               PROVE  /\ comments'[q][i].by \in Deliveries
                      /\ job'[comments'[q][i].by].got >= FetchCalls
    BY DEF Written
  <2>1. PICK l \in DOMAIN comments[q] : comments'[q][i] = comments[q][l]
    <3>1. CASE q = p
      BY <1>3, <1>4, <3>1
    <3>2. CASE q # p
      BY <1>4, <3>2
    <3> QED BY <3>1, <3>2
  <2>2. comments[q][l].by \in Deliveries /\ job[comments[q][l].by].got >= FetchCalls
    BY <2>1 DEF IInv, Written
  <2> QED BY <1>5, <2>1, <2>2
<1> QED BY <1>5, <1>7, <1>8 DEF IInv

-----------------------------------------------------------------------------
(* The invariant is inductive. *)

LEMMA InitIInv == Init => IInv
<1> SUFFICES ASSUME Init PROVE IInv
  OBVIOUS
<1>1. NoJob \in Job /\ NoToken \in Token /\ NoJob.pc = "none" /\ NoJob.cert = "none"
  BY DEF NoJob, Job, NoToken, Token
<1>2. << >> \in Seq(Comment)
  OBVIOUS
<1>3. TypeOK
  BY <1>1, <1>2 DEF Init, TypeOK, Answers
<1>4. Cached /\ Written
  BY DEF Init, Cached, Written
<1>5. \A d \in Deliveries : Held(d, job[d])
  BY <1>1 DEF Init, Held, Running, Authenticated
<1> QED BY <1>3, <1>4, <1>5 DEF IInv

\* The server's own state is nothing that the invariant relates to an analysis.
LEMMA ServerMoves ==
    ASSUME IInv,
           server' \in {"up", "draining", "down"}, restarts' \in Nat,
           UNCHANGED <<now, answer, job, tokens, comments, deletes>>
    PROVE  IInv'
<1>1. TypeOK'
  BY DEF IInv, TypeOK
<1>2. Cached' /\ Written'
  BY DEF IInv, Cached, Written
<1>3. ASSUME NEW d \in Deliveries PROVE Held(d, job[d])'
  BY DEF IInv, Held
<1> QED BY <1>1, <1>2, <1>3 DEF IInv

LEMMA NextIInv == IInv /\ [Next]_vars => IInv'
<1> SUFFICES ASSUME IInv, [Next]_vars PROVE IInv'
  OBVIOUS
<1>1. ASSUME NEW d \in Deliveries, Receive(d) \/ Local(d) \/ Answered(d) \/ Fail(d)
      PROVE  IInv'
  BY <1>1, ReceiveKeeps, AuthenticateKeeps, CertifyKeeps, MintedKeeps, FetchedKeeps,
     PageKeeps, PostedKeeps, FailKeeps DEF Local, Answered
<1>2. CASE Process
  <2>1. CASE Exit \/ Kill
    BY <2>1, StopKeeps DEF Exit, Kill
  <2>2. CASE Signal \/ Restart
    <3>1. /\ server' \in {"up", "draining", "down"} /\ restarts' \in Nat
          /\ UNCHANGED <<now, answer, job, tokens, comments, deletes>>
      BY <2>2 DEF Signal, Restart, IInv, TypeOK
    <3> QED BY <3>1, ServerMoves
  <2> QED BY <1>2, <2>1, <2>2 DEF Process
<1>3. CASE World
  <2>1. CASE Tick
    <3>1. /\ now' = now + 1 /\ server' = server /\ restarts' = restarts /\ tokens' = tokens
          /\ answer' = answer /\ job' = job /\ deletes' = deletes /\ comments' = comments
      BY <2>1 DEF Tick
    <3>2. TypeOK' /\ Cached' /\ Written'
      BY <3>1 DEF IInv, TypeOK, Cached, Written
    <3>3. ASSUME NEW d \in Deliveries PROVE Held(d, job[d])'
      <4>1. Held(d, job[d]) /\ job[d].deadline \in Nat /\ now \in Nat
        BY DEF IInv, TypeOK, Job
      <4> QED BY <3>1, <4>1, TimesAssumption DEF Held
    <3> QED BY <3>2, <3>3 DEF IInv
  <2> QED BY <1>3, <2>1, SaysKeeps, DeleteKeeps DEF World
<1>4. CASE UNCHANGED vars
  <2>1. /\ server' \in {"up", "draining", "down"} /\ restarts' \in Nat
        /\ UNCHANGED <<now, answer, job, tokens, comments, deletes>>
    BY <1>4 DEF vars, IInv, TypeOK
  <2> QED BY <2>1, ServerMoves
<1> QED BY <1>1, <1>2, <1>3, <1>4 DEF Next

LEMMA Invariance == Spec => []IInv
<1> QED BY InitIInv, NextIInv, PTL DEF Spec

-----------------------------------------------------------------------------
(* What the bulletin needs to know. *)

\* How the bulletin calls what an analysis is doing.
Stage(j) == CASE j.pc = "none" -> "none" [] j.pc \in Ended -> "over" [] OTHER -> "open"

\* No two comments of all conversations are the same one.
Distinct ==
    \A p, q \in Requests : \A k \in DOMAIN comments[p] : \A l \in DOMAIN comments[q] :
        comments[p][k].id = comments[q][l].id => p = q /\ k = l

\* A comment of the app is of an analysis that ended.
Spoken ==
    \A p \in Requests : \A k \in DOMAIN comments[p] :
        comments[p][k].id \in Deliveries => job[comments[p][k].id].pc \in Ended

\* What an analysis j of delivery d has in hand when it reports.
Ready(d, j) ==
    /\ answer[d] = "none" => j.pc = "none"
    /\ j.found = {} \/ (j.pc = "post" /\ \E x \in Deliveries \cup Quoting : j.found = {x})
    /\ j.pc \in {"find", "post"} => j.cert \in {"graded", "F"}

Told ==
    /\ Distinct /\ Spoken
    /\ \A d \in Deliveries : Ready(d, job[d])

Stages == [d \in Deliveries |-> Stage(job[d])]

LEMMA BoardVars == Board!vars = <<comments, Stages>>
BY DEF Board!vars, Stages, Stage

LEMMA InitTold == Init => Told /\ Board!Init
<1> SUFFICES ASSUME Init PROVE Told /\ Board!Init
  OBVIOUS
<1>1. \A p \in Requests : comments[p] = << >> /\ DOMAIN comments[p] = {}
  BY DEF Init
<1>2. \A d \in Deliveries : job[d] = NoJob
  BY DEF Init
<1>3. Distinct /\ Spoken
  BY <1>1 DEF Distinct, Spoken
<1>4. \A d \in Deliveries : Ready(d, job[d])
  BY <1>2 DEF Ready, NoJob
<1>5. Board!Init
  <2>1. NoJob.pc = "none"
    BY DEF NoJob
  <2>2. \A d \in Deliveries : job[d].pc = "none"
    BY <1>2, <2>1
  <2>3. \A d \in Deliveries : Stage(job[d]) = "none"
    BY <2>2 DEF Stage, Ended
  <2>4. Stages = [d \in Deliveries |-> "none"]
    BY <2>3 DEF Stages
  <2>5. comments = [p \in Requests |-> << >>]
    BY DEF Init
  <2> QED BY <2>4, <2>5 DEF Board!Init, Stages, Stage
<1> QED BY <1>3, <1>4, <1>5 DEF Told

\* A step that leaves the conversations alone.
LEMMA SilentTold ==
    ASSUME Told, comments' = comments,
           \A e \in Deliveries : /\ job[e].pc \in Ended => job'[e].pc \in Ended
                                 /\ Ready(e, job[e])'
    PROVE  Told'
BY DEF Told, Distinct, Spoken

LEMMA Unseen ==
    ASSUME comments' = comments,
           \A e \in Deliveries : Stage(job'[e]) = Stage(job[e])
    PROVE  [Board!Next]_(Board!vars)
BY BoardVars DEF Board!vars, Stages, Stage

LEMMA Abandoned ==
    ASSUME comments' = comments,
           NEW ds \in SUBSET Deliveries,
           \A e \in ds : Stage(job[e]) = "open",
           \A e \in Deliveries : Stage(job'[e]) = IF e \in ds THEN "over" ELSE Stage(job[e])
    PROVE  [Board!Next]_(Board!vars)
<1>1. CASE ds = {}
  BY <1>1, Unseen
<1>2. CASE ds # {}
  <2>1. Board!GivesUp(ds)
    BY <1>2 DEF Board!GivesUp, Stage
  <2> QED BY <2>1 DEF Board!Next
<1> QED BY <1>1, <1>2
-----------------------------------------------------------------------------
(* The steps of one analysis. *)

\* A goroutine that goes on is open, and one that is over is over.
LEMMA MovedUnseen ==
    ASSUME IInv, Told, NEW d \in Deliveries, NEW j \in Job, Move(d, j), comments' = comments,
           job[d].pc \notin Ended \cup {"none"}, j.pc # "none", Ready(d, j)
    PROVE  Told' /\ [Board!Next]_(Board!vars)
<1>1. job' = [job EXCEPT ![d] = j] /\ answer' = answer /\ job \in [Deliveries -> Job]
  BY DEF Move, IInv, TypeOK
<1>2. job'[d] = j /\ \A e \in Deliveries : e # d => job'[e] = job[e]
  BY <1>1
<1>3. \A e \in Deliveries : job[e].pc \in Ended => job'[e].pc \in Ended
  BY <1>2
<1>4. ASSUME NEW e \in Deliveries PROVE Ready(e, job[e])'
  <2>1. CASE e = d
    BY <1>1, <1>2, <2>1 DEF Ready
  <2>2. CASE e # d
    BY <1>1, <1>2, <2>2 DEF Ready, Told
  <2> QED BY <2>1, <2>2
<1>5. Told'
  BY <1>3, <1>4, SilentTold
<1>6. CASE j.pc \in Ended
  <2>1. \A e \in {d} : Stage(job[e]) = "open"
    BY DEF Stage
  <2>2. \A e \in Deliveries : Stage(job'[e]) = IF e \in {d} THEN "over" ELSE Stage(job[e])
    BY <1>2, <1>6 DEF Stage
  <2> QED BY <1>5, <2>1, <2>2, Abandoned
<1>7. CASE j.pc \notin Ended
  <2>1. \A e \in Deliveries : Stage(job'[e]) = Stage(job[e])
    BY <1>2, <1>7 DEF Stage
  <2> QED BY <1>5, <2>1, Unseen
<1> QED BY <1>6, <1>7

\* An analysis that ends has nothing in hand.
LEMMA OverTold ==
    ASSUME IInv, Told, NEW d \in Deliveries, NEW how \in Ended,
           job[d].pc \notin Ended \cup {"none"}
    PROVE  Over(d, how) \in Job /\ Over(d, how).pc = how /\ Ready(d, Over(d, how))
<1>1. Over(d, how) \in Job /\ Over(d, how).pc = how
  BY OverHeld
<1>2. Over(d, how).found = {}
  BY DEF Over, NoJob
<1>3. how # "none" /\ how \notin {"find", "post"} /\ answer[d] # "none"
  BY DEF Ended, Told, Ready
<1> QED BY <1>1, <1>2, <1>3 DEF Ready

\* The walk begins with nothing found.
LEMMA FindFromTold ==
    ASSUME IInv, Told, NEW d \in Deliveries, NEW cert \in {"graded", "F"},
           job[d].pc \in {"fetch", "certify"},
           FindFrom(d, cert) \in Job
    PROVE  FindFrom(d, cert).pc = "find" /\ Ready(d, FindFrom(d, cert))
<1> DEFINE j == FindFrom(d, cert)
<1>1. job[d] \in Job
  BY DEF IInv, TypeOK
<1>2. j.pc = "find" /\ j.cert = cert /\ j.found = job[d].found
  BY <1>1 DEF FindFrom, Job
<1> HIDE DEF j
<1>3. job[d].found = {} /\ answer[d] # "none"
  BY DEF Told, Ready
<1>4. Ready(d, j)
  BY <1>2, <1>3 DEF Ready
<1> QED BY <1>2, <1>4 DEF j

\* What a page of the listing leaves in hand: nothing, or one comment that
\* carries the marker.
LEMMA PageTold ==
    ASSUME IInv, Told, NEW d \in Deliveries, job[d].pc = "find",
           NEW j, j = AfterPage(job[d], comments[Request[d]])
    PROVE  j \in Job /\ j.pc \in {"find", "post"} /\ Ready(d, j)
<1> DEFINE c == comments[Request[d]]
           w == job[d].walked
           last == Len(c)
           upTo == IF w + PageSize < last THEN w + PageSize ELSE last
           mine == {k \in w + 1 .. upTo : Own(c[k])}
           first == CHOOSE k \in mine : \A l \in mine : k <= l
<1>1. job[d] \in Job /\ w \in Nat /\ job[d].found = {} /\ answer[d] # "none"
      /\ job[d].cert \in {"graded", "F"}
  BY DEF IInv, TypeOK, Job, Told, Ready
<1>2. PageSize \in Nat /\ "post" \in Running /\ w + PageSize \in Nat
  BY <1>1, BoundsAssumption DEF Running
<1>3. c \in Seq(Comment) /\ last \in Nat
  BY DeliveriesAssumption DEF IInv, TypeOK
<1>4. CASE mine # {}
  <2>1. mine \subseteq Nat
    BY <1>1, <1>3, <1>2
  <2>2. first \in mine
    <3> HIDE DEF mine
    <3> QED BY <1>4, <2>1, LeastExists
  <2>3. Own(c[first])
    BY <2>2
  <2> DEFINE x == c[first].id
  <2>4. j = [job[d] EXCEPT !.pc = "post", !.found = {x}]
    BY <1>4 DEF AfterPage
  <2>5. x \in Deliveries \cup Quoting /\ x \in Deliveries \cup Humans
    BY <2>3, DeliveriesAssumption DEF Own
  <2> HIDE DEF x
  <2> DEFINE found == {x}
  <2>7. found \in SUBSET (Deliveries \cup Humans) /\ j = [job[d] EXCEPT !.pc = "post", !.found = found]
    BY <2>4, <2>5
  <2>8. found = {x}
    OBVIOUS
  <2> HIDE DEF found
  <2>6. j \in Job /\ j.pc = "post" /\ j.found = {x} /\ j.cert = job[d].cert
    BY <1>1, <1>2, <2>7, <2>8 DEF Job
  <2> QED BY <1>1, <2>5, <2>6 DEF Ready
<1>5. CASE mine = {} /\ w + PageSize < last
  <2>1. j = [job[d] EXCEPT !.walked = @ + PageSize]
    BY <1>5 DEF AfterPage
  <2>2. j \in Job /\ j.pc = "find" /\ j.found = {} /\ j.cert = job[d].cert
    BY <1>1, <1>2, <2>1 DEF Job
  <2> QED BY <1>1, <2>2 DEF Ready
<1>6. CASE mine = {} /\ ~(w + PageSize < last)
  <2>1. j = [job[d] EXCEPT !.pc = "post"]
    BY <1>6 DEF AfterPage
  <2>2. j \in Job /\ j.pc = "post" /\ j.found = {} /\ j.cert = job[d].cert
    BY <1>1, <1>2, <2>1 DEF Job
  <2> QED BY <1>1, <2>2 DEF Ready
<1> QED BY <1>4, <1>5, <1>6

\* The steps of an analysis of which people see nothing, or only its end.
LEMMA AnalysisTold ==
    ASSUME IInv, Told, NEW d \in Deliveries,
           \/ Begin(d) \/ Authenticate(d) \/ Certify(d)
           \/ Minted(d) \/ Fetched(d) \/ Page(d) \/ Fail(d)
    PROVE  Told' /\ [Board!Next]_(Board!vars)
<1>1. job[d] \in Job /\ Ready(d, job[d]) /\ comments' = comments
  BY DEF IInv, TypeOK, Told, Begin, Authenticate, Certify, Minted, Fetched, Page, Fail
<1>2. /\ "auth" \in Running /\ "fetch" \in Running /\ "mint" \in Running
      /\ "certify" \in Running
  BY DEF Running
<1>3. ASSUME NEW pc \in Running \ {"post", "find"}, NEW j \in Job,
             j.pc = pc, j.found = job[d].found, job[d].pc \notin Ended \cup {"none", "post"},
             Move(d, j)
      PROVE  Told' /\ [Board!Next]_(Board!vars)
  <2>1. job[d].found = {} /\ answer[d] # "none" /\ pc # "none"
    BY <1>1, <1>3 DEF Ready, Running
  <2>2. Ready(d, j)
    BY <1>3, <2>1 DEF Ready
  <2> QED BY <1>1, <1>3, <2>1, <2>2, MovedUnseen
<1>4. CASE Begin(d)
  <2> DEFINE j == [job[d] EXCEPT !.pc = "auth", !.deadline = now + ProcessingTimeout]
  <2>1. now + ProcessingTimeout \in Nat
    BY TimesAssumption DEF IInv, TypeOK
  <2>2. j \in Job /\ j.pc = "auth" /\ j.found = job[d].found
    BY <1>1, <1>2, <2>1 DEF Job
  <2>3. Move(d, j) /\ job[d].pc = "queued"
    BY <1>4 DEF Begin
  <2> HIDE DEF j
  <2> QED BY <1>2, <1>3, <2>2, <2>3 DEF Ended
<1>5. ASSUME NEW how \in Ended, Move(d, Over(d, how)), job[d].pc \notin Ended \cup {"none"}
      PROVE  Told' /\ [Board!Next]_(Board!vars)
  <2>1. Over(d, how) \in Job /\ Over(d, how).pc # "none" /\ Ready(d, Over(d, how))
    BY <1>5, OverTold DEF Ended
  <2> QED BY <1>1, <1>5, <2>1, MovedUnseen
<1>6. ASSUME NEW cert \in {"graded", "F"}, Move(d, FindFrom(d, cert)),
             job[d].pc \in {"fetch", "certify"}
      PROVE  Told' /\ [Board!Next]_(Board!vars)
  <2> DEFINE j == FindFrom(d, cert)
             c == comments[Request[d]]
  <2>1. (\E k \in DOMAIN c : Own(c[k])) \in BOOLEAN /\ "find" \in Running /\ 0 \in Nat
    BY DEF Running
  <2>2. j \in Job
    <3> HIDE DEF c
    <3> QED BY <1>1, <2>1 DEF FindFrom, Job, c
  <2>3. j.pc = "find" /\ Ready(d, j)
    BY <1>6, <2>2, FindFromTold
  <2>4. Move(d, j)
    BY <1>6
  <2> HIDE DEF j
  <2> QED BY <1>1, <1>6, <2>2, <2>3, <2>4, MovedUnseen DEF Ended
<1>7. CASE Authenticate(d)
  <2>1. job[d].pc = "auth"
    BY <1>7 DEF Authenticate
  <2>2. CASE Move(d, Over(d, "failed"))
    BY <1>5, <2>1, <2>2 DEF Ended
  <2>3. CASE Installation[d] # NoInstallation /\ Move(d, [job[d] EXCEPT !.pc = "fetch", !.token = tokens[Installation[d]]])
    <3> DEFINE j == [job[d] EXCEPT !.pc = "fetch", !.token = tokens[Installation[d]]]
    <3>1. Installation[d] \in Installations /\ tokens[Installation[d]] \in Token
      BY <2>3, DeliveriesAssumption DEF IInv, TypeOK
    <3>2. j \in Job /\ j.pc = "fetch" /\ j.found = job[d].found
      BY <1>1, <1>2, <3>1 DEF Job
    <3>3. Move(d, j)
      BY <2>3
    <3> HIDE DEF j
    <3> QED BY <1>2, <1>3, <2>1, <3>2, <3>3 DEF Ended
  <2>4. CASE Move(d, [job[d] EXCEPT !.pc = "mint"])
    <3> DEFINE j == [job[d] EXCEPT !.pc = "mint"]
    <3>1. j \in Job /\ j.pc = "mint" /\ j.found = job[d].found
      BY <1>1, <1>2 DEF Job
    <3>2. Move(d, j)
      BY <2>4
    <3> HIDE DEF j
    <3> QED BY <1>2, <1>3, <2>1, <3>1, <3>2 DEF Ended
  <2> QED BY <1>7, <2>2, <2>3, <2>4 DEF Authenticate
<1>8. CASE Minted(d)
  <2> DEFINE token == [for |-> Installation[d], expires |-> now + TokenLifetime]
             j == [job[d] EXCEPT !.pc = "fetch", !.token = token]
  <2>1. token \in Token
    BY TimesAssumption, DeliveriesAssumption DEF IInv, TypeOK, Token
  <2>2. Move(d, j) /\ job[d].pc = "mint"
    BY <1>8 DEF Minted
  <2> HIDE DEF token
  <2>3. j \in Job /\ j.pc = "fetch" /\ j.found = job[d].found
    BY <1>1, <1>2, <2>1 DEF Job
  <2> HIDE DEF j
  <2> QED BY <1>2, <1>3, <2>2, <2>3 DEF Ended
<1>9. CASE Fetched(d)
  <2> DEFINE got == job[d].got + 1
             pc == IF got >= FetchCalls THEN "certify" ELSE "fetch"
             j == [job[d] EXCEPT !.got = got, !.pc = pc]
  <2>1. Move(d, j) /\ job[d].pc = "fetch"
    BY <1>9 DEF Fetched
  <2>2. got \in Nat /\ pc \in Running \ {"post", "find"}
    BY <1>1, <1>2 DEF Job
  <2> HIDE DEF got, pc
  <2>3. j \in Job /\ j.pc = pc /\ j.found = job[d].found
    BY <1>1, <2>2 DEF Job
  <2> HIDE DEF j
  <2> QED BY <1>3, <2>1, <2>2, <2>3 DEF Ended
<1>10. CASE Page(d)
  <2> DEFINE j == AfterPage(job[d], comments[Request[d]])
  <2>1. Move(d, j) /\ job[d].pc = "find"
    BY <1>10 DEF Page
  <2> HIDE DEF j
  <2>2. j \in Job /\ j.pc \in {"find", "post"} /\ Ready(d, j)
    BY <2>1, PageTold DEF j
  <2> QED BY <1>1, <2>1, <2>2, MovedUnseen DEF Ended
<1>11. CASE Fail(d)
  <2>1. CASE job[d].pc = "fetch"
    BY <1>6, <1>11, <2>1 DEF Fail
  <2>2. CASE job[d].pc # "fetch"
    BY <1>5, <1>11, <2>2 DEF Fail, Waiting, Ended
  <2> QED BY <2>1, <2>2
<1>12. CASE Certify(d)
  BY <1>6, <1>12 DEF Certify
<1> QED BY <1>4, <1>7, <1>8, <1>9, <1>10, <1>11, <1>12
-----------------------------------------------------------------------------
(* The report. *)

\* An analysis that is over was open, and everything else is as it was.
LEMMA ReportedJob ==
    ASSUME IInv, Told, NEW d \in Deliveries, Posted(d)
    PROVE  /\ \A e \in Deliveries : Ready(e, job[e])'
           /\ \A e \in Deliveries : job[e].pc \in Ended => job'[e].pc \in Ended
           /\ job'[d].pc \in Ended /\ Stages[d] = "open"
           /\ Stages' = [Stages EXCEPT ![d] = "over"]
<1>1. Move(d, Over(d, "reported"))
  BY DEF Posted
<1>2. "reported" \in Ended /\ job[d].pc = "post"
  BY DEF Ended, Posted
<1>3. Over(d, "reported").pc = "reported" /\ Ready(d, Over(d, "reported"))
  BY <1>2, OverTold DEF Ended
<1>4. job' = [job EXCEPT ![d] = Over(d, "reported")] /\ answer' = answer /\ job \in [Deliveries -> Job]
  BY <1>1 DEF Move, IInv, TypeOK
<1>5. job'[d] = Over(d, "reported") /\ \A e \in Deliveries : e # d => job'[e] = job[e]
  BY <1>4
<1>6. ASSUME NEW e \in Deliveries PROVE Ready(e, job[e])'
  <2>1. CASE e = d
    BY <1>3, <1>4, <1>5, <2>1 DEF Ready
  <2>2. CASE e # d
    BY <1>4, <1>5, <2>2 DEF Ready, Told
  <2> QED BY <2>1, <2>2
<1>7. Stage(job[d]) = "open" /\ Stage(job'[d]) = "over"
  BY <1>2, <1>3, <1>5 DEF Stage, Ended
<1>8. \A e \in Deliveries : Stage(job'[e]) = IF e = d THEN "over" ELSE Stage(job[e])
  BY <1>5, <1>7
<1>9. Stages' = [e \in Deliveries |-> IF e = d THEN "over" ELSE Stage(job[e])]
  BY <1>8 DEF Stages
<1>10. Stages' = [Stages EXCEPT ![d] = "over"]
  BY <1>9 DEF Stages
<1> QED BY <1>2, <1>3, <1>5, <1>6, <1>7, <1>10 DEF Stages

\* A new comment of d is one nobody has, and one that is replaced keeps its id
\* and its place.
LEMMA PostedTold ==
    ASSUME IInv, Told, NEW d \in Deliveries, Posted(d)
    PROVE  Told' /\ [Board!Next]_(Board!vars)
<1> DEFINE p == Request[d]
           c == comments[p]
           u == Upserted(d)
<1>1. /\ comments' = [comments EXCEPT ![p] = u] /\ job[d].pc = "post" /\ StillThere(d)
      /\ job[d] \in Job /\ job[d].cert \in {"graded", "F"}
  BY DEF Posted, Told, Ready, IInv, TypeOK
<1>2. p \in Requests /\ comments \in [Requests -> Seq(Comment)] /\ c \in Seq(Comment)
  BY DeliveriesAssumption DEF IInv, TypeOK
<1>3. DOMAIN c = 1 .. Len(c) /\ Len(c) \in Nat
  BY <1>2, SeqDomain
<1>4. /\ comments'[p] = u
      /\ \A q \in Requests : q # p => comments'[q] = comments[q]
  BY <1>1, <1>2
<1>5. /\ \A e \in Deliveries : Ready(e, job[e])'
      /\ \A e \in Deliveries : job[e].pc \in Ended => job'[e].pc \in Ended
      /\ job'[d].pc \in Ended /\ Stages[d] = "open"
      /\ Stages' = [Stages EXCEPT ![d] = "over"]
  BY ReportedJob
<1>6. ASSUME NEW id PROVE Shown(id, d) \in Board!Certificate(id, d) /\ Shown(id, d).id = id
  BY <1>1 DEF Shown, Board!Certificate
<1>7. CASE job[d].found = {}
  <2>1. u = Append(c, Shown(d, d))
    BY <1>7 DEF Upserted
  <2>2. /\ DOMAIN u = DOMAIN c \cup {Len(c) + 1}
        /\ u[Len(c) + 1] = Shown(d, d)
        /\ \A k \in DOMAIN c : u[k] = c[k]
        /\ Len(c) + 1 \notin DOMAIN c
    <3> DEFINE x == Shown(d, d)
    <3>1. u = Append(c, x)
      BY <2>1
    <3> HIDE DEF x, c, u
    <3> QED BY <1>2, <1>3, <3>1 DEF x
  <2>3. \A q \in Requests : \A k \in DOMAIN comments[q] : comments[q][k].id # d
    <3>1. job[d].pc \notin Ended
      BY <1>1 DEF Ended
    <3> QED BY <3>1 DEF Told, Spoken
  <2> HIDE DEF u
  <2>4. \A q \in Requests : \A k \in DOMAIN comments'[q] :
           \/ k \in DOMAIN comments[q] /\ comments'[q][k] = comments[q][k]
           \/ q = p /\ k = Len(c) + 1 /\ comments'[q][k].id = d
    BY <1>4, <1>6, <2>2
  <2>5. Distinct'
    <3> SUFFICES ASSUME NEW q \in Requests, NEW r \in Requests,
                        NEW k \in DOMAIN comments'[q], NEW l \in DOMAIN comments'[r],
                        comments'[q][k].id = comments'[r][l].id
                 PROVE  q = r /\ k = l
      BY DEF Distinct
    <3>1. CASE comments'[q][k].id = d
      BY <2>3, <2>4, <3>1
    <3>2. CASE comments'[q][k].id # d
      BY <2>4, <3>2 DEF Told, Distinct
    <3> QED BY <3>1, <3>2
  <2>6. Spoken'
    BY <1>5, <2>4 DEF Told, Spoken
  <2>7. Told'
    BY <1>5, <2>5, <2>6 DEF Told
  <2>8. Board!Publishes(d)
    <3>1. comments' = [comments EXCEPT ![p] = Append(@, Shown(d, d))]
      BY <1>1, <2>1 DEF u
    <3>2. \E x \in Board!Certificate(d, d) : comments' = [comments EXCEPT ![p] = Append(@, x)]
      BY <1>6, <3>1
    <3> QED BY <1>5, <3>2 DEF Board!Publishes, Stages, Stage
  <2> QED BY <2>7, <2>8 DEF Board!Next
<1>8. CASE job[d].found # {}
  <2>1. PICK x \in Deliveries \cup Quoting : job[d].found = {x}
    BY <1>8 DEF Told, Ready
  <2>2. PICK i \in DOMAIN c : c[i].id = x
    BY <1>1, <1>8, <2>1 DEF StillThere
  <2>3. \A k \in DOMAIN c : c[k].id = x <=> k = i
    BY <1>2, <2>2 DEF Told, Distinct
  <2>4. u = [k \in DOMAIN c |-> IF c[k].id \in job[d].found THEN Shown(c[k].id, d) ELSE c[k]]
    BY <1>8 DEF Upserted
  <2>5. u = [c EXCEPT ![i] = Shown(x, d)]
    <3>1. u = [k \in DOMAIN c |-> IF k = i THEN Shown(x, d) ELSE c[k]]
      BY <2>1, <2>3, <2>4
    <3> HIDE DEF c, u
    <3>2. c = [k \in DOMAIN c |-> c[k]]
      BY <1>2
    <3> QED BY <3>1, <3>2
  <2>6. /\ DOMAIN u = DOMAIN c /\ u[i] = Shown(x, d)
        /\ \A k \in DOMAIN c : k # i => u[k] = c[k]
    BY <2>2, <2>5
  <2> HIDE DEF u
  <2>7. \A q \in Requests :
           /\ DOMAIN comments'[q] = DOMAIN comments[q]
           /\ \A k \in DOMAIN comments[q] : comments'[q][k].id = comments[q][k].id
    BY <1>4, <1>6, <2>2, <2>6
  <2>8. Distinct'
    BY <2>7 DEF Told, Distinct
  <2>9. Spoken'
    BY <1>5, <2>7 DEF Told, Spoken
  <2>10. Told'
    BY <1>5, <2>8, <2>9 DEF Told
  <2>11. Board!Publishes(d)
    <3>1. comments' = [comments EXCEPT ![p] = [c EXCEPT ![i] = Shown(x, d)]]
      BY <1>1, <2>5
    <3>2. comments' = [comments EXCEPT ![p][i] = Shown(x, d)]
      BY <3>1
    <3>3. /\ i \in DOMAIN comments[p] /\ comments[p][i].id \in Deliveries \cup Quoting
          /\ \E y \in Board!Certificate(comments[p][i].id, d) :
                comments' = [comments EXCEPT ![p][i] = y]
      BY <1>6, <2>2, <3>2
    <3> QED BY <1>5, <3>3 DEF Board!Publishes, Stages, Stage
  <2> QED BY <2>10, <2>11 DEF Board!Next
<1> QED BY <1>7, <1>8
-----------------------------------------------------------------------------
(* Deliveries, the process and the world. *)

\* Only a delivery that was never answered starts an analysis.
LEMMA ReceiveTold ==
    ASSUME IInv, Told, NEW d \in Deliveries, Receive(d) \/ Respond(d)
    PROVE  Told' /\ [Board!Next]_(Board!vars)
<1>1. job \in [Deliveries -> Job] /\ answer \in [Deliveries -> Answers] /\ comments' = comments
  BY DEF IInv, TypeOK, Receive, Respond
<1>2. \A e \in Deliveries : /\ answer'[e] = "none" => answer[e] = "none"
                            /\ e # d => answer'[e] = answer[e]
  BY <1>1 DEF Receive, Respond
<1>3. CASE job' = job
  <2>1. \A e \in Deliveries : Ready(e, job[e])'
    BY <1>2, <1>3 DEF Told, Ready
  <2> QED BY <1>1, <1>3, <2>1, SilentTold, Unseen
<1>4. CASE Receive(d) /\ Kind[d] = "analyzed"
  <2> DEFINE j == [job[d] EXCEPT !.pc = "queued"]
  <2>1. /\ answer[d] = "none" /\ answer'[d] = "open" /\ job' = [job EXCEPT ![d] = j]
    BY <1>1, <1>4 DEF Receive
  <2>2. job[d] \in Job /\ job[d].pc = "none" /\ job[d].found = {}
    BY <1>1, <2>1 DEF Told, Ready
  <2>3. j.pc = "queued" /\ j.found = {}
    BY <2>2 DEF Job
  <2> HIDE DEF j
  <2>4. job'[d] = j /\ \A e \in Deliveries : e # d => job'[e] = job[e]
    BY <1>1, <2>1
  <2>5. ASSUME NEW e \in Deliveries PROVE Ready(e, job[e])'
    <3>1. CASE e = d
      BY <2>1, <2>3, <2>4, <3>1 DEF Ready
    <3>2. CASE e # d
      BY <1>2, <2>4, <3>2 DEF Ready, Told
    <3> QED BY <3>1, <3>2
  <2>6. \A e \in Deliveries : job[e].pc \in Ended => job'[e].pc \in Ended
    BY <2>2, <2>4 DEF Ended
  <2>7. Told'
    BY <1>1, <2>5, <2>6, SilentTold
  <2>8. Stage(job[d]) = "none" /\ Stage(job'[d]) = "open"
    BY <2>2, <2>3, <2>4 DEF Stage, Ended
  <2>9. \A e \in Deliveries : Stage(job'[e]) = IF e = d THEN "open" ELSE Stage(job[e])
    BY <2>4, <2>8
  <2>10. Stages' = [e \in Deliveries |-> IF e = d THEN "open" ELSE Stage(job[e])]
    BY <2>9 DEF Stages
  <2>11. Stages' = [Stages EXCEPT ![d] = "open"] /\ Stages[d] = "none"
    BY <2>8, <2>10 DEF Stages
  <2>12. Board!Opens(d)
    BY <1>1, <2>11 DEF Board!Opens, Stages, Stage
  <2> QED BY <2>7, <2>12 DEF Board!Next
<1> QED BY <1>3, <1>4 DEF Receive, Respond

\* When the process goes, every analysis that is open gives up.
LEMMA StopTold ==
    ASSUME IInv, Told, NEW how \in {"dropped", "killed"}, Stop(how)
    PROVE  Told' /\ [Board!Next]_(Board!vars)
<1> DEFINE ds == {e \in Deliveries : job[e].pc \in Running \cup {"queued"}}
<1>1. comments' = comments /\ how \in Ended /\ job \in [Deliveries -> Job]
  BY DEF Stop, Ended, IInv, TypeOK
<1>2. \A e \in Deliveries : job'[e] = IF e \in ds THEN Over(e, how) ELSE job[e]
  BY DEF Stop
<1>3. \A e \in Deliveries : answer'[e] = "none" => answer[e] = "none"
  BY DEF Stop
<1>4. \A e \in Deliveries : (e \in ds <=> job[e].pc \in Running \cup {"queued"})
                            /\ job[e].pc \in {"none", "queued"} \cup Running \cup Ended
  BY <1>1 DEF Job
<1> HIDE DEF ds
<1>5. ASSUME NEW e \in Deliveries
      PROVE  /\ Ready(e, job[e])'
             /\ job[e].pc \in Ended => job'[e].pc \in Ended
             /\ e \in ds => Stage(job[e]) = "open"
             /\ Stage(job'[e]) = IF e \in ds THEN "over" ELSE Stage(job[e])
  <2>1. CASE e \in ds
    <3>1. job[e].pc \notin Ended \cup {"none"}
      BY <1>4, <2>1 DEF Running, Ended
    <3>2. Over(e, how).pc = how /\ Ready(e, Over(e, how))
      BY <1>1, <3>1, OverTold
    <3>3. Ready(e, job[e])'
      BY <1>2, <1>3, <2>1, <3>2 DEF Ready
    <3> QED BY <1>1, <1>2, <2>1, <3>1, <3>2, <3>3 DEF Stage, Ended
  <2>2. CASE e \notin ds
    BY <1>2, <1>3, <2>2 DEF Ready, Told
  <2> QED BY <2>1, <2>2
<1>6. Told'
  BY <1>1, <1>5, SilentTold
<1>7. ds \in SUBSET Deliveries
  BY DEF ds
<1>8. [Board!Next]_(Board!vars)
  BY <1>1, <1>5, <1>7, Abandoned
<1> QED BY <1>6, <1>8

\* What a person says is a comment of its own.
LEMMA SaysTold ==
    ASSUME IInv, Told, NEW h \in Humans, NEW p \in Requests, Says(h, p)
    PROVE  Told' /\ [Board!Next]_(Board!vars)
<1> DEFINE new == [id |-> h, by |-> h, cert |-> "none"]
           c == comments[p]
           u == Append(c, new)
<1>1. job' = job /\ answer' = answer /\ comments' = [comments EXCEPT ![p] = u]
  BY DEF Says
<1>2. \A q \in Requests : \A k \in DOMAIN comments[q] : comments[q][k].id # h
  BY DEF Says
<1>3. comments \in [Requests -> Seq(Comment)] /\ c \in Seq(Comment)
  BY DEF IInv, TypeOK
<1>4. /\ \A k \in DOMAIN u : u[k] = new \/ (k \in DOMAIN c /\ u[k] = c[k])
      /\ \A k, l \in DOMAIN u : u[k] = new /\ u[l] = new => k = l
  <2>1. \A k \in DOMAIN c : c[k] # new
    BY <1>2
  <2> HIDE DEF new, c, u
  <2>2. /\ DOMAIN u = DOMAIN c \cup {Len(c) + 1} /\ u[Len(c) + 1] = new
        /\ \A k \in DOMAIN c : u[k] = c[k]
    BY <1>3 DEF u
  <2> QED BY <2>1, <2>2
<1>5. new.id = h /\ h \notin Deliveries
  BY DeliveriesAssumption
<1> HIDE DEF new, u
<1>6. comments'[p] = u /\ \A q \in Requests : q # p => comments'[q] = comments[q]
  BY <1>1, <1>3
<1>7. \A q \in Requests : \A k \in DOMAIN comments'[q] :
         \/ k \in DOMAIN comments[q] /\ comments'[q][k] = comments[q][k]
         \/ q = p /\ u[k] = new /\ comments'[q][k].id = h
  BY <1>4, <1>5, <1>6
<1>8. Distinct'
  <2> SUFFICES ASSUME NEW q \in Requests, NEW r \in Requests,
                      NEW k \in DOMAIN comments'[q], NEW l \in DOMAIN comments'[r],
                      comments'[q][k].id = comments'[r][l].id
               PROVE  q = r /\ k = l
    BY DEF Distinct
  <2>1. CASE comments'[q][k].id = h
    <3>1. q = p /\ u[k] = new
      BY <1>2, <1>7, <2>1
    <3>2. r = p /\ u[l] = new
      BY <1>2, <1>7, <2>1
    <3>3. k \in DOMAIN u /\ l \in DOMAIN u
      BY <1>6, <3>1, <3>2
    <3> QED BY <1>4, <3>1, <3>2, <3>3
  <2>2. CASE comments'[q][k].id # h
    BY <1>7, <2>2 DEF Told, Distinct
  <2> QED BY <2>1, <2>2
<1>9. Spoken'
  BY <1>1, <1>5, <1>7 DEF Told, Spoken
<1>10. Told'
  BY <1>1, <1>8, <1>9 DEF Told, Ready
<1>11. Board!Says(h, p)
  <2>1. new \in [id : {h}, by : {h}, cert : {"none"}]
    BY DEF new
  <2>2. comments' = [comments EXCEPT ![p] = Append(@, new)]
    BY <1>1 DEF u
  <2>3. Stages' = Stages
    BY <1>1 DEF Stages, Stage
  <2> QED BY <1>2, <2>1, <2>2, <2>3 DEF Board!Says, Stages, Stage
<1> QED BY <1>10, <1>11 DEF Board!Next

\* A comment that goes away leaves the others one each.
LEMMA DeleteTold ==
    ASSUME IInv, Told, NEW p \in Requests, NEW k \in DOMAIN comments[p], Delete(p, k)
    PROVE  Told' /\ [Board!Next]_(Board!vars)
<1> DEFINE c == comments[p]
           u == RemoveAt(c, k)
           At(i) == IF i < k THEN i ELSE i + 1
<1>1. /\ comments' = [comments EXCEPT ![p] = u] /\ answer' = answer
      /\ job' = [d \in Deliveries |-> IF Request[d] = p THEN [job[d] EXCEPT !.sure = FALSE] ELSE job[d]]
  BY DEF Delete
<1>2. comments \in [Requests -> Seq(Comment)] /\ c \in Seq(Comment) /\ job \in [Deliveries -> Job]
  BY DEF IInv, TypeOK
<1>3. \A i \in DOMAIN u : /\ i \in Nat /\ At(i) \in DOMAIN c /\ u[i] = c[At(i)]
  BY <1>2, Removed
<1>4. k \in Nat
  BY <1>2, SeqDomain
<1>5. \A i, j \in DOMAIN u : At(i) = At(j) => i = j
  BY <1>3, <1>4
<1> HIDE DEF u, At
<1>6. comments'[p] = u /\ \A q \in Requests : q # p => comments'[q] = comments[q]
  BY <1>1, <1>2
<1>7. ASSUME NEW e \in Deliveries
      PROVE  /\ job'[e].pc = job[e].pc /\ job'[e].found = job[e].found
             /\ job'[e].cert = job[e].cert
  <2>1. job[e] \in Job
    BY <1>2
  <2> QED BY <1>1, <2>1 DEF Job
<1>8. \A e \in Deliveries : Ready(e, job[e])'
  BY <1>1, <1>7 DEF Told, Ready
<1>9. Distinct'
  <2> SUFFICES ASSUME NEW q \in Requests, NEW r \in Requests,
                      NEW i \in DOMAIN comments'[q], NEW j \in DOMAIN comments'[r],
                      comments'[q][i].id = comments'[r][j].id
               PROVE  q = r /\ i = j
    BY DEF Distinct
  <2>1. CASE q = p /\ r = p
    <3>1. At(i) \in DOMAIN c /\ At(j) \in DOMAIN c /\ c[At(i)].id = c[At(j)].id
      BY <1>3, <1>6, <2>1
    <3>2. At(i) = At(j)
      BY <3>1 DEF Told, Distinct
    <3> QED BY <1>5, <1>6, <2>1, <3>2
  <2>2. CASE q = p /\ r # p
    <3>1. At(i) \in DOMAIN c /\ j \in DOMAIN comments[r] /\ c[At(i)].id = comments[r][j].id
      BY <1>3, <1>6, <2>2
    <3> QED BY <2>2, <3>1 DEF Told, Distinct
  <2>3. CASE q # p /\ r = p
    <3>1. At(j) \in DOMAIN c /\ i \in DOMAIN comments[q] /\ c[At(j)].id = comments[q][i].id
      BY <1>3, <1>6, <2>3
    <3> QED BY <2>3, <3>1 DEF Told, Distinct
  <2>4. CASE q # p /\ r # p
    BY <1>6, <2>4 DEF Told, Distinct
  <2> QED BY <2>1, <2>2, <2>3, <2>4
<1>10. Spoken'
  <2> SUFFICES ASSUME NEW q \in Requests, NEW i \in DOMAIN comments'[q],
                      comments'[q][i].id \in Deliveries
               PROVE  job'[comments'[q][i].id].pc \in Ended
    BY DEF Spoken
  <2>1. PICK l \in DOMAIN comments[q] : comments'[q][i] = comments[q][l]
    BY <1>3, <1>6
  <2> QED BY <1>7, <2>1 DEF Told, Spoken
<1>11. Told'
  BY <1>8, <1>9, <1>10 DEF Told
<1>12. Board!Deletes(p, k)
  <2>1. \A e \in Deliveries : Stage(job'[e]) = Stage(job[e])
    BY <1>7 DEF Stage
  <2>2. Stages' = Stages
    BY <2>1 DEF Stages
  <2>3. comments' = [comments EXCEPT ![p] = RemoveAt(@, k)]
    BY <1>1 DEF u
  <2> QED BY <2>2, <2>3 DEF Board!Deletes, Board!RemoveAt, RemoveAt, Stages, Stage
<1> QED BY <1>11, <1>12 DEF Board!Next

LEMMA NextTold == IInv /\ Told /\ [Next]_vars => Told' /\ [Board!Next]_(Board!vars)
<1> SUFFICES ASSUME IInv, Told, [Next]_vars PROVE Told' /\ [Board!Next]_(Board!vars)
  OBVIOUS
<1>1. ASSUME NEW d \in Deliveries, Receive(d) \/ Local(d) \/ Answered(d) \/ Fail(d)
      PROVE  Told' /\ [Board!Next]_(Board!vars)
  BY <1>1, ReceiveTold, AnalysisTold, PostedTold DEF Local, Answered
<1>2. ASSUME UNCHANGED <<answer, job, comments>>
      PROVE  Told' /\ [Board!Next]_(Board!vars)
  <2>1. \A e \in Deliveries : Ready(e, job[e])'
    BY <1>2 DEF Told, Ready
  <2> QED BY <1>2, <2>1, SilentTold, Unseen
<1>3. CASE Process
  BY <1>2, <1>3, StopTold DEF Process, Signal, Exit, Kill, Restart
<1>4. CASE World
  BY <1>2, <1>4, SaysTold, DeleteTold DEF World, Tick
<1>5. CASE UNCHANGED vars
  BY <1>2, <1>5 DEF vars
<1> QED BY <1>1, <1>3, <1>4, <1>5 DEF Next

-----------------------------------------------------------------------------
(* The theorems. *)

\* The app's state and the conversations keep their types.
THEOREM TypeCorrect == Spec => []TypeOK
<1>1. IInv => TypeOK
  BY DEF IInv
<1> QED BY <1>1, Invariance, PTL

\* As long as the margin covers the timeout, no analysis ever makes a call with
\* a token that has expired or that is another installation's.
THEOREM TokensOutliveJobs == Spec => []TokenOutlivesJob
<1>1. ASSUME IInv PROVE TokenOutlivesJob
  <2> SUFFICES ASSUME NEW d \in Deliveries, job[d].pc \in Authenticated, InTime(d)
               PROVE  job[d].token.for = Installation[d] /\ now < job[d].token.expires
    BY DEF TokenOutlivesJob, Authenticated
  <2>1. Held(d, job[d]) /\ job[d] \in Job /\ now \in Nat
    BY <1>1 DEF IInv, TypeOK
  <2>2. job[d].deadline \in Nat /\ job[d].token.expires \in Nat
    BY <2>1 DEF Job, Token
  <2> QED BY <2>1, <2>2 DEF Held, InTime
<1> QED BY <1>1, Invariance, PTL

\* The walk over the pages never misses a comment that was there throughout.
THEOREM CommentsAreFound == Spec => []FoundWhenPresent
<1>1. IInv => FoundWhenPresent
  BY DEF IInv, Held, FoundWhenPresent
<1> QED BY <1>1, Invariance, PTL

\* No comment shows a grade earned by part of a changeset.
THEOREM PartialIsNeverGraded == Spec => []PartialNeverGraded
<1>1. IInv => PartialNeverGraded
  BY DEF IInv, Written, PartialNeverGraded
<1> QED BY <1>1, Invariance, PTL

\* Whatever is refused, times out, dies, restarts or is deleted, people see a
\* bulletin: no analysis speaks twice or after it ended, edits more than one
\* comment, moves one, or touches what a person wrote. The safety part of the
\* refinement.
THEOREM BulletinIsKept == Spec => Board!Safe
<1>1. Init => Told /\ Board!Init
  BY InitTold
<1>2. IInv /\ Told /\ [Next]_vars => Told' /\ [Board!Next]_(Board!vars)
  BY NextTold
<1> QED BY <1>1, <1>2, Invariance, PTL DEF Spec, Board!Safe
=============================================================================
