-------------------------- MODULE ProviderTransport --------------------------
(***************************************************************************)
(* Requests that share one Provider: HttpTransport._send_with_failover     *)
(* (gateway/transport/http/transport.py) over the URL ring and the         *)
(* credential ring of ProviderInfo (gateway/transport/provider_info.py),   *)
(* the accounting of broken streams (gateway/app.py), and the Admin page   *)
(* that selects a URL or a credential by hand.                             *)
(*                                                                         *)
(* A step runs from one await that can suspend to the next: the upstream   *)
(* call, the delay before a retry, an active gate, and the recorder, whose *)
(* write lock the model-group recorder may hold across a suspension.       *)
(***************************************************************************)
EXTENDS FailoverRing

CONSTANTS Requests,
          NUrls, NCreds,
          Fixed,          \* credential a model-group view is pinned to, or None
          AutoRotate,     \* auto_rotate_credentials
          OptIn,          \* requests with retry_nonstandard_statuses
          NoFailover,     \* requests with allow_failover = False
          Streams,        \* streaming requests
          Retries,        \* delays of the retry policy (5 in the code)
          OptInRetries,   \* those per credential of an opted-in request (2)
          Threshold,      \* CROSS_REQUEST_FAILURE_THRESHOLD (4 in the code)
          Faults,         \* answers other than success the upstream may give
          MaxFaults,      \* bound: how often it gives one
          MaxEvents       \* bound: Admin selections and expired cooldowns

Urls == 0..(NUrls - 1)
Creds == 0..(NCreds - 1)

(* "page" is a success that carries the CDN's 502 page, "error" any status *)
(* that no ring handles, "errorPage" one with that page as its body. *)
Statuses == {"ok", "page", "429", "502", "503", "error", "errorPage"}

ASSUME ProviderTransportAssumption ==
  /\ NUrls \in Nat \ {0} /\ NCreds \in Nat \ {0}
  /\ None \notin Nat /\ None \notin Requests
  /\ Fixed \in [Requests -> Creds \cup {None}]
  /\ AutoRotate \in BOOLEAN
  /\ OptIn \subseteq Requests /\ NoFailover \subseteq Requests /\ Streams \subseteq Requests
  /\ Retries \in Nat \ {0} /\ OptInRetries \in 1..Retries /\ Threshold \in Nat \ {0}
  /\ Faults \subseteq Statuses \ {"ok"}
  /\ MaxFaults \in Nat /\ MaxEvents \in Nat

VARIABLES url, cred,      \* the two rings
          req,            \* the state of each request
          manual,         \* the credential the Admin page is selecting, or None
          strikes,        \* disconnects counted per credential lifecycle
          faults, events

vars == <<url, cred, req, manual, strikes, faults, events>>

(* Where the operation in flight, or delayed, was called. *)
Sites == {"first", "nonstandard", "once", "credRetry", "credNext", "urlRetry", "urlNext"}

Final == {"returned", "refused", "raised", "closed"}
Pcs == {"enter", "entryUrl", "entryCred", "sleep", "sent", "claimCred", "waitCred",
        "recordCred", "claimUrl", "waitUrl", "recordUrl", "open", "strike",
        "recordStrike"} \cup Final

Idle == [pc |-> "enter", at |-> "first", left |-> 0, status |-> "ok",
         url |-> <<0, 0>>, cred |-> <<0, 0>>, singleUrl |-> FALSE, singleCred |-> FALSE,
         holdsUrl |-> FALSE, holdsCred |-> FALSE,
         next |-> None]

RequestStates ==
  [pc : Pcs, at : Sites, left : 0..Retries, status : Statuses,
   url : Urls \X Nat, cred : Creds \X Nat, singleUrl : BOOLEAN,
   singleCred : BOOLEAN, holdsUrl : BOOLEAN, holdsCred : BOOLEAN,
   next : Urls \cup Creds \cup {None}]

TypeOK ==
  /\ url \in Rings(NUrls) /\ cred \in Rings(NCreds)
  /\ req \in [Requests -> RequestStates]
  /\ manual \in Creds \cup {None}
  /\ DOMAIN strikes \subseteq Creds \X Nat
  /\ \A key \in DOMAIN strikes : strikes[key] \in Nat \ {0}
  /\ faults \in 0..MaxFaults /\ events \in 0..MaxEvents

Init ==
  /\ url = NewRing(0) /\ cred = NewRing(0)
  /\ req = [r \in Requests |-> Idle]
  /\ manual = None
  /\ strikes = <<>>
  /\ faults = 0 /\ events = 0

-----------------------------------------------------------------------------
(* What a request sees of the Provider. *)

CredOf(r, k) == IF Fixed[r] = None THEN k.current ELSE Fixed[r]

Rotates(r) == AutoRotate /\ Fixed[r] = None

HasCredential(r, k) ==
  IF Rotates(r) THEN Available(k, NCreds) # {} ELSE CredOf(r, k) \notin k.cooling

NextCred(r, k, c) == IF Rotates(r) THEN NextAfter(k, c, NCreds) ELSE None

Code(s) == CASE s = "page" -> "ok" [] s = "errorPage" -> "error" [] OTHER -> s

(* _is_base_url_rotation_trigger, and the opt-in to 429 *)
UrlTrigger(r, s) == s \in {"502", "page", "errorPage"} \/ (r \in OptIn /\ s = "429")

CredRetries(r) == IF r \in OptIn THEN OptInRetries ELSE Retries

RetriedOnUrl(r, s) == s = "502" \/ (r \in OptIn /\ s = "429")

-----------------------------------------------------------------------------
(* The tails of a step: q is the request's state so far, u and k the rings.*)

Continue(r, q, u, k) == req' = [req EXCEPT ![r] = q] /\ url' = u /\ cred' = k

(* operation(): observe both rings and call upstream. *)
Operate(r, q, u, k, site) ==
  Continue(r, [q EXCEPT !.pc = "sent", !.at = site, !.status = "ok", !.url = Observe(u),
                        !.cred = <<CredOf(r, k), k.gate.generation>>], u, k)

(* The delay before a retry; the answer it retries is dropped. *)
Delay(r, q, u, k, site, left) ==
  Continue(r, [q EXCEPT !.pc = "sleep", !.at = site, !.left = left, !.status = "ok",
                        !.url = Idle.url, !.cred = Idle.cred], u, k)

(* Leave _send_with_failover; the finally clause publishes the URL gate.   *)
(* An opened stream goes on until its terminal. *)
Leave(r, q, u, k, pc) ==
  LET opened == pc = "returned" /\ r \in Streams /\ Fixed[r] = None /\ Code(q.status) = "ok"
  IN  Continue(r, [Idle EXCEPT !.pc = IF opened THEN "open" ELSE pc,
                               !.status = IF pc = "returned" THEN q.status ELSE @,
                               !.cred = IF opened THEN q.cred ELSE @],
               IF q.holdsUrl THEN Release(u) ELSE u, k)

(* The head of the loop of _send_with_failover. *)
Loop(r, q, u, k) ==
  IF Available(u, NUrls) = {} \/ ~HasCredential(r, k)
  THEN Leave(r, q, u, k, "refused")
  ELSE Operate(r, q, u, k, "first")

(* Cool the URL that was attempted and go on to the next one. *)
NextUrl(r, q, u, k) ==
  LET failed == MarkFailed(u, q.url[1])
      next == NextAfter(failed, q.url[1], NUrls)
  IN  \/ next = None /\ Leave(r, q, failed, k, "returned")
      \/ next # None /\ Continue(r, [q EXCEPT !.pc = "recordUrl", !.next = next], failed, k)

(* Broken variant: a 502 after a credential failover cools the URL at once.*)
AfterCredentialAtOnce(r, q, u, k, retrying) ==
  \/ ~UrlTrigger(r, q.status) /\ Leave(r, q, u, k, "returned")
  \/ /\ UrlTrigger(r, q.status) /\ ~q.holdsUrl
     /\ Continue(r, [q EXCEPT !.pc = "claimUrl"], u, k)
  \/ /\ UrlTrigger(r, q.status) /\ q.holdsUrl
     /\ NextUrl(r, q, u, k)

(* What both loops do once the credentials are settled: return; claim the  *)
(* URL gate; or, holding it, give a URL that was retried for its           *)
(* credential and now answers 502 its full budget, or turn away from it.   *)
AfterCredential(r, q, u, k, retrying) ==
  LET again == retrying /\ q.status = "502" /\ ~q.singleUrl
      single == q.singleUrl /\ RetriedOnUrl(r, q.status)
  IN  \/ ~UrlTrigger(r, q.status) /\ Leave(r, q, u, k, "returned")
      \/ /\ UrlTrigger(r, q.status) /\ ~q.holdsUrl
         /\ Continue(r, [q EXCEPT !.pc = "claimUrl"], u, k)
      \/ /\ UrlTrigger(r, q.status) /\ q.holdsUrl
         /\ \/ again /\ Delay(r, q, u, k, "urlRetry", Retries - 1)
            \/ single /\ Leave(r, q, u, k, "returned")
            \/ ~again /\ ~single /\ NextUrl(r, q, u, k)

(* _mark_unrotated_credential_failure: a request that may not rotate cools *)
(* the credential when no other is available, and is then exhausted. *)
Unrotated(r, q, u, k, retrying) ==
  LET exhausted == q.status = "503" /\ NextCred(r, k, q.cred[1]) = None
  IN  \/ exhausted /\ Leave(r, q, u, MarkFailed(k, q.cred[1]), "returned")
      \/ ~exhausted /\ AfterCredential(r, q, u, k, retrying)

(* The head of _retry_before_credential_rotation. *)
CredentialPhase(r, q, u, k) ==
  \/ q.singleCred /\ Unrotated(r, q, u, k, FALSE)
  \/ /\ ~q.singleCred /\ q.status = "503"
     /\ Continue(r, [q EXCEPT !.pc = "claimCred"], u, k)
  \/ ~q.singleCred /\ q.status # "503" /\ AfterCredential(r, q, u, k, FALSE)

(* The head of _rotate_urls. *)
RotateUrls(r, q, u, k) ==
  IF ~q.singleUrl /\ RetriedOnUrl(r, q.status)
  THEN Delay(r, q, u, k, "urlRetry", Retries - 1)
  ELSE CredentialPhase(r, q, u, k)

-----------------------------------------------------------------------------
(* The request, up to its answers *)

(* wait_for_url_rotation and wait_for_credential_rotation: whoever waits   *)
(* gets a single attempt. *)
EnterWaiting(r) ==
  /\ req[r].pc = "enter" /\ Blocked(url.gate)
  /\ Continue(r, [req[r] EXCEPT !.pc = "entryUrl", !.singleUrl = TRUE], url, cred)

Enter(r) ==
  /\ req[r].pc \in {"enter", "entryUrl"} /\ ~Blocked(url.gate)
  /\ IF Blocked(cred.gate)
     THEN Continue(r, [req[r] EXCEPT !.pc = "entryCred", !.singleCred = TRUE], url, cred)
     ELSE Loop(r, req[r], url, cred)

EnterCred(r) ==
  /\ req[r].pc = "entryCred" /\ ~Blocked(cred.gate)
  /\ Loop(r, req[r], url, cred)

Wake(r) ==
  /\ req[r].pc = "sleep"
  /\ Operate(r, req[r], url, cred, req[r].at)

(* Statuses that no ring handles, retried for opted-in requests. *)
Nonstandard(r, q) ==
  LET again == Code(q.status) \in {"429", "error"} /\ q.left > 0
      over == Code(q.status) \in {"ok", "error"} /\ ~UrlTrigger(r, q.status)
  IN  \/ again /\ Delay(r, q, url, cred, "nonstandard", q.left - 1)
      \/ ~again /\ over /\ Leave(r, q, url, cred, "returned")
      \/ ~again /\ ~over /\ CredentialPhase(r, q, url, cred)

First(r, q) ==
  LET over == r \in NoFailover \/ (q.singleUrl /\ RetriedOnUrl(r, q.status))
      nonstandard == r \in OptIn /\ Code(q.status) = "error"
  IN  \/ over /\ Leave(r, q, url, cred, "returned")
      \/ ~over /\ nonstandard /\ Nonstandard(r, [q EXCEPT !.left = Retries])
      \/ ~over /\ ~nonstandard /\ CredentialPhase(r, q, url, cred)

(* Broken variant: a retry that ends the 503s keeps the credential gate.   *)
LeadCredentialHolding(r, q) ==
  LET failed == MarkFailed(cred, q.cred[1])
      next == NextCred(r, failed, q.cred[1])
  IN  \/ /\ q.status # "503"
         /\ AfterCredential(r, q, url, cred, TRUE)
      \/ /\ q.status = "503" /\ q.left > 0
         /\ Delay(r, q, url, cred, "credRetry", q.left - 1)
      \/ /\ q.status = "503" /\ q.left = 0 /\ next # None
         /\ Continue(r, [q EXCEPT !.pc = "recordCred", !.next = next], url, failed)

(* The credential leader: retry, then cool and rotate while 503s go on.    *)
LeadCredential(r, q) ==
  LET failed == MarkFailed(cred, q.cred[1])
      next == NextCred(r, failed, q.cred[1])
      released == [q EXCEPT !.holdsCred = FALSE]
  IN  \/ /\ q.status # "503"
         /\ AfterCredential(r, released, url, Release(cred), TRUE)
      \/ /\ q.status = "503" /\ q.left > 0
         /\ Delay(r, q, url, cred, "credRetry", q.left - 1)
      \/ /\ q.status = "503" /\ q.left = 0 /\ next = None
         /\ Leave(r, released, url, Release(failed), "returned")
      \/ /\ q.status = "503" /\ q.left = 0 /\ next # None
         /\ Continue(r, [q EXCEPT !.pc = "recordCred", !.next = next], url, failed)

RetryUrl(r, q) ==
  IF RetriedOnUrl(r, q.status) /\ q.left > 0
  THEN Delay(r, q, url, cred, "urlRetry", q.left - 1)
  ELSE CredentialPhase(r, q, url, cred)

(* The upstream answers the call made at q.at. *)
Answered(r, q) ==
  \/ q.at = "first" /\ First(r, q)
  \/ q.at = "nonstandard" /\ Nonstandard(r, q)
  \/ q.at = "once" /\ Unrotated(r, q, url, cred, TRUE)
  \/ q.at = "credRetry" /\ LeadCredential(r, q)
  \/ q.at = "credNext" /\ LeadCredential(r, [q EXCEPT !.left = CredRetries(r)])
  \/ q.at = "urlRetry" /\ RetryUrl(r, q)
  \/ q.at = "urlNext" /\ RotateUrls(r, q, url, cred)

-----------------------------------------------------------------------------
(* Gates and recorders *)

ClaimWaiting(r) ==
  \/ /\ req[r].pc = "claimUrl" /\ Blocked(url.gate)
     /\ Continue(r, [req[r] EXCEPT !.pc = "waitUrl"], url, cred)
  \/ /\ req[r].pc = "claimCred" /\ Blocked(cred.gate)
     /\ Continue(r, [req[r] EXCEPT !.pc = "waitCred"], url, cred)

(* A claim opens a generation when none was opened since the attempt; it   *)
(* is given up at once unless the claim did not wait. *)
Claimed(ring, observed) ==
  IF ring.gate.generation = observed THEN Open(ring) ELSE ring

ClaimCred(r) ==
  LET q == req[r]
      leads == q.pc = "claimCred" /\ cred.gate.generation = q.cred[2]
  IN  /\ q.pc \in {"claimCred", "waitCred"} /\ ~Blocked(cred.gate)
      /\ \/ /\ leads
            /\ Delay(r, [q EXCEPT !.holdsCred = TRUE], url, Open(cred), "credRetry",
                     CredRetries(r) - 1)
         \/ /\ ~leads
            /\ Operate(r, q, url, Release(Claimed(cred, q.cred[2])), "once")

(* _claim_url_rotation_immediately: a manual selection also defeats it.    *)
ClaimUrl(r) ==
  LET q == req[r]
      leads == q.pc = "claimUrl" /\ Observe(url) = q.url
  IN  /\ q.pc \in {"claimUrl", "waitUrl"} /\ ~Blocked(url.gate)
      /\ \/ leads /\ RotateUrls(r, [q EXCEPT !.holdsUrl = TRUE], Open(url), cred)
         \/ /\ ~leads
            /\ Loop(r, [q EXCEPT !.singleUrl = TRUE], Release(Claimed(url, q.url[2])), cred)

(* select_base_url and select_credential *)
Record(r) ==
  LET q == [req[r] EXCEPT !.next = None]
      next == req[r].next
  IN  \/ q.pc = "recordUrl" /\ Operate(r, q, Select(url, next), cred, "urlNext")
      \/ q.pc = "recordCred" /\ Operate(r, q, url, Select(cred, next), "credNext")

(* Broken variant: the credential gate is not published on the way out. *)
InterruptKeepingCredential(r) ==
  /\ req[r].pc \notin {"enter"} \cup Final
  /\ Leave(r, req[r], url, cred, "raised")

(* Broken variant: both gates are published, held or not. *)
InterruptPublishingBoth(r) ==
  /\ req[r].pc \notin {"enter"} \cup Final
  /\ Leave(r, [req[r] EXCEPT !.holdsUrl = TRUE], url, Release(cred), "raised")

(* Cancellation, a recorder that cannot write, or an error that is not an  *)
(* answer: the finally clauses publish the gates that are held. *)
Interrupt(r) ==
  /\ req[r].pc \notin {"enter"} \cup Final
  /\ Leave(r, req[r], url, IF req[r].holdsCred THEN Release(cred) ELSE cred, "raised")

-----------------------------------------------------------------------------
(* _record_stream_terminal_credential, for the streams of one session *)

Forget(key) == [k \in DOMAIN strikes \ {key} |-> strikes[k]]

Close(r, k) == Continue(r, [Idle EXCEPT !.pc = "closed"], url, k)

StreamCompletes(r) ==
  /\ req[r].pc = "open"
  /\ strikes' = IF Observe(cred) = req[r].cred THEN Forget(req[r].cred) ELSE strikes
  /\ Close(r, cred)

(* An upstream disconnect counts against the lifecycle that opened the     *)
(* stream, if that lifecycle is still the current one. *)
StreamBreaks(r) ==
  LET key == req[r].cred
      count == 1 + IF key \in DOMAIN strikes THEN strikes[key] ELSE 0
  IN  /\ req[r].pc = "open"
      /\ \/ /\ Observe(cred) # key
            /\ Close(r, cred)
            /\ UNCHANGED strikes
         \/ /\ Observe(cred) = key
            /\ strikes' = [k \in DOMAIN strikes \cup {key} |-> IF k = key THEN count ELSE strikes[k]]
            /\ \/ count < Threshold /\ Close(r, cred)
               \/ /\ count >= Threshold
                  /\ Continue(r, [req[r] EXCEPT !.pc = "strike"], url, cred)

(* Broken variant: the claim compares the credential only. *)
StrikeByName(r) ==
  LET q == req[r]
      failed == MarkFailed(Open(cred), q.cred[1])
  IN  /\ q.pc = "strike" /\ ~Blocked(cred.gate)
      /\ \/ cred.current # q.cred[1] /\ Close(r, cred) /\ UNCHANGED strikes
         \/ /\ cred.current = q.cred[1]
            /\ Close(r, Release(failed))
            /\ strikes' = Forget(q.cred)

(* The last strike claims the gate and cools the credential. *)
Strike(r) ==
  LET q == req[r]
      failed == MarkFailed(Open(cred), q.cred[1])
      next == NextCred(r, failed, q.cred[1])
  IN  /\ q.pc = "strike" /\ ~Blocked(cred.gate)
      /\ \/ /\ Observe(cred) # q.cred
            /\ Close(r, Release(Claimed(cred, q.cred[2])))
            /\ UNCHANGED strikes
         \/ /\ Observe(cred) = q.cred /\ next = None
            /\ Close(r, Release(failed))
            /\ strikes' = Forget(q.cred)
         \/ /\ Observe(cred) = q.cred /\ next # None
            /\ Continue(r, [q EXCEPT !.pc = "recordStrike", !.next = next, !.holdsCred = TRUE],
                        url, failed)
            /\ UNCHANGED strikes

RecordStrike(r) ==
  /\ req[r].pc = "recordStrike"
  /\ Close(r, Release(Select(cred, req[r].next)))
  /\ strikes' = Forget(req[r].cred)

-----------------------------------------------------------------------------
(* The Admin page and the clock *)

Happens == events < MaxEvents /\ events' = events + 1 /\ UNCHANGED <<req, strikes, faults>>

(* manually_select_base_url does not take the URL gate. *)
SelectUrl(u) ==
  /\ Happens
  /\ url' = Restore(url, u)
  /\ UNCHANGED <<cred, manual>>

(* Broken variant: the selection does not wait for the gate. *)
TakeNoGate(c) ==
  /\ Happens /\ manual = None
  /\ manual' = c
  /\ UNCHANGED <<url, cred>>

(* manually_select_credential takes the credential gate and then records.  *)
TakeCredentialGate(c) ==
  /\ Happens /\ manual = None /\ ~Blocked(cred.gate)
  /\ manual' = c
  /\ cred' = Open(cred)
  /\ UNCHANGED url

SelectCredential ==
  /\ manual # None
  /\ manual' = None
  /\ cred' \in {Release(Restore(cred, manual)), Release(cred)}
  /\ UNCHANGED <<url, req, strikes, faults, events>>

(* A cooldown of an hour ends, or recovery evidence clears it. *)
CooldownEnds ==
  /\ Happens
  /\ \/ \E u \in url.cooling : url' = [url EXCEPT !.cooling = @ \ {u}] /\ UNCHANGED cred
     \/ \E c \in cred.cooling : cred' = [cred EXCEPT !.cooling = @ \ {c}] /\ UNCHANGED url
  /\ UNCHANGED manual

-----------------------------------------------------------------------------
Answer(r) ==
  /\ req[r].pc = "sent"
  /\ \E s \in {"ok"} \cup Faults :
       /\ faults' = IF s = "ok" THEN faults ELSE faults + 1
       /\ faults' <= MaxFaults
       /\ Answered(r, [req[r] EXCEPT !.status = s])
  /\ UNCHANGED <<manual, strikes, events>>

Terminal(r) ==
  /\ StreamCompletes(r) \/ StreamBreaks(r) \/ Strike(r) \/ RecordStrike(r)
  /\ UNCHANGED <<manual, faults, events>>

Step(r) ==
  \/ Answer(r)
  \/ Terminal(r)
  \/ /\ Enter(r) \/ EnterCred(r) \/ Wake(r) \/ ClaimCred(r) \/ ClaimUrl(r) \/ Record(r)
     /\ UNCHANGED <<manual, strikes, faults, events>>

Waits(r) ==
  /\ EnterWaiting(r) \/ ClaimWaiting(r)
  /\ UNCHANGED <<manual, strikes, faults, events>>

Stops(r) == Interrupt(r) /\ UNCHANGED <<manual, strikes, faults, events>>

Admin ==
  \/ \E u \in Urls : SelectUrl(u)
  \/ \E c \in Creds : TakeCredentialGate(c)
  \/ SelectCredential
  \/ CooldownEnds

Next == Admin \/ \E r \in Requests : Step(r) \/ Waits(r) \/ Stops(r)

(* Upstream calls, delays and recorders end (HTTP timeouts, bounded        *)
(* delays, local writes) and the loop runs whoever is ready. *)
Spec ==
  /\ Init /\ [][Next]_vars
  /\ \A r \in Requests : WF_vars(Step(r))
  /\ WF_vars(SelectCredential)

-----------------------------------------------------------------------------
UrlHolders == {r \in Requests : req[r].holdsUrl}
CredHolders ==
  {r \in Requests : req[r].holdsCred} \cup IF manual = None THEN {} ELSE {None}

OnlyOne(S) == \A x, y \in S : x = y

(* A ring's publish is unconditional, so each gate must have exactly one   *)
(* holder while it is active: whoever waited, lost its claim, was          *)
(* interrupted or rotated the other ring meanwhile never frees a gate that *)
(* another request or the Admin page holds, and never leaves one locked.   *)
GatesAreHeld ==
  /\ url.gate.active <=> UrlHolders # {}
  /\ cred.gate.active <=> CredHolders # {}
  /\ OnlyOne(UrlHolders) /\ OnlyOne(CredHolders)

(* Where a request may hold a gate, what it claims one for, and what it is *)
(* about to select. *)
Phase(q) ==
  /\ q.holdsCred <=> \/ q.pc \in {"sleep", "sent"} /\ q.at \in {"credRetry", "credNext"}
                     \/ q.pc \in {"recordCred", "recordStrike"}
  /\ q.holdsUrl => \/ q.pc \in {"sleep", "sent"} /\ q.at \notin {"first", "nonstandard"}
                   \/ q.pc \in {"claimCred", "waitCred", "recordCred", "recordUrl"}
  /\ q.pc \in {"claimUrl", "waitUrl"} => q.status # "503"
  /\ q.pc = "recordUrl" => q.next \in Urls
  /\ q.pc \in {"recordCred", "recordStrike"} => q.next \in Creds

(* The holder of the credential gate acts on the credential it called, and *)
(* the rotation it is recording is still due. *)
Due(r, q, k) ==
  /\ q.holdsCred /\ q.pc = "sent" => q.cred[1] = CredOf(r, k)
  /\ q.pc \in {"recordCred", "recordStrike"} =>
       /\ Rotates(r) /\ q.cred[1] = k.current
       /\ (\A v \in Requests : Fixed[v] = None) => q.next \notin k.cooling

(* The transport's safety: the retry counters stay within their budgets,   *)
(* both rings are led by one request at a time, and a request holds a gate *)
(* only on the way the finally clauses cover, and acts there on what it    *)
(* saw under that gate. *)
TransportInv ==
  /\ TypeOK /\ GatesAreHeld
  /\ \A r \in Requests : Phase(req[r]) /\ Due(r, req[r], cred)

(* The gates a request may be suspended at, by a claim or by the waits at  *)
(* its entry. *)
AwaitsUrl(r) == req[r].pc \in {"enter", "entryUrl", "claimUrl", "waitUrl"}
AwaitsCred(r) == req[r].pc \in {"entryCred", "claimCred", "waitCred", "strike"}

(* Two gates are taken one inside the other, in one order only: a request  *)
(* that holds the credential gate waits for nothing, also when the answer  *)
(* to a retry makes it turn to the URL, and one that holds the URL gate    *)
(* waits at most for the credential gate.  So behind every blocked gate    *)
(* there is a holder that is not itself stuck behind it: the Admin page,   *)
(* or a request at an upstream call, a delay or a recorder. *)
NobodyWaitsInACircle ==
  /\ \A r \in Requests : req[r].holdsCred => ~AwaitsUrl(r) /\ ~AwaitsCred(r)
  /\ \A r \in Requests : req[r].holdsUrl => ~AwaitsUrl(r)
  /\ Blocked(cred.gate) =>
       manual # None \/ \E r \in Requests : req[r].holdsCred /\ ~AwaitsUrl(r) /\ ~AwaitsCred(r)
  /\ Blocked(url.gate) /\ ~Blocked(cred.gate) =>
       \E r \in Requests : req[r].holdsUrl /\ ~AwaitsUrl(r)

(* "Only six consecutive 502 responses cool that URL": whoever cools a URL *)
(* because of a 502 from it used up its retries there, also when the       *)
(* credential failover of a 503 came in between. *)
UrlCoolsAfterBudget ==
  [][\A u \in url'.cooling \ url.cooling : \E r \in Requests :
       /\ req[r].url[1] = u /\ req'[r].status # "ok"
       /\ req'[r].status = "502" =>
            req[r].pc = "sent" /\ req[r].at = "urlRetry" /\ req[r].left = 0]_vars

(* What may cool a credential: the last retry of its gate's holder, the    *)
(* last strike of the selection cycle that opened the stream, or a 503 for *)
(* a request whose credential is not rotated. *)
CredentialCoolsForCause ==
  [][\A c \in cred'.cooling \ cred.cooling : \E r \in Requests :
       /\ req[r].cred[1] = c
       /\ \/ req[r].holdsCred /\ req[r].at = "credRetry" /\ req[r].left = 0
          \/ req[r].pc = "strike" /\ req[r].cred = Observe(cred)
          \/ req[r].pc = "sent" /\ req'[r].status = "503" /\ ~Rotates(r)]_vars

(* An automatic rotation turns away from the very credential whose failure *)
(* it acts on, never from one the Admin selected in the meantime, and      *)
(* turns to one that is not cooling.  (A model-group view pinned to that   *)
(* one may cool it during the recording: it does not take the gate.)       *)
RotationLeavesWhatFailed ==
  [][cred'.current # cred.current /\ manual = None =>
       \E r \in Requests :
         /\ req[r].holdsCred /\ req[r].cred[1] = cred.current
         /\ cred'.current = req[r].next
         /\ (\A v \in Requests : Fixed[v] = None) => cred'.current \notin cred'.cooling]_vars

(* Every request ends once the upstream stops failing: nobody waits for a  *)
(* gate whose holder is gone, or for a holder who waits for the other gate.*)
EveryRequestEnds == <>(\A r \in Requests : req[r].pc \in Final)
=============================================================================
