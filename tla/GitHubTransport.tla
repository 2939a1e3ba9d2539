--------------------------- MODULE GitHubTransport ---------------------------
(***************************************************************************)
(* One GitHubClient and the token it authenticates with (client.py,        *)
(* auth.py), shared by every coroutine of the daemon: the passes, the API  *)
(* and the commands.  A call takes its token and its cached copy once,     *)
(* then tries up to MaxAttempts times, while GitHub's own state changes,   *)
(* answers get lost and the token ages.                                    *)
(*                                                                         *)
(* On GitHub's side there is one listing, of which only the version        *)
(* counts (an ETag stands for its version), and one runner name, of which  *)
(* at most one registration is there at a time.  A clock that says how     *)
(* long each token has left takes the place of the dates.                  *)
(***************************************************************************)
EXTENDS Integers

CONSTANTS
  Tasks,        (* the coroutines                                          *)
  Methods,      (* Methods[t]: the calls a coroutine makes                 *)
  Lifetime,     (* how long GitHub honours an installation token           *)
  Margin,       (* REFRESH_MARGIN                                          *)
  Skew,         (* how far the host's clock may be from GitHub's           *)
  MaxAttempts,  (* max_attempts                                            *)
  AttemptTime,  (* bound on an attempt, with the backoff before the next   *)
  MaxVersion,   (* bound on the changes of the listing                     *)
  MaxIds,       (* bound on the registrations                              *)
  MaxFaults     (* bound on lost or failed exchanges and revocations       *)

(* How long an attempt takes is nobody's promise: httpx times each of its  *)
(* phases, and any request_timeout loads.                                  *)
ASSUME TransportAssumption ==
  /\ Methods \in [Tasks -> SUBSET {"GET", "POST", "DELETE", "LOGS"}]
  /\ Lifetime \in Nat /\ Margin \in Nat /\ Skew \in Nat
  /\ MaxAttempts \in Nat \ {0} /\ AttemptTime \in Nat
  /\ MaxVersion \in Nat /\ MaxIds \in Nat /\ MaxFaults \in Nat
  /\ Margin < Lifetime

VARIABLES
  (* GitHub *)
  version,    (* of the listing                                            *)
  last,       (* the id given to the last registration of the name         *)
  live,       (* that registration is there                                *)
  visible,    (* the token may see the target                              *)
  faults,     (* failures so far                                           *)
  (* the client *)
  installed,  (* GitHubAppTokenProvider._installation_id is known          *)
  token,      (* _current                                                  *)
  lock,       (* _lock: the task that holds it, if any                     *)
  cache,      (* _cache, for the listing                                   *)
  posted,     (* create_jit_registration was called for the name           *)
  (* per task *)
  pc,
  call,       (* its request                                               *)
  reply,      (* the response to its last attempt                          *)
  result      (* what it returns or raises                                 *)

server == <<version, last, live, visible>>
shared == <<installed, token, lock>>
vars == <<server, faults, shared, cache, posted, pc, call, reply, result>>

AllMethods == {"GET", "POST", "DELETE", "LOGS"}

NoCopy == -1
Versions == 0..MaxVersion

(* No response at all: httpx.HTTPError.                                    *)
NoResponse == 0
Retryable == {NoResponse, 503}
Refusals == {401, 403, 404, 409, 429}
Statuses == {200, 201, 204, 302, 304} \cup Retryable \cup Refusals

(* What was never minted is due.                                           *)
NoToken == [real |-> 0, believed |-> 0, revoked |-> FALSE]

(* copy, life and revoked are those of the token the call goes with; held, *)
(* since, made and cut are history: how long ago it took that token, or    *)
(* asked for it; the version when a GET began, the registration it made,   *)
(* and whether one of its exchanges failed.                                *)
NoCall == [method |-> "GET", id |-> 0, attempt |-> 0, age |-> 0, held |-> 0, life |-> 0,
           revoked |-> FALSE, copy |-> NoCopy, since |-> 0, made |-> 0, cut |-> FALSE]

NoReply == [status |-> NoResponse, body |-> 0]
NoResult == [kind |-> "none", body |-> 0]

Init ==
  /\ version = 0
  /\ last \in 0..(IF MaxIds = 0 THEN 0 ELSE 1)
  /\ live = (last = 1)
  /\ visible = TRUE
  /\ faults = 0
  /\ installed \in BOOLEAN
  /\ token = NoToken
  /\ lock = {}
  /\ cache = NoCopy
  /\ posted = FALSE
  /\ pc = [t \in Tasks |-> "idle"]
  /\ call = [t \in Tasks |-> NoCall]
  /\ reply = [t \in Tasks |-> NoReply]
  /\ result = [t \in Tasks |-> NoResult]

-----------------------------------------------------------------------------
(* A call's record, from the request to the result.                        *)

Less(n) == IF n = 0 THEN 0 ELSE n - 1

Asked(method, id) == [NoCall EXCEPT !.method = method, !.id = id,
                                    !.since = IF method = "GET" THEN version ELSE 0]

(* The token and the copy it sets out with.                                *)
Equipped(c, k, copy) == [c EXCEPT !.attempt = 1, !.age = 0, !.life = k.real,
                                  !.revoked = k.revoked, !.copy = copy]

(* An exchange begins; time passes under it; it is made again.             *)
Timed(c) == [c EXCEPT !.age = 0, !.held = 0]
Older(c) == [c EXCEPT !.age = @ + 1, !.held = @ + 1, !.life = Less(@)]
Retried(c) == [c EXCEPT !.attempt = @ + 1, !.age = 0, !.cut = TRUE]

(* What GitHub makes of it, and of its token.                              *)
Making(c, id) == [c EXCEPT !.made = id]
Rejected(c, revoked) == [c EXCEPT !.revoked = revoked]

(* What the call was given is given up.                                    *)
Spent(c, cut) == [c EXCEPT !.attempt = 0, !.age = 0, !.held = 0, !.life = 0,
                           !.revoked = FALSE, !.copy = NoCopy, !.cut = cut]

-----------------------------------------------------------------------------
Works == UNCHANGED faults
Fails == faults < MaxFaults /\ faults' = faults + 1

Goes(t, to) == pc' = [pc EXCEPT ![t] = to]

(* The call is over, and its response goes with it.                        *)
Leaves(t, kind, body, cut) ==
  /\ Goes(t, "done")
  /\ result' = [result EXCEPT ![t] = [kind |-> kind, body |-> body]]
  /\ call' = [call EXCEPT ![t] = Spent(@, cut)]
  /\ reply' = [reply EXCEPT ![t] = NoReply]

Ends(t, kind, body) == Leaves(t, kind, body, call[t].cut)

-----------------------------------------------------------------------------
(* The token (auth.py).                                                    *)

(* As a bug would have it: used up to the last moment.                     *)
DueAtExpiry(k) == k.believed = 0

Due(k) == k.believed <= Margin

Begin(t, method) ==
  /\ pc[t] = "idle"
  /\ method = "POST" => ~posted /\ last < MaxIds
  /\ posted' = (posted \/ method = "POST")
  /\ \E id \in (IF method = "DELETE" THEN 1..last ELSE {0}) :
       call' = [call EXCEPT ![t] = Asked(method, id)]
  /\ Goes(t, "waiting")
  /\ UNCHANGED <<server, faults, shared, cache, reply, result>>

(* token() returns k, and _request looks the copy up: nothing is awaited   *)
(* in between.                                                             *)
Sends(t, k) ==
  /\ call' = [call EXCEPT ![t] =
                Equipped(@, k, IF call[t].method = "GET" THEN cache ELSE NoCopy)]
  /\ Goes(t, "sent")
  /\ UNCHANGED <<reply, result>>

UseToken(t) ==
  /\ pc[t] = "waiting"
  /\ lock = {}
  /\ ~Due(token)
  /\ Sends(t, token)
  /\ UNCHANGED <<server, faults, shared, cache, posted>>

(* As a bug would have it: without the lock.                               *)
MintAtOnce(t) ==
  /\ pc[t] = "waiting"
  /\ Due(token)
  /\ lock' = {t}
  /\ Goes(t, IF installed THEN "minting" ELSE "discovering")
  /\ call' = [call EXCEPT ![t] = Timed(@)]
  /\ UNCHANGED <<server, faults, installed, token, cache, posted, reply, result>>

TakeLock(t) ==
  /\ pc[t] = "waiting"
  /\ lock = {}
  /\ Due(token)
  /\ lock' = {t}
  /\ Goes(t, IF installed THEN "minting" ELSE "discovering")
  /\ call' = [call EXCEPT ![t] = Timed(@)]
  /\ UNCHANGED <<server, faults, installed, token, cache, posted, reply, result>>

(* _discover, kept for the process whatever becomes of the minting.        *)
Discovered(t) ==
  /\ pc[t] = "discovering"
  /\ installed' = TRUE
  /\ Goes(t, "minting")
  /\ call' = [call EXCEPT ![t] = Timed(@)]
  /\ UNCHANGED <<server, faults, token, lock, cache, posted, reply, result>>

(* A response without a readable date is taken to mean "due at once".      *)
Expiries(real) == {Margin} \cup (real - Skew)..(real + Skew)

Minted(t) ==
  /\ pc[t] = "minting"
  /\ \E spent \in 0..call[t].age \cap 0..Lifetime : \E believed \in Expiries(Lifetime - spent) \cap Nat :
       token' = [real |-> Lifetime - spent, believed |-> believed, revoked |-> FALSE]
  /\ lock' = {}
  /\ Sends(t, token')
  /\ UNCHANGED <<server, faults, installed, cache, posted>>

(* Refused or unreachable: one attempt, and the lock is let go of.         *)
MintFails(t) ==
  /\ pc[t] \in {"discovering", "minting"}
  /\ Fails
  /\ lock' = {}
  /\ Ends(t, "Error", 0)
  /\ UNCHANGED <<server, installed, token, cache, posted>>

-----------------------------------------------------------------------------
(* GitHub.                                                                 *)

Dead(c) == c.life = 0 \/ c.revoked

There(id) == live /\ id = last

(* The call takes effect, and this is the answer to it.                    *)
Handles(t, status, body) ==
  \/ /\ call[t].method = "GET"
     /\ status = IF call[t].copy = version THEN 304 ELSE 200
     /\ body = version
     /\ UNCHANGED <<last, live, call>>
  \/ /\ call[t].method = "LOGS"
     /\ status \in {200, 302, 404}
     /\ body = 0
     /\ UNCHANGED <<last, live, call>>
  \/ /\ call[t].method = "DELETE"
     /\ status = IF There(call[t].id) THEN 204 ELSE 404
     /\ body = 0
     /\ live' = (live /\ ~There(call[t].id))
     /\ UNCHANGED <<last, call>>
  \/ /\ call[t].method = "POST"
     /\ ~live /\ last < MaxIds
     /\ status = 201
     /\ body = last + 1
     /\ last' = last + 1
     /\ live' = TRUE
     /\ call' = [call EXCEPT ![t] = Making(@, last + 1)]
  \/ /\ call[t].method = "POST"
     /\ live \/ last >= MaxIds
     /\ status = 409
     /\ body = 0
     /\ UNCHANGED <<last, live, call>>

Bodies == Versions \cup 1..MaxIds

Answers(t, status, body) == reply' = [reply EXCEPT ![t] = [status |-> status, body |-> body]]

Refuses(t, status) == Answers(t, status, 0) /\ UNCHANGED <<last, live, call>>

(* GitHub answers 404 for what a token may not see.  The answer does not   *)
(* come, or is a 5xx, though the call took effect; or the call is refused  *)
(* before it does.                                                         *)
Serve(t) ==
  /\ pc[t] = "sent"
  /\ Goes(t, "answered")
  /\ \/ Dead(call[t]) /\ Refuses(t, 401) /\ Works
     \/ ~Dead(call[t]) /\ ~visible /\ Refuses(t, 404) /\ Works
     \/ /\ ~Dead(call[t])
        /\ visible
        /\ \E status \in Statuses, body \in Bodies :
             /\ Handles(t, status, body)
             /\ \/ Answers(t, status, body) /\ Works
                \/ (\E s \in Retryable : Answers(t, s, 0)) /\ Fails
     \/ \E s \in Retryable \cup {403, 429} : Refuses(t, s) /\ Fails
  /\ UNCHANGED <<version, visible, shared, cache, posted, result>>

Change ==
  /\ version < MaxVersion
  /\ version' = version + 1
  /\ UNCHANGED <<last, live, visible, faults, shared, cache, posted, pc, call, reply, result>>

(* A runner is done, and its registration goes.                            *)
Vanish ==
  /\ live
  /\ live' = FALSE
  /\ UNCHANGED <<version, last, visible, faults, shared, cache, posted, pc, call, reply, result>>

(* The app loses the repository.                                           *)
Hide ==
  /\ visible
  /\ Fails
  /\ visible' = FALSE
  /\ UNCHANGED <<version, last, live, shared, cache, posted, pc, call, reply, result>>

(* The app's tokens are revoked, all of them.                              *)
Revoke ==
  /\ token # NoToken
  /\ ~token.revoked
  /\ Fails
  /\ token' = [token EXCEPT !.revoked = TRUE]
  /\ call' = [t \in Tasks |-> Rejected(call[t], pc[t] \in {"sent", "answered"})]
  /\ UNCHANGED <<server, installed, lock, cache, posted, pc, reply, result>>

AtWork == {t \in Tasks : pc[t] \in {"discovering", "minting", "sent", "answered"}}

(* Time passes for everybody.                                              *)
Tick ==
  /\ \A t \in AtWork : call[t].age < AttemptTime
  /\ token' = [token EXCEPT !.real = Less(@), !.believed = Less(@)]
  /\ call' = [t \in Tasks |-> IF t \in AtWork THEN Older(call[t]) ELSE call[t]]
  /\ UNCHANGED <<server, faults, installed, lock, cache, posted, pc, reply, result>>

-----------------------------------------------------------------------------
(* _request, once the response is there.                                   *)

Answered(t, statuses) == pc[t] = "answered" /\ reply[t].status \in statuses

Again(t) ==
  /\ Answered(t, Retryable)
  /\ call[t].method # "LOGS"
  /\ call[t].attempt < MaxAttempts
  /\ call' = [call EXCEPT ![t] = Retried(@)]
  /\ Goes(t, "sent")
  /\ reply' = [reply EXCEPT ![t] = NoReply]
  /\ UNCHANGED <<server, faults, shared, cache, posted, result>>

GiveUp(t) ==
  /\ Answered(t, Retryable)
  /\ call[t].method = "LOGS" \/ call[t].attempt = MaxAttempts
  /\ Leaves(t, "Error", 0, TRUE)
  /\ UNCHANGED <<server, faults, shared, cache, posted>>

(* As a bug would have it: the copy there is by now.                       *)
NewestCopy(t) ==
  /\ Answered(t, {304})
  /\ Ends(t, "ok", cache)
  /\ UNCHANGED <<server, faults, shared, cache, posted>>

(* 304: the copy the call set out with.                                    *)
NotModified(t) ==
  /\ Answered(t, {304})
  /\ Ends(t, "ok", call[t].copy)
  /\ UNCHANGED <<server, faults, shared, cache, posted>>

(* _translate.  A 401 or 403 that says when to come back, and every 429,   *)
(* is "RateLimited".                                                       *)
Raised(status) ==
  CASE status = 401 -> {"TokenRejected", "RateLimited"}
    [] status = 403 -> {"Permission", "RateLimited"}
    [] status = 404 -> {"NotFound"}
    [] status = 429 -> {"RateLimited"}
    [] OTHER        -> {"Error"}

(* As a bug would have it: any error of a DELETE is taken for "gone".      *)
AnyErrorIsGone(t) == call[t].method = "DELETE"

(* delete_runner and job_logs take a 404 for an answer.                    *)
NothingThere(t) == reply[t].status = 404 /\ call[t].method \in {"DELETE", "LOGS"}

Refused(t) ==
  /\ Answered(t, Refusals)
  /\ IF NothingThere(t)
       THEN Ends(t, "ok", 0)
       ELSE \E kind \in Raised(reply[t].status) : Ends(t, kind, 0)
  /\ UNCHANGED <<server, faults, shared, cache, posted>>

Success == {200, 201, 204}

(* A GET that is answered with an ETag is kept.                            *)
Succeed(t) ==
  /\ Answered(t, Success)
  /\ cache' \in IF call[t].method = "GET" THEN {cache, reply[t].body} ELSE {cache}
  /\ Ends(t, "ok", reply[t].body)
  /\ UNCHANGED <<server, faults, shared, posted>>

(* A body that cannot be decoded, or that lacks the runner's id.           *)
Garbled(t) ==
  /\ Answered(t, {200, 201})
  /\ Fails
  /\ Leaves(t, "Error", 0, TRUE)
  /\ UNCHANGED <<server, shared, cache, posted>>

(* job_logs follows the link with a client that carries no token.          *)
Download(t) ==
  /\ Answered(t, {302})
  /\ \/ Ends(t, "ok", 0) /\ Works
     \/ Ends(t, "Error", 0) /\ Fails
  /\ UNCHANGED <<server, shared, cache, posted>>

Return(t) ==
  /\ pc[t] = "done"
  /\ Goes(t, "idle")
  /\ call' = [call EXCEPT ![t] = NoCall]
  /\ result' = [result EXCEPT ![t] = NoResult]
  /\ UNCHANGED <<server, faults, shared, cache, posted, reply>>

-----------------------------------------------------------------------------

Arrive(t) ==
  \/ Again(t) \/ GiveUp(t) \/ NotModified(t) \/ Refused(t)
  \/ Succeed(t) \/ Garbled(t) \/ Download(t)

Proceed(t) == Discovered(t) \/ Minted(t) \/ MintFails(t) \/ Serve(t) \/ Arrive(t) \/ Return(t)

Acquire(t) == UseToken(t) \/ TakeLock(t)

Next ==
  \/ \E t \in Tasks : Proceed(t) \/ Acquire(t) \/ \E m \in Methods[t] : Begin(t, m)
  \/ Change \/ Vanish \/ Hide \/ Revoke \/ Tick

Spec == Init /\ [][Next]_vars

-----------------------------------------------------------------------------

Tokens == [real : Nat, believed : Nat, revoked : BOOLEAN]

Calls == [method : AllMethods, id : Nat, attempt : 0..MaxAttempts, age : Nat, held : Nat,
          life : Nat, revoked : BOOLEAN, copy : Int, since : Nat, made : Nat, cut : BOOLEAN]

Replies == [status : Statuses, body : Int]

Kinds == {"none", "ok", "Error", "TokenRejected", "Permission", "RateLimited", "NotFound"}

TypeOK ==
  /\ version \in Versions
  /\ last \in Nat
  /\ live \in BOOLEAN
  /\ visible \in BOOLEAN
  /\ faults \in 0..MaxFaults
  /\ installed \in BOOLEAN
  /\ token \in Tokens
  /\ lock \subseteq Tasks
  /\ cache \in Versions \cup {NoCopy}
  /\ posted \in BOOLEAN
  /\ pc \in [Tasks -> {"idle", "waiting", "discovering", "minting", "sent", "answered", "done"}]
  /\ call \in [Tasks -> Calls]
  /\ reply \in [Tasks -> Replies]
  /\ result \in [Tasks -> [kind : Kinds, body : Int]]

(* GitHub rejects a token only if it was revoked, or if the call has gone  *)
(* with it for longer than the margin it is refreshed by, less what the    *)
(* clocks differ: nobody sets out with a token that is about to expire,    *)
(* whoever minted it and however old it is (auth.py's REFRESH_MARGIN).     *)
TokensLastTheMargin ==
  \A t \in Tasks :
    pc[t] = "answered" /\ reply[t].status = 401 =>
      call[t].revoked \/ call[t].held > Margin - Skew

(* What a GET returns was GitHub's answer at some moment of the call, were *)
(* it read from the cache, and were the cache written meanwhile by a call  *)
(* that had set out earlier or later (client.py's conditional requests).   *)
AnswersAreCurrent ==
  \A t \in Tasks :
    pc[t] = "done" /\ call[t].method = "GET" /\ result[t].kind = "ok" =>
      result[t].body \in call[t].since..version

(* A delete_runner that returns leaves no registration behind, whatever    *)
(* was lost on the way, unless the token may not see it any more: a 404    *)
(* says no more than that.  retire.py closes the row on the strength of it. *)
QuietDeleteIsTrue ==
  \A t \in Tasks :
    pc[t] = "done" /\ call[t].method = "DELETE" /\ result[t].kind = "ok" =>
      ~There(call[t].id) \/ ~visible

(* A create_jit_registration that raises leaves a registration behind only *)
(* if a response to it was lost, was a 5xx or could not be read: such a    *)
(* one has no row, and only the sweep can find it.                         *)
LeaksAreLosses ==
  \A t \in Tasks :
    pc[t] = "done" /\ result[t].kind # "ok" /\ There(call[t].made) => call[t].cut

(* Nobody waits for a task that has gone: whoever holds the lock is at     *)
(* GitHub with it, whatever failed (auth.py's "async with").               *)
LockIsInUse == \A t \in lock : pc[t] \in {"discovering", "minting"}

(* Nobody throws away a token that is still good: two passes that need one *)
(* at once mint one (auth.py's lock).                                      *)
OneMints ==
  [][(\E t \in Tasks : pc[t] = "minting" /\ pc'[t] = "sent") => Due(token)]_vars

(* The caller knows what became of the registration, but for a lost answer.*)
RegistrationsAreKnown == QuietDeleteIsTrue /\ LeaksAreLosses
=============================================================================
