------------------------ MODULE GitHubTransportProofs ------------------------
(***************************************************************************)
(* GitHubTransport, for any number of coroutines, any margin short of the  *)
(* lifetime, attempts of any number and length, and any faults.            *)
(***************************************************************************)
EXTENDS GitHubTransport, TLAPS

AtGitHub(t) == pc[t] \in {"sent", "answered"}

(* What a call's token has left, with the time it has been used for, is    *)
(* more than the margin.                                                   *)
Covered(c) == c.life + c.held > Margin - Skew

CallIsCovered(t) ==
  /\ call[t].age <= call[t].held
  /\ AtGitHub(t) => Covered(call[t])

(* A token that is believed to be good for longer than the margin is good, *)
(* but for the skew.                                                       *)
BeliefIsSound == token.believed > Margin => token.real + Skew >= token.believed

(* One task has the lock, and it is at GitHub for a token that is due.     *)
LockIsSound ==
  /\ \A t \in Tasks : t \in lock <=> pc[t] \in {"discovering", "minting"}
  /\ \A t, u \in lock : t = u
  /\ lock # {} => Due(token)

RejectedWithReason(t) ==
  pc[t] = "answered" /\ reply[t].status = 401 =>
    call[t].revoked \/ call[t].held > Margin - Skew

(* What a GET is told was so once; and a 304 is about the copy the call    *)
(* set out with.                                                           *)
Told(t, method) == pc[t] = "answered" /\ call[t].method = method
Returned(t, method) == pc[t] = "done" /\ call[t].method = method /\ result[t].kind = "ok"

ReadingIsCurrent(t) ==
  /\ call[t].since <= version
  /\ Told(t, "GET") => /\ reply[t].status \notin {201, 204, 302}
                       /\ reply[t].status = 200 => reply[t].body \in call[t].since..version
                       /\ reply[t].status = 304 => call[t].copy \in call[t].since..version
  /\ Returned(t, "GET") => result[t].body \in call[t].since..version

(* A registration that is gone does not come back: the next has an id of   *)
(* its own.                                                                *)
DeletionIsTrue(t) ==
  /\ call[t].id <= last
  /\ Told(t, "DELETE") =>
       /\ reply[t].status \notin {200, 201, 302, 304}
       /\ reply[t].status \in {204, 404} => ~There(call[t].id) \/ ~visible
  /\ Returned(t, "DELETE") => ~There(call[t].id) \/ ~visible

(* Whoever made a registration has been told, or was cut off.              *)
MakerKnows(t) ==
  \/ call[t].made = 0
  \/ call[t].cut
  \/ pc[t] = "answered" /\ reply[t].status \in {201} \cup Retryable
  \/ pc[t] = "done" /\ result[t].kind = "ok"

CallIsSound(t) ==
  /\ CallIsCovered(t) /\ RejectedWithReason(t)
  /\ ReadingIsCurrent(t) /\ DeletionIsTrue(t) /\ MakerKnows(t)

TransportInv ==
  /\ TypeOK
  /\ BeliefIsSound
  /\ LockIsSound
  /\ cache <= version
  /\ live => last >= 1
  /\ \A t \in Tasks : CallIsSound(t)

-----------------------------------------------------------------------------
(* The constants are numbers.                                              *)
LEMMA Numbers ==
  /\ Lifetime \in Nat /\ Margin \in Nat /\ Skew \in Nat
  /\ MaxAttempts \in Nat /\ MaxAttempts >= 1 /\ AttemptTime \in Nat
  /\ MaxVersion \in Nat /\ MaxIds \in Nat /\ MaxFaults \in Nat
  /\ Margin < Lifetime
BY TransportAssumption

(* What a call's record holds.                                             *)
LEMMA CallIsTyped ==
  ASSUME NEW c \in Calls
  PROVE  /\ c.method \in AllMethods /\ c.id \in Nat
         /\ c.attempt \in 0..MaxAttempts /\ c.age \in Nat
         /\ c.held \in Nat /\ c.life \in Nat /\ c.revoked \in BOOLEAN /\ c.copy \in Int
         /\ c.since \in Nat /\ c.made \in Nat /\ c.cut \in BOOLEAN
BY DEF Calls

(* No time is less than none.                                              *)
LEMMA LessIsLess ==
  ASSUME NEW n \in Nat
  PROVE  Less(n) \in Nat /\ Less(n) <= n /\ (n > 0 => Less(n) = n - 1)
BY DEF Less

(* The records a call goes through.                                        *)
LEMMA NoCallIsTyped ==
  /\ NoCall \in Calls
  /\ NoCall.method = "GET" /\ NoCall.id = 0 /\ NoCall.since = 0 /\ NoCall.age = 0
  /\ NoCall.held = 0 /\ NoCall.made = 0 /\ NoCall.cut = FALSE
<1>1. /\ "GET" \in AllMethods /\ 0 \in Nat /\ 0 \in 0..MaxAttempts
      /\ FALSE \in BOOLEAN /\ NoCopy \in Int
  BY Numbers DEF AllMethods, NoCopy
<1> QED BY <1>1 DEF NoCall, Calls

(* What a call begins with is a task.                                      *)
LEMMA AskedIsTyped ==
  ASSUME NEW method \in AllMethods, NEW id \in Nat, version \in Nat
  PROVE  LET c == Asked(method, id) IN
         /\ c \in Calls
         /\ c.method = method /\ c.id = id /\ c.since \in {0, version} /\ c.age = 0
         /\ c.held = 0 /\ c.made = 0 /\ c.cut = FALSE
BY NoCallIsTyped DEF Asked, Calls

(* A call that has its token is a task.                                    *)
LEMMA EquippedIsTyped ==
  ASSUME NEW c \in Calls, NEW k \in Tokens, NEW copy \in Int
  PROVE  LET d == Equipped(c, k, copy) IN
         /\ d \in Calls
         /\ d.method = c.method /\ d.id = c.id /\ d.since = c.since
         /\ d.made = c.made /\ d.cut = c.cut
         /\ d.attempt = 1 /\ d.age = 0 /\ d.held = c.held /\ d.life = k.real /\ d.revoked = k.revoked
         /\ d.copy = copy
<1>1. 1 \in 0..MaxAttempts /\ 0 \in Nat /\ k.real \in Nat /\ k.revoked \in BOOLEAN
  BY Numbers DEF Tokens
<1> QED BY <1>1 DEF Equipped, Calls

(* A call that is sent and timed is a task.                                *)
LEMMA TimedIsTyped ==
  ASSUME NEW c \in Calls
  PROVE  LET d == Timed(c) IN
         /\ d \in Calls
         /\ d.method = c.method /\ d.id = c.id /\ d.since = c.since
         /\ d.made = c.made /\ d.cut = c.cut /\ d.age = 0 /\ d.held = 0
BY DEF Timed, Calls

(* A call on its way ages into a task.                                     *)
LEMMA OlderIsTyped ==
  ASSUME NEW c \in Calls
  PROVE  LET d == Older(c) IN
         /\ d \in Calls
         /\ d.method = c.method /\ d.id = c.id /\ d.since = c.since
         /\ d.made = c.made /\ d.cut = c.cut
         /\ d.attempt = c.attempt /\ d.age = c.age + 1 /\ d.held = c.held + 1
         /\ d.life = Less(c.life) /\ d.revoked = c.revoked /\ d.copy = c.copy
<1>1. c.age + 1 \in Nat /\ c.held + 1 \in Nat /\ Less(c.life) \in Nat
  BY CallIsTyped, LessIsLess
<1> HIDE DEF Less
<1> QED BY <1>1 DEF Older, Calls

(* A call made again is a task.                                            *)
LEMMA RetriedIsTyped ==
  ASSUME NEW c \in Calls, c.attempt < MaxAttempts
  PROVE  LET d == Retried(c) IN
         /\ d \in Calls
         /\ d.method = c.method /\ d.id = c.id /\ d.since = c.since
         /\ d.made = c.made /\ d.cut = TRUE
         /\ d.attempt = c.attempt + 1 /\ d.age = 0 /\ d.held = c.held /\ d.life = c.life
         /\ d.revoked = c.revoked /\ d.copy = c.copy
<1>1. c.attempt + 1 \in 0..MaxAttempts /\ 0 \in Nat /\ TRUE \in BOOLEAN
  BY CallIsTyped, Numbers
<1> QED BY <1>1 DEF Retried, Calls

(* A call on its way to GitHub is a task.                                  *)
LEMMA MakingIsTyped ==
  ASSUME NEW c \in Calls, NEW id \in Nat
  PROVE  LET d == Making(c, id) IN
         /\ d \in Calls
         /\ d.method = c.method /\ d.id = c.id /\ d.since = c.since
         /\ d.made = id /\ d.cut = c.cut
         /\ d.attempt = c.attempt /\ d.age = c.age /\ d.held = c.held /\ d.life = c.life
         /\ d.revoked = c.revoked /\ d.copy = c.copy
BY DEF Making, Calls

(* A call told its token is no good is a task.                             *)
LEMMA RejectedIsTyped ==
  ASSUME NEW c \in Calls, NEW revoked \in BOOLEAN
  PROVE  LET d == Rejected(c, revoked) IN
         /\ d \in Calls
         /\ d.method = c.method /\ d.id = c.id /\ d.since = c.since
         /\ d.made = c.made /\ d.cut = c.cut
         /\ d.attempt = c.attempt /\ d.age = c.age /\ d.held = c.held /\ d.life = c.life
         /\ d.revoked = revoked /\ d.copy = c.copy
BY DEF Rejected, Calls

(* A call that used up its attempts is a task.                             *)
LEMMA SpentIsTyped ==
  ASSUME NEW c \in Calls, NEW cut \in BOOLEAN
  PROVE  LET d == Spent(c, cut) IN
         /\ d \in Calls
         /\ d.method = c.method /\ d.id = c.id /\ d.since = c.since
         /\ d.made = c.made /\ d.cut = cut /\ d.age = 0 /\ d.held = 0
<1>1. 0 \in 0..MaxAttempts /\ 0 \in Nat /\ FALSE \in BOOLEAN /\ NoCopy \in Int
  BY Numbers DEF NoCopy
<1> QED BY <1>1 DEF Spent, Calls

-----------------------------------------------------------------------------
(* What the steps of a task do to its call, and to the others'.            *)

Positions == {"idle", "waiting", "discovering", "minting", "sent", "answered", "done"}
Results == [kind : Kinds, body : Int]

(* The other tasks stay where they are.                                    *)
Alone(t) ==
  \A u \in Tasks \ {t} : /\ pc'[u] = pc[u] /\ call'[u] = call[u]
                         /\ reply'[u] = reply[u] /\ result'[u] = result[u]

TasksAreTyped ==
  /\ pc \in [Tasks -> Positions] /\ call \in [Tasks -> Calls]
  /\ reply \in [Tasks -> Replies] /\ result \in [Tasks -> Results]

(* The part of the type invariant that is about calls.                     *)
LEMMA TypesOfTasks == TypeOK => TasksAreTyped
BY DEF TypeOK, TasksAreTyped, Positions, Results

(* Nothing heard, and nothing returned, are a reply and a result.          *)
LEMMA EmptyReplyIsTyped == NoReply \in Replies /\ NoResult \in Results
BY DEF NoReply, Replies, Statuses, NoResponse, Retryable, NoResult, Results, Kinds

(* A call that is over.                                                    *)
LEMMA Leaving ==
  ASSUME TypeOK, NEW t \in Tasks, NEW kind \in Kinds, NEW body \in Int, NEW cut \in BOOLEAN,
         Leaves(t, kind, body, cut)
  PROVE  /\ TasksAreTyped' /\ Alone(t)
         /\ pc'[t] = "done" /\ result'[t].kind = kind /\ result'[t].body = body
         /\ call'[t] = Spent(call[t], cut)
<1>1. Spent(call[t], cut) \in Calls
  BY SpentIsTyped DEF TypeOK
<1>2. [kind |-> kind, body |-> body] \in Results /\ "done" \in Positions
  BY DEF Results, Positions
<1>3. TasksAreTyped /\ NoReply \in Replies
  BY TypesOfTasks, EmptyReplyIsTyped
<1>4. pc' \in [Tasks -> Positions] /\ pc'[t] = "done" /\ \A u \in Tasks \ {t} : pc'[u] = pc[u]
  BY <1>2, <1>3 DEF Leaves, Goes, TasksAreTyped
<1>5. /\ call' \in [Tasks -> Calls] /\ call'[t] = Spent(call[t], cut)
      /\ \A u \in Tasks \ {t} : call'[u] = call[u]
  BY <1>1, <1>3 DEF Leaves, TasksAreTyped
<1>6. reply' \in [Tasks -> Replies] /\ \A u \in Tasks \ {t} : reply'[u] = reply[u]
  BY <1>3 DEF Leaves, TasksAreTyped
<1>7. /\ result' \in [Tasks -> Results] /\ result'[t] = [kind |-> kind, body |-> body]
      /\ \A u \in Tasks \ {t} : result'[u] = result[u]
  BY <1>2, <1>3 DEF Leaves, TasksAreTyped
<1> QED BY <1>4, <1>5, <1>6, <1>7 DEF TasksAreTyped, Alone

(* A call that sets out, with a token and a copy.                          *)
LEMMA Sending ==
  ASSUME TypeOK, NEW t \in Tasks, NEW k \in Tokens, Sends(t, k)
  PROVE  /\ TasksAreTyped' /\ Alone(t)
         /\ pc'[t] = "sent" /\ reply'[t] = reply[t] /\ result'[t] = result[t]
         /\ \E copy \in Int : call'[t] = Equipped(call[t], k, copy)
<1> DEFINE copy == IF call[t].method = "GET" THEN cache ELSE NoCopy
<1>1. copy \in Int
  BY Numbers DEF TypeOK, Versions, NoCopy
<1>2. call' = [call EXCEPT ![t] = Equipped(call[t], k, copy)]
  BY DEF Sends, TypeOK
<1> HIDE DEF copy
<1>3. TasksAreTyped /\ call[t] \in Calls /\ reply[t] \in Replies /\ result[t] \in Results
  BY TypesOfTasks DEF TasksAreTyped
<1>4. Equipped(call[t], k, copy) \in Calls
  BY <1>1, <1>3, EquippedIsTyped
<1>5. pc' \in [Tasks -> Positions] /\ pc'[t] = "sent" /\ \A u \in Tasks \ {t} : pc'[u] = pc[u]
  BY <1>3 DEF Sends, Goes, TasksAreTyped, Positions
<1>6. /\ call' \in [Tasks -> Calls] /\ call'[t] = Equipped(call[t], k, copy)
      /\ \A u \in Tasks \ {t} : call'[u] = call[u]
  BY <1>2, <1>3, <1>4 DEF TasksAreTyped
<1> QED BY <1>1, <1>3, <1>5, <1>6 DEF Sends, TasksAreTyped, Alone

(* A call that is on its way to a token.                                   *)
LEMMA Timing ==
  ASSUME TypeOK, NEW t \in Tasks, NEW s \in Positions, Goes(t, s),
         call' = [call EXCEPT ![t] = Timed(@)], UNCHANGED <<reply, result>>
  PROVE  /\ TasksAreTyped' /\ Alone(t)
         /\ pc'[t] = s /\ call'[t] = Timed(call[t])
         /\ reply'[t] = reply[t] /\ result'[t] = result[t]
<1>1. TasksAreTyped /\ call[t] \in Calls /\ reply[t] \in Replies /\ result[t] \in Results
  BY TypesOfTasks DEF TasksAreTyped
<1>2. Timed(call[t]) \in Calls
  BY <1>1, TimedIsTyped
<1>3. pc' \in [Tasks -> Positions] /\ pc'[t] = s /\ \A u \in Tasks \ {t} : pc'[u] = pc[u]
  BY <1>1 DEF Goes, TasksAreTyped
<1>4. /\ call' \in [Tasks -> Calls] /\ call'[t] = Timed(call[t])
      /\ \A u \in Tasks \ {t} : call'[u] = call[u]
  BY <1>1, <1>2 DEF TasksAreTyped
<1> QED BY <1>1, <1>3, <1>4 DEF TasksAreTyped, Alone

(* What a task is told when its call, or its loss, has been handled.       *)
Hears(t, status, body) ==
  /\ TasksAreTyped' /\ Alone(t)
  /\ pc'[t] = "answered" /\ result'[t] = result[t]
  /\ reply'[t].status = status /\ reply'[t].body = body

(* A call that is answered has the answer; the others have what they had.  *)
LEMMA Hearing ==
  ASSUME TypeOK, NEW t \in Tasks, NEW c \in Calls, NEW status \in Statuses, NEW body \in Int,
         Goes(t, "answered"), Answers(t, status, body), UNCHANGED result,
         call' = [call EXCEPT ![t] = c] \/ (c = call[t] /\ UNCHANGED call)
  PROVE  Hears(t, status, body) /\ call'[t] = c
<1>1. TasksAreTyped /\ result[t] \in Results
  BY TypesOfTasks DEF TasksAreTyped
<1>2. [status |-> status, body |-> body] \in Replies
  BY DEF Replies
<1>3. pc' \in [Tasks -> Positions] /\ pc'[t] = "answered"
      /\ \A u \in Tasks \ {t} : pc'[u] = pc[u]
  BY <1>1 DEF Goes, TasksAreTyped, Positions
<1>4. /\ call' \in [Tasks -> Calls] /\ call'[t] = c
      /\ \A u \in Tasks \ {t} : call'[u] = call[u]
  BY <1>1 DEF TasksAreTyped
<1>5. /\ reply' \in [Tasks -> Replies] /\ reply'[t] = [status |-> status, body |-> body]
      /\ \A u \in Tasks \ {t} : reply'[u] = reply[u]
  BY <1>1, <1>2 DEF Answers, TasksAreTyped
<1> QED BY <1>1, <1>3, <1>4, <1>5 DEF Hears, TasksAreTyped, Alone

(* The call took effect, and the task was told so or cut off.              *)
Handled(t, status, body) ==
  /\ Handles(t, status, body)
  /\ Hears(t, status, body) \/ \E s \in Retryable : Hears(t, s, 0)
  /\ \/ call'[t] = call[t] /\ UNCHANGED call
     \/ /\ call[t].method = "POST" /\ status = 201 /\ ~live
        /\ last' = last + 1 /\ live' = TRUE
        /\ call'[t] = Making(call[t], last + 1)

(* Either the call was not handled, or it was: told so, or cut off.        *)
LEMMA Serving ==
  ASSUME TypeOK, NEW t \in Tasks, Serve(t)
  PROVE  \/ /\ Hears(t, 401, 0) /\ Dead(call[t])
            /\ UNCHANGED <<last, live>> /\ call'[t] = call[t]
         \/ /\ Hears(t, 404, 0) /\ ~visible
            /\ UNCHANGED <<last, live>> /\ call'[t] = call[t]
         \/ /\ \E s \in Retryable \cup {403, 429} : Hears(t, s, 0)
            /\ UNCHANGED <<last, live>> /\ call'[t] = call[t]
         \/ \E status \in Statuses, body \in Int : Handled(t, status, body)
<1>1. Bodies \subseteq Int /\ call[t] \in Calls /\ last + 1 \in Nat
  BY Numbers DEF Bodies, Versions, TypeOK
<1>2. Retryable \subseteq Statuses /\ {401, 403, 404, 429} \subseteq Statuses
  BY DEF Statuses, Refusals
<1>3. Goes(t, "answered") /\ UNCHANGED result
  BY DEF Serve
<1>4. ASSUME NEW s \in Statuses, Refuses(t, s)
      PROVE  Hears(t, s, 0) /\ UNCHANGED <<last, live>> /\ call'[t] = call[t]
  <2>1. Answers(t, s, 0) /\ UNCHANGED <<last, live, call>>
    BY <1>4 DEF Refuses
  <2>2. Hears(t, s, 0)
    BY <1>1, <1>3, <2>1, Hearing
  <2> QED BY <2>1, <2>2
<1>5. ASSUME NEW status \in Statuses, NEW body \in Bodies, Handles(t, status, body)
      PROVE  \/ UNCHANGED call
             \/ /\ call[t].method = "POST" /\ status = 201 /\ ~live
                /\ last' = last + 1 /\ live' = TRUE
                /\ call' = [call EXCEPT ![t] = Making(call[t], last + 1)]
  BY <1>5 DEF Handles, TypeOK
<1>6. Making(call[t], last + 1) \in Calls
  BY <1>1, MakingIsTyped
<1>7. ASSUME NEW status \in Statuses, NEW body \in Bodies, Handles(t, status, body),
             Answers(t, status, body) \/ \E s \in Retryable : Answers(t, s, 0)
      PROVE  Handled(t, status, body)
  <2>1. PICK s \in Statuses, b \in Int : /\ Answers(t, s, b)
                                         /\ (s = status /\ b = body) \/ (s \in Retryable /\ b = 0)
    BY <1>1, <1>2, <1>7
  <2>2. CASE UNCHANGED call
    <3>1. Hears(t, s, b) /\ call'[t] = call[t]
      BY <1>1, <1>3, <2>1, <2>2, Hearing
    <3> QED BY <1>7, <2>1, <2>2, <3>1 DEF Handled
  <2>3. CASE ~UNCHANGED call
    <3>1. /\ call[t].method = "POST" /\ status = 201 /\ ~live
          /\ last' = last + 1 /\ live' = TRUE
          /\ call' = [call EXCEPT ![t] = Making(call[t], last + 1)]
      BY <1>5, <1>7, <2>3
    <3> DEFINE c == Making(call[t], last + 1)
    <3>2. call' = [call EXCEPT ![t] = c] /\ c \in Calls
      BY <1>6, <3>1
    <3>3. call'[t] = c
      BY <1>1, <3>2 DEF TypeOK
    <3> HIDE DEF c
    <3>4. Hears(t, s, b)
      BY <1>3, <2>1, <3>2, Hearing
    <3>5. Hears(t, status, body) \/ \E q \in Retryable : Hears(t, q, 0)
      BY <2>1, <3>4
    <3> QED BY <1>7, <3>1, <3>3, <3>5 DEF c, Handled
  <2> QED BY <2>2, <2>3
<1>8. CASE Refuses(t, 401) /\ Dead(call[t])
  BY <1>2, <1>4, <1>8
<1>9. CASE Refuses(t, 404) /\ ~visible
  BY <1>2, <1>4, <1>9
<1>10. CASE \E s \in Retryable \cup {403, 429} : Refuses(t, s)
  BY <1>2, <1>4, <1>10
<1>11. CASE \E status \in Statuses, body \in Bodies :
              /\ Handles(t, status, body)
              /\ Answers(t, status, body) \/ \E s \in Retryable : Answers(t, s, 0)
  BY <1>1, <1>7, <1>11
<1> QED BY <1>8, <1>9, <1>10, <1>11 DEF Serve

-----------------------------------------------------------------------------
(* A call is as sound after a step as before.                              *)

(* What GitHub's side never takes back.                                    *)
Onward ==
  /\ version \in Nat /\ version' \in Nat /\ version <= version'
  /\ last \in Nat /\ last' \in Nat /\ last <= last'
  /\ visible' => visible
  /\ \A id \in Nat : id <= last /\ There(id)' => There(id)

(* What GitHub does on its own account contradicts nobody who is waiting.  *)
LEMMA WorldGoesOn ==
  ASSUME TypeOK, [Next]_vars
  PROVE  Onward
<1>1. version \in Nat /\ last \in Nat
  BY Numbers DEF TypeOK, Versions
<1>2. CASE UNCHANGED server
  BY <1>1, <1>2 DEF server, Onward, There
<1>3. ASSUME NEW t \in Tasks, Serve(t) PROVE Onward
  <2>1. UNCHANGED <<version, visible>>
    BY <1>3 DEF Serve
  <2>2. CASE UNCHANGED <<last, live>>
    BY <1>1, <2>1, <2>2 DEF Onward, There
  <2>3. CASE \E status \in Statuses, body \in Int : Handled(t, status, body)
    <3>1. PICK status \in Statuses, body \in Int : Handles(t, status, body)
      BY <2>3 DEF Handled
    <3>2. last' \in Nat /\ last <= last'
      BY <1>1, <3>1 DEF Handles
    <3>3. ASSUME NEW id \in Nat, id <= last, There(id)' PROVE There(id)
      <4>1. live' = TRUE /\ id = last'
        BY <3>3 DEF There
      <4>2. last' = last
        <5>1. last' \in {last, last + 1}
          BY <3>1 DEF Handles
        <5> QED BY <1>1, <3>3, <4>1, <5>1
      <4>3. CASE UNCHANGED live
        BY <4>1, <4>2, <4>3 DEF There
      <4>4. CASE live' = (live /\ ~There(call[t].id))
        BY <4>1, <4>2, <4>4, Zenon DEF There
      <4>5. CASE last' = last + 1
        BY <1>1, <4>2, <4>5
      <4> QED BY <3>1, <4>3, <4>4, <4>5 DEF Handles
    <3> QED BY <1>1, <2>1, <3>2, <3>3 DEF Onward
  <2> QED BY <1>3, <2>2, <2>3, Serving
<1>4. CASE Change \/ Vanish \/ Hide
  BY <1>1, <1>4 DEF Change, Vanish, Hide, Onward, There
<1>5. ASSUME NEW t \in Tasks, Arrive(t) PROVE UNCHANGED server
  BY <1>5 DEF Arrive, Again, GiveUp, NotModified, Refused, Succeed, Garbled, Download
<1>6. ASSUME NEW t \in Tasks, Proceed(t), ~Serve(t), ~Arrive(t) PROVE UNCHANGED server
  BY <1>6 DEF Proceed, Discovered, Minted, MintFails, Return
<1>7. ASSUME NEW t \in Tasks, Acquire(t) \/ \E m \in Methods[t] : Begin(t, m)
      PROVE  UNCHANGED server
  BY <1>7 DEF Acquire, UseToken, TakeLock, Begin
<1>8. CASE Revoke \/ Tick
  BY <1>8, <1>2 DEF Revoke, Tick
<1>9. CASE UNCHANGED vars
  BY <1>9, <1>2 DEF vars
<1> QED BY <1>2, <1>3, <1>4, <1>5, <1>6, <1>7, <1>8, <1>9 DEF Next

(* A token runs out under a call only after the margin.                    *)
LEMMA TokensOutliveTheMargin ==
  ASSUME TransportInv, NEW t \in Tasks, AtGitHub(t), call[t].life = 0
  PROVE  call[t].held > Margin - Skew
<1>1. Covered(call[t]) /\ call[t] \in Calls
  BY DEF TransportInv, CallIsSound, CallIsCovered, TypeOK
<1> QED BY <1>1, CallIsTyped, Numbers DEF Covered

(* What happens elsewhere leaves a call sound.                             *)
LEMMA SoundAside ==
  ASSUME TransportInv, Onward, NEW t \in Tasks,
         pc'[t] = pc[t], call'[t] = call[t], reply'[t] = reply[t], result'[t] = result[t]
  PROVE  CallIsSound(t)'
<1>1. /\ call[t].since \in Nat /\ call[t].id \in Nat /\ CallIsSound(t)
      /\ reply[t].body \in Int /\ result[t].body \in Int /\ call[t].copy \in Int
  BY CallIsTyped DEF TransportInv, TypeOK, Replies
<1>2. CallIsCovered(t)' /\ RejectedWithReason(t)' /\ MakerKnows(t)'
  BY <1>1 DEF CallIsSound, CallIsCovered, Covered, AtGitHub, RejectedWithReason, MakerKnows
<1>3. ReadingIsCurrent(t)'
  BY <1>1 DEF CallIsSound, Onward, ReadingIsCurrent, Told, Returned
<1>4. DeletionIsTrue(t)'
  BY <1>1 DEF CallIsSound, Onward, DeletionIsTrue, Told, Returned
<1> QED BY <1>2, <1>3, <1>4 DEF CallIsSound

(* A call that has no token yet.                                           *)
LEMMA SoundBeforehand ==
  ASSUME Onward, NEW t \in Tasks,
         pc'[t] \in {"idle", "waiting", "discovering", "minting"},
         call'[t].age = 0, call'[t].held = 0,
         call'[t].since <= version', call'[t].id <= last',
         call'[t].made = 0 \/ call'[t].cut
  PROVE  CallIsSound(t)'
BY Numbers DEF CallIsSound, CallIsCovered, AtGitHub, RejectedWithReason, MakerKnows,
   ReadingIsCurrent, DeletionIsTrue, Told, Returned

(* A call that is sent, with a token that is good.                         *)
LEMMA SoundAtSending ==
  ASSUME Onward, NEW t \in Tasks, pc'[t] = "sent",
         call'[t].age = 0, call'[t].held \in Nat, Covered(call'[t]),
         call'[t].since <= version', call'[t].id <= last',
         call'[t].made = 0 \/ call'[t].cut
  PROVE  CallIsSound(t)'
BY Numbers DEF CallIsSound, CallIsCovered, Covered, AtGitHub, RejectedWithReason, MakerKnows,
   ReadingIsCurrent, DeletionIsTrue, Told, Returned

(* A call that has returned or raised.                                     *)
LEMMA SoundAtLast ==
  ASSUME TransportInv, Onward, UNCHANGED server, NEW t \in Tasks,
         NEW kind \in Kinds, NEW body \in Int, NEW cut \in BOOLEAN, Leaves(t, kind, body, cut),
         call[t].cut => cut,
         kind = "ok" /\ call[t].method = "GET" => body \in call[t].since..version,
         kind = "ok" /\ call[t].method = "DELETE" => ~There(call[t].id) \/ ~visible,
         kind # "ok" => call[t].made = 0 \/ cut
  PROVE  CallIsSound(t)'
<1>1. /\ TypeOK /\ call[t] \in Calls /\ CallIsSound(t)
      /\ version' = version /\ last' = last /\ live' = live /\ visible' = visible
  BY DEF TransportInv, TypeOK, server
<1>2. pc'[t] = "done" /\ result'[t].kind = kind /\ result'[t].body = body
      /\ call'[t] = Spent(call[t], cut)
  BY <1>1, Leaving
<1>3. /\ call'[t].method = call[t].method /\ call'[t].id = call[t].id
      /\ call'[t].since = call[t].since /\ call'[t].made = call[t].made
      /\ call'[t].cut = cut /\ call'[t].age = 0 /\ call'[t].held = 0
  BY <1>1, <1>2, SpentIsTyped
<1>4. CallIsCovered(t)' /\ RejectedWithReason(t)'
  BY <1>2, <1>3, Numbers DEF CallIsCovered, AtGitHub, RejectedWithReason
<1>5. ReadingIsCurrent(t)'
  BY <1>1, <1>2, <1>3 DEF CallIsSound, ReadingIsCurrent, Told, Returned
<1>6. DeletionIsTrue(t)'
  BY <1>1, <1>2, <1>3 DEF CallIsSound, DeletionIsTrue, Told, Returned, There
<1>7. MakerKnows(t)'
  BY <1>2, <1>3 DEF MakerKnows
<1> QED BY <1>4, <1>5, <1>6, <1>7 DEF CallIsSound

(* What GitHub says of a call, if it says anything, is so.                 *)
Tells(t, status, body) ==
  /\ Hears(t, status, body)
  /\ \/ call'[t] = call[t]
     \/ call'[t] = Making(call[t], last + 1) /\ status \in {201} \cup Retryable
  /\ status = 401 => Dead(call[t])
  /\ call[t].method = "GET" =>
       /\ status \notin {201, 204, 302}
       /\ status = 200 => body = version
       /\ status = 304 => call[t].copy = version
  /\ call[t].method = "DELETE" =>
       /\ status \notin {200, 201, 302, 304}
       /\ status \in {204, 404} => ~There(call[t].id)' \/ ~visible

(* What GitHub answers is true at that moment.                             *)
LEMMA ServedTruly ==
  ASSUME TypeOK, NEW t \in Tasks, Serve(t)
  PROVE  \E status \in Statuses, body \in Int : Tells(t, status, body)
<1>1. {401, 403, 404, 429} \subseteq Statuses /\ Retryable \subseteq Statuses
  BY DEF Statuses, Refusals
<1>2. ASSUME Hears(t, 401, 0), Dead(call[t]), call'[t] = call[t] PROVE Tells(t, 401, 0)
  BY <1>2 DEF Tells
<1>3. ASSUME Hears(t, 404, 0), ~visible, call'[t] = call[t] PROVE Tells(t, 404, 0)
  BY <1>3 DEF Tells
<1>4. ASSUME NEW s \in Retryable \cup {403, 429}, Hears(t, s, 0), call'[t] = call[t]
      PROVE  Tells(t, s, 0)
  BY <1>4 DEF Tells, Retryable, NoResponse
<1>5. ASSUME NEW status \in Statuses, NEW body \in Int, Handled(t, status, body)
      PROVE  \E s \in Statuses, b \in Int : Tells(t, s, b)
  <2>1. Handles(t, status, body)
    BY <1>5 DEF Handled
  <2>2. \/ call'[t] = call[t]
        \/ call'[t] = Making(call[t], last + 1) /\ status = 201
    BY <1>5 DEF Handled
  <2>3. ASSUME Hears(t, status, body) PROVE Tells(t, status, body)
    <3>1. status # 401
      BY <2>1 DEF Handles
    <3>2. call[t].method = "GET" =>
            /\ status \notin {201, 204, 302}
            /\ status = 200 => body = version
            /\ status = 304 => call[t].copy = version
      BY <2>1 DEF Handles
    <3>3. ASSUME call[t].method = "DELETE"
          PROVE  status \in {204, 404} /\ ~There(call[t].id)'
      <4>1. /\ status = IF There(call[t].id) THEN 204 ELSE 404
            /\ live' = (live /\ ~There(call[t].id)) /\ UNCHANGED <<last, call>>
        BY <2>1, <3>3 DEF Handles
      <4>2. status \in {204, 404}
        BY <4>1
      <4>3. ASSUME There(call[t].id)' PROVE FALSE
        <5>1. live' /\ call[t].id = last
          BY <4>1, <4>3 DEF There
        <5>2. live /\ ~There(call[t].id)
          BY <4>1, <5>1, Zenon
        <5> QED BY <5>1, <5>2 DEF There
      <4> QED BY <4>2, <4>3
    <3> QED BY <2>2, <2>3, <3>1, <3>2, <3>3 DEF Tells
  <2>4. ASSUME NEW s \in Retryable, Hears(t, s, 0) PROVE Tells(t, s, 0)
    BY <2>2, <2>4 DEF Tells, Retryable, NoResponse
  <2> QED BY <1>1, <1>5, <2>3, <2>4 DEF Handled
<1> QED BY <1>1, <1>2, <1>3, <1>4, <1>5, Serving

(* A call that GitHub has answered, or seems not to have.                  *)
LEMMA SoundOnceServed ==
  ASSUME TransportInv, Onward, NEW t \in Tasks, Serve(t)
  PROVE  CallIsSound(t)'
<1>0. /\ TypeOK /\ call[t] \in Calls /\ CallIsSound(t) /\ pc[t] = "sent"
      /\ version' = version /\ visible' = visible /\ last + 1 \in Nat
  BY DEF TransportInv, TypeOK, Serve
<1>1. /\ call[t].since \in Nat /\ call[t].id \in Nat /\ call[t].id <= last
      /\ call[t].since <= version /\ version \in Nat
  BY <1>0, CallIsTyped, Numbers DEF CallIsSound, ReadingIsCurrent, DeletionIsTrue, TypeOK, Versions
<1>2. PICK status \in Statuses, body \in Int : Tells(t, status, body)
  BY <1>0, ServedTruly
<1>3. /\ pc'[t] = "answered" /\ result'[t] = result[t]
      /\ reply'[t].status = status /\ reply'[t].body = body
  BY <1>2 DEF Tells, Hears
<1>4. /\ call'[t].method = call[t].method /\ call'[t].id = call[t].id
      /\ call'[t].since = call[t].since /\ call'[t].cut = call[t].cut
      /\ call'[t].attempt = call[t].attempt
      /\ call'[t].age = call[t].age /\ call'[t].held = call[t].held
      /\ call'[t].life = call[t].life /\ call'[t].revoked = call[t].revoked
      /\ call'[t].copy = call[t].copy
  <2>1. CASE call'[t] = call[t]
    BY <2>1
  <2>2. CASE call'[t] = Making(call[t], last + 1)
    BY <1>0, <2>2, MakingIsTyped
  <2> QED BY <1>2, <2>1, <2>2 DEF Tells
<1>5. CallIsCovered(t)'
  BY <1>0, <1>3, <1>4 DEF CallIsSound, CallIsCovered, Covered, AtGitHub
<1>6. RejectedWithReason(t)'
  <2>1. call[t].life = 0 => call[t].held > Margin - Skew
    BY <1>0, TokensOutliveTheMargin DEF AtGitHub
  <2> QED BY <1>2, <1>3, <1>4, <2>1 DEF Tells, RejectedWithReason, Dead
<1>7. ReadingIsCurrent(t)'
  BY <1>0, <1>1, <1>2, <1>3, <1>4 DEF Tells, ReadingIsCurrent, Told, Returned
<1>8. DeletionIsTrue(t)'
  BY <1>0, <1>1, <1>2, <1>3, <1>4 DEF Tells, DeletionIsTrue, Told, Returned, Onward, There
<1>9. MakerKnows(t)'
  <2>1. CASE call'[t] = call[t]
    BY <1>0, <2>1, <1>3 DEF CallIsSound, MakerKnows
  <2>2. CASE status \in {201} \cup Retryable
    BY <1>3, <2>2 DEF MakerKnows
  <2> QED BY <1>2, <2>1, <2>2 DEF Tells
<1> QED BY <1>5, <1>6, <1>7, <1>8, <1>9 DEF CallIsSound

-----------------------------------------------------------------------------
(* Every step leaves the calls typed and sound.                            *)

(* What a step of t owes.                                                  *)
CallGoesOn(t) == TasksAreTyped' /\ Alone(t) /\ CallIsSound(t)'

(* What the invariant says of one call, to be cited.                       *)
LEMMA CallFacts ==
  ASSUME TransportInv, NEW t \in Tasks
  PROVE  /\ TypeOK /\ TasksAreTyped /\ CallIsSound(t)
         /\ call[t] \in Calls /\ reply[t] \in Replies
         /\ call[t].since <= version /\ call[t].id <= last
         /\ call[t].age \in Nat /\ call[t].held \in Nat /\ call[t].age <= call[t].held
         /\ pc[t] \in {"waiting", "discovering", "minting", "sent"} =>
              call[t].made = 0 \/ call[t].cut
BY TypesOfTasks, CallIsTyped
DEF TransportInv, TypeOK, CallIsSound, CallIsCovered, ReadingIsCurrent, DeletionIsTrue, MakerKnows

(* A call that takes the lock, or that has found its installation, is sound. *)
LEMMA CallGoesOnBeforehand ==
  ASSUME TransportInv, Onward, NEW t \in Tasks,
         TakeLock(t) \/ Discovered(t)
  PROVE  CallGoesOn(t)
<1>1. /\ TypeOK /\ call[t] \in Calls /\ call[t].since <= version /\ call[t].id <= last
      /\ call[t].made = 0 \/ call[t].cut
  BY CallFacts DEF TakeLock, Discovered
<1>2. PICK s \in {"discovering", "minting"} :
        /\ Goes(t, s) /\ call' = [call EXCEPT ![t] = Timed(@)] /\ UNCHANGED <<reply, result>>
  BY DEF TakeLock, Discovered
<1>3. s \in Positions
  BY DEF Positions
<1>4. TasksAreTyped' /\ Alone(t) /\ pc'[t] = s /\ call'[t] = Timed(call[t])
  BY <1>1, <1>2, <1>3, Timing
<1>5. UNCHANGED <<version, last>>
  BY DEF TakeLock, Discovered, server
<1>6. /\ call'[t].since = call[t].since /\ call'[t].id = call[t].id
      /\ call'[t].made = call[t].made /\ call'[t].cut = call[t].cut
      /\ call'[t].age = 0 /\ call'[t].held = 0
  BY <1>1, <1>4, TimedIsTyped
<1>7. CallIsSound(t)'
  BY <1>1, <1>2, <1>4, <1>5, <1>6, SoundBeforehand
<1> QED BY <1>4, <1>7 DEF CallGoesOn

(* A call that begins is sound.                                            *)
LEMMA CallGoesOnAtBeginning ==
  ASSUME TransportInv, Onward, NEW t \in Tasks,
         Return(t) \/ \E m \in Methods[t] : Begin(t, m)
  PROVE  CallGoesOn(t)
<1>1. TypeOK /\ TasksAreTyped /\ version \in Nat /\ last \in Nat
  BY CallFacts DEF Onward
<1>2. UNCHANGED <<version, last, reply>>
  BY DEF Return, Begin, server
<1>3. PICK c \in Calls, s \in {"idle", "waiting"} :
        /\ Goes(t, s) /\ call' = [call EXCEPT ![t] = c]
        /\ c.age = 0 /\ c.held = 0 /\ c.since <= version /\ c.id <= last /\ c.made = 0
  <2>1. CASE Return(t)
    <3>1. Goes(t, "idle") /\ call' = [call EXCEPT ![t] = NoCall]
      BY <2>1 DEF Return
    <3>2. NoCall \in Calls /\ NoCall.age = 0 /\ NoCall.held = 0
          /\ NoCall.since <= version /\ NoCall.id <= last /\ NoCall.made = 0
      BY <1>1, NoCallIsTyped
    <3> QED BY <3>1, <3>2, Zenon
  <2>2. CASE \E m \in Methods[t] : Begin(t, m)
    <3>1. PICK m \in Methods[t] : Begin(t, m)
      BY <2>2
    <3>2. PICK id \in (IF m = "DELETE" THEN 1..last ELSE {0}) :
            call' = [call EXCEPT ![t] = Asked(m, id)]
      BY <3>1 DEF Begin
    <3>3. id \in Nat /\ id <= last /\ m \in AllMethods
      BY <1>1, <3>2, TransportAssumption DEF AllMethods
    <3>4. /\ Asked(m, id) \in Calls /\ Asked(m, id).age = 0 /\ Asked(m, id).held = 0
          /\ Asked(m, id).since \in {0, version}
          /\ Asked(m, id).id = id /\ Asked(m, id).made = 0
      BY <1>1, <3>3, AskedIsTyped, ZenonT(20)
    <3>5. Goes(t, "waiting")
      BY <3>1 DEF Begin
    <3>6. Asked(m, id).since <= version /\ Asked(m, id).id <= last
      BY <1>1, <3>3, <3>4
    <3> QED BY <3>2, <3>4, <3>5, <3>6, Zenon
  <2> QED BY <2>1, <2>2
<1>4. /\ pc' \in [Tasks -> Positions] /\ pc'[t] = s
      /\ \A u \in Tasks \ {t} : pc'[u] = pc[u]
  BY <1>1, <1>3 DEF Goes, TasksAreTyped, Positions
<1>5. call' \in [Tasks -> Calls] /\ call'[t] = c /\ \A u \in Tasks \ {t} : call'[u] = call[u]
  BY <1>1, <1>3 DEF TasksAreTyped
<1>6. result' \in [Tasks -> Results] /\ \A u \in Tasks \ {t} : result'[u] = result[u]
  BY <1>1, EmptyReplyIsTyped DEF Return, Begin, TasksAreTyped
<1>7. CallIsSound(t)'
  BY <1>1, <1>2, <1>3, <1>4, <1>5, SoundBeforehand
<1> QED BY <1>1, <1>2, <1>4, <1>5, <1>6, <1>7 DEF CallGoesOn, TasksAreTyped, Alone

(* Whatever token it sets out with is good for longer than the margin.     *)
LEMMA CallGoesOnAtSending ==
  ASSUME TransportInv, Onward, NEW t \in Tasks, NEW k \in Tokens, Sends(t, k),
         pc[t] \in {"waiting", "minting"}, UNCHANGED server,
         k.real + call[t].held > Margin - Skew
  PROVE  CallGoesOn(t)
<1>1. /\ TypeOK /\ call[t] \in Calls /\ call[t].since <= version /\ call[t].id <= last
      /\ call[t].made = 0 \/ call[t].cut
  BY CallFacts
<1>2. PICK copy \in Int : call'[t] = Equipped(call[t], k, copy)
  BY <1>1, Sending
<1>3. TasksAreTyped' /\ Alone(t) /\ pc'[t] = "sent"
  BY <1>1, Sending
<1>4. /\ call'[t].since = call[t].since /\ call'[t].id = call[t].id
      /\ call'[t].made = call[t].made /\ call'[t].cut = call[t].cut
      /\ call'[t].age = 0 /\ call'[t].held = call[t].held /\ call'[t].life = k.real
  BY <1>1, <1>2, EquippedIsTyped
<1>5. Covered(call'[t]) /\ call'[t].held \in Nat
  BY <1>1, <1>4, CallIsTyped DEF Covered
<1>6. CallIsSound(t)'
  BY <1>1, <1>3, <1>4, <1>5, SoundAtSending DEF server
<1> QED BY <1>3, <1>6 DEF CallGoesOn

(* A call that takes the cached token is sound.                            *)
LEMMA CallGoesOnWithToken ==
  ASSUME TransportInv, Onward, NEW t \in Tasks, UseToken(t)
  PROVE  CallGoesOn(t)
<1>1. /\ pc[t] = "waiting" /\ Sends(t, token) /\ UNCHANGED server
      /\ ~(token.believed <= Margin)
  BY DEF UseToken, Due
<1>2. token \in Tokens /\ token.believed \in Nat /\ token.real \in Nat
  BY DEF TransportInv, TypeOK, Tokens
<1>3. token.real + Skew >= token.believed
  BY <1>1, <1>2, Numbers DEF TransportInv, BeliefIsSound
<1>4. token.real + call[t].held > Margin - Skew
  BY <1>1, <1>2, <1>3, CallFacts, Numbers
<1> QED BY <1>1, <1>2, <1>4, CallGoesOnAtSending

(* What a minted token is.                                                 *)
LEMMA MintedIsGood ==
  ASSUME TransportInv, NEW t \in Tasks, Minted(t)
  PROVE  /\ token' \in Tokens /\ token'.real + call[t].held >= Lifetime /\ ~token'.revoked
         /\ BeliefIsSound'
<1>1. PICK spent \in 0..call[t].age \cap 0..Lifetime : \E believed \in Expiries(Lifetime - spent) \cap Nat :
        token' = [real |-> Lifetime - spent, believed |-> believed, revoked |-> FALSE]
  BY DEF Minted
<1>2. PICK believed \in Expiries(Lifetime - spent) \cap Nat :
        token' = [real |-> Lifetime - spent, believed |-> believed, revoked |-> FALSE]
  BY <1>1
<1>3. spent \in Nat /\ spent <= call[t].held /\ call[t].held \in Nat /\ spent <= Lifetime
  BY <1>1, CallFacts, Numbers
<1>4. Lifetime - spent + call[t].held >= Lifetime /\ Lifetime - spent \in Nat
  BY <1>3, Numbers
<1>5. token' \in Tokens
  BY <1>2, <1>4 DEF Tokens
<1>6. token'.believed > Margin => token'.real + Skew >= token'.believed
  BY <1>2, <1>4, Numbers DEF Expiries
<1> QED BY <1>2, <1>4, <1>5, <1>6 DEF BeliefIsSound

(* A call that mints a token is sound.                                     *)
LEMMA CallGoesOnWithMint ==
  ASSUME TransportInv, Onward, NEW t \in Tasks, Minted(t)
  PROVE  CallGoesOn(t)
<1>1. Sends(t, token') /\ pc[t] = "minting" /\ UNCHANGED server
  BY DEF Minted
<1>2. token' \in Tokens /\ token'.real + call[t].held >= Lifetime
  BY MintedIsGood
<1>3. token'.real + call[t].held > Margin - Skew
  BY <1>2, CallFacts, Numbers DEF Tokens
<1> QED BY <1>1, <1>2, <1>3, CallGoesOnAtSending

(* The next attempt goes with the token of the last.                       *)
LEMMA CallGoesOnAgain ==
  ASSUME TransportInv, Onward, NEW t \in Tasks, Again(t)
  PROVE  CallGoesOn(t)
<1> DEFINE c == call[t]
<1>1. /\ TypeOK /\ TasksAreTyped /\ c \in Calls /\ c.since <= version /\ c.id <= last
      /\ c.held \in Nat /\ CallIsSound(t)
  BY CallFacts
<1>2. /\ pc[t] = "answered" /\ c.attempt < MaxAttempts
      /\ call' = [call EXCEPT ![t] = Retried(c)] /\ Goes(t, "sent")
      /\ reply' = [reply EXCEPT ![t] = NoReply] /\ UNCHANGED <<version, last, result>>
  BY <1>1 DEF Again, Answered, server, TypeOK
<1>3. Covered(c)
  BY <1>1, <1>2 DEF CallIsSound, CallIsCovered, AtGitHub
<1>4. c.life \in Nat
  BY <1>1, CallIsTyped
<1> HIDE DEF c
<1>5. /\ Retried(c) \in Calls /\ Retried(c).since = c.since /\ Retried(c).id = c.id
      /\ Retried(c).cut = TRUE /\ Retried(c).attempt = c.attempt + 1
      /\ Retried(c).age = 0 /\ Retried(c).held = c.held /\ Retried(c).life = c.life
  BY <1>1, <1>2, RetriedIsTyped
<1>6. Covered(Retried(c)) /\ Retried(c).held \in Nat
  BY <1>1, <1>3, <1>5 DEF Covered
<1>7. /\ pc' \in [Tasks -> Positions] /\ pc'[t] = "sent"
      /\ \A u \in Tasks \ {t} : pc'[u] = pc[u]
  BY <1>1, <1>2 DEF Goes, TasksAreTyped, Positions
<1>8. /\ call' \in [Tasks -> Calls] /\ call'[t] = Retried(c)
      /\ \A u \in Tasks \ {t} : call'[u] = call[u]
  BY <1>1, <1>2, <1>5 DEF TasksAreTyped
<1>9. reply' \in [Tasks -> Replies] /\ \A u \in Tasks \ {t} : reply'[u] = reply[u]
  BY <1>1, <1>2, EmptyReplyIsTyped DEF TasksAreTyped
<1>10. CallIsSound(t)'
  BY <1>1, <1>2, <1>4, <1>5, <1>6, <1>7, <1>8, SoundAtSending
<1> QED BY <1>1, <1>2, <1>7, <1>8, <1>9, <1>10 DEF CallGoesOn, TasksAreTyped, Alone

(* The ways a call is over.                                                *)
LEMMA CallGoesOnWhenOver ==
  ASSUME TransportInv, Onward, NEW t \in Tasks, UNCHANGED server,
         NEW kind \in Kinds, NEW body \in Int, NEW cut \in BOOLEAN, Leaves(t, kind, body, cut),
         call[t].cut => cut,
         kind = "ok" /\ call[t].method = "GET" => body \in call[t].since..version,
         kind = "ok" /\ call[t].method = "DELETE" => ~There(call[t].id) \/ ~visible,
         kind # "ok" => call[t].made = 0 \/ cut
  PROVE  CallGoesOn(t)
<1>1. CallIsSound(t)'
  BY SoundAtLast
<1>2. TypeOK
  BY CallFacts
<1>3. TasksAreTyped' /\ Alone(t)
  BY <1>2, Leaving
<1> QED BY <1>1, <1>3 DEF CallGoesOn

(* What a task that has been answered may rely on.                         *)
LEMMA AnswerFacts ==
  ASSUME TransportInv, NEW t \in Tasks, pc[t] = "answered"
  PROVE  /\ reply[t].body \in Int /\ call[t].copy \in Int /\ call[t].cut \in BOOLEAN
         /\ call[t].method = "GET" =>
              /\ reply[t].status \notin {201, 204, 302}
              /\ reply[t].status = 200 => reply[t].body \in call[t].since..version
              /\ reply[t].status = 304 => call[t].copy \in call[t].since..version
         /\ call[t].method = "DELETE" =>
              /\ reply[t].status \notin {200, 201, 302, 304}
              /\ reply[t].status \in {204, 404} => ~There(call[t].id) \/ ~visible
         /\ reply[t].status \notin {201} \cup Retryable => call[t].made = 0 \/ call[t].cut
<1>1. CallIsSound(t) /\ call[t] \in Calls /\ reply[t] \in Replies
  BY CallFacts
<1>2. reply[t].body \in Int /\ call[t].copy \in Int /\ call[t].cut \in BOOLEAN
  BY <1>1, CallIsTyped DEF Replies
<1>3. ReadingIsCurrent(t) /\ DeletionIsTrue(t) /\ MakerKnows(t)
  BY <1>1 DEF CallIsSound
<1> QED BY <1>2, <1>3 DEF ReadingIsCurrent, DeletionIsTrue, MakerKnows, Told

(* A call whose request arrives is sound.                                  *)
LEMMA CallGoesOnArriving ==
  ASSUME TransportInv, Onward, NEW t \in Tasks, Arrive(t)
  PROVE  CallGoesOn(t)
<1>1. CASE Again(t)
  BY <1>1, CallGoesOnAgain
<1>2. CASE GiveUp(t)
  <2>1. Leaves(t, "Error", 0, TRUE) /\ UNCHANGED server /\ "Error" \in Kinds
    BY <1>2 DEF GiveUp, Kinds
  <2>2. 0 \in Int /\ "Error" # "ok" /\ TRUE \in BOOLEAN
    OBVIOUS
  <2> QED BY <2>1, <2>2, CallGoesOnWhenOver, Zenon
<1>3. CASE NotModified(t)
  <2>1. /\ pc[t] = "answered" /\ reply[t].status = 304 /\ UNCHANGED server /\ "ok" \in Kinds
        /\ Leaves(t, "ok", call[t].copy, call[t].cut)
    BY <1>3 DEF NotModified, Answered, Ends, Kinds
  <2>2. /\ call[t].copy \in Int /\ call[t].cut \in BOOLEAN
        /\ call[t].method = "GET" => call[t].copy \in call[t].since..version
        /\ call[t].method # "DELETE"
    BY <2>1, AnswerFacts
  <2> QED BY <2>1, <2>2, CallGoesOnWhenOver
<1>4. CASE Refused(t)
  <2>1. pc[t] = "answered" /\ reply[t].status \in Refusals /\ UNCHANGED server
    BY <1>4 DEF Refused, Answered
  <2>2. call[t].cut \in BOOLEAN /\ (call[t].made = 0 \/ call[t].cut)
    BY <2>1, AnswerFacts DEF Refusals, Retryable, NoResponse
  <2>3. CASE NothingThere(t)
    <3>1. Leaves(t, "ok", 0, call[t].cut) /\ "ok" \in Kinds
      BY <1>4, <2>3 DEF Refused, Ends, Kinds
    <3>2. /\ call[t].method # "GET"
          /\ call[t].method = "DELETE" => ~There(call[t].id) \/ ~visible
      BY <2>1, <2>3, AnswerFacts DEF NothingThere
    <3> QED BY <2>1, <2>2, <3>1, <3>2, CallGoesOnWhenOver
  <2>4. CASE ~NothingThere(t)
    <3>1. PICK kind \in Raised(reply[t].status) : Leaves(t, kind, 0, call[t].cut)
      BY <1>4, <2>4 DEF Refused, Ends
    <3>2. kind \in Kinds /\ kind # "ok"
      BY <3>1 DEF Raised, Kinds
    <3> QED BY <2>1, <2>2, <3>1, <3>2, CallGoesOnWhenOver
  <2> QED BY <2>3, <2>4
<1>5. CASE Succeed(t)
  <2>1. /\ pc[t] = "answered" /\ reply[t].status \in Success /\ UNCHANGED server
        /\ Leaves(t, "ok", reply[t].body, call[t].cut) /\ "ok" \in Kinds
    BY <1>5 DEF Succeed, Answered, Ends, Kinds
  <2>2. /\ reply[t].body \in Int /\ call[t].cut \in BOOLEAN
        /\ call[t].method = "GET" => reply[t].body \in call[t].since..version
        /\ call[t].method = "DELETE" => ~There(call[t].id) \/ ~visible
    BY <2>1, AnswerFacts DEF Success
  <2> QED BY <2>1, <2>2, CallGoesOnWhenOver
<1>6. CASE Garbled(t)
  <2>1. Leaves(t, "Error", 0, TRUE) /\ UNCHANGED server /\ "Error" \in Kinds
    BY <1>6 DEF Garbled, Kinds
  <2>2. 0 \in Int /\ "Error" # "ok" /\ TRUE \in BOOLEAN
    OBVIOUS
  <2> QED BY <2>1, <2>2, CallGoesOnWhenOver, Zenon
<1>7. CASE Download(t)
  <2>1. pc[t] = "answered" /\ reply[t].status = 302 /\ UNCHANGED server
    BY <1>7 DEF Download, Answered
  <2>2. PICK kind \in {"ok", "Error"} : Leaves(t, kind, 0, call[t].cut)
    BY <1>7 DEF Download, Ends
  <2>3. /\ call[t].cut \in BOOLEAN /\ call[t].method \notin {"GET", "DELETE"}
        /\ call[t].made = 0 \/ call[t].cut
    BY <2>1, AnswerFacts DEF Retryable, NoResponse
  <2>4. kind \in Kinds
    BY DEF Kinds
  <2> QED BY <2>1, <2>2, <2>3, <2>4, CallGoesOnWhenOver
<1> QED BY <1>1, <1>2, <1>3, <1>4, <1>5, <1>6, <1>7 DEF Arrive

(* A call that could not get a token is sound.                             *)
LEMMA CallGoesOnUnminted ==
  ASSUME TransportInv, Onward, NEW t \in Tasks, MintFails(t)
  PROVE  CallGoesOn(t)
<1>1. /\ Leaves(t, "Error", 0, call[t].cut) /\ UNCHANGED server /\ "Error" \in Kinds
      /\ pc[t] \in {"discovering", "minting"}
  BY DEF MintFails, Ends, Kinds
<1>2. call[t].cut \in BOOLEAN /\ (call[t].made = 0 \/ call[t].cut)
  BY <1>1, CallFacts, CallIsTyped
<1> QED BY <1>1, <1>2, CallGoesOnWhenOver

(* A call that GitHub has served is sound.                                 *)
LEMMA CallGoesOnServed ==
  ASSUME TransportInv, Onward, NEW t \in Tasks, Serve(t)
  PROVE  CallGoesOn(t)
<1>1. \E status \in Statuses, body \in Int : Tells(t, status, body)
  BY CallFacts, ServedTruly
<1>2. TasksAreTyped' /\ Alone(t)
  BY <1>1 DEF Tells, Hears
<1> QED BY <1>2, SoundOnceServed DEF CallGoesOn

(* Time passes under every call at once: as much as its token has less to  *)
(* live, the call has had it for longer.                                   *)
LEMMA CallsGrowOld ==
  ASSUME TransportInv, Onward, Tick
  PROVE  TasksAreTyped' /\ \A t \in Tasks : CallIsSound(t)'
<1>1. TasksAreTyped /\ UNCHANGED <<pc, reply, result, version, last, live, visible>>
  BY TypesOfTasks DEF TransportInv, Tick, server
<1>2. call' = [t \in Tasks |-> IF t \in AtWork THEN Older(call[t]) ELSE call[t]]
  BY DEF Tick
<1>3. ASSUME NEW t \in Tasks PROVE call[t] \in Calls /\ Older(call[t]) \in Calls
  BY <1>1, OlderIsTyped DEF TasksAreTyped
<1>4. call' \in [Tasks -> Calls]
  BY <1>2, <1>3
<1>5. ASSUME NEW t \in Tasks, t \notin AtWork PROVE CallIsSound(t)'
  BY <1>1, <1>2, <1>5, SoundAside
<1>6. ASSUME NEW t \in Tasks, t \in AtWork PROVE CallIsSound(t)'
  <2> DEFINE c == call[t]
             d == call'[t]
  <2>1. /\ CallIsSound(t) /\ c \in Calls /\ c.age \in Nat /\ c.held \in Nat
        /\ c.age <= c.held
    BY CallFacts
  <2>2. d = Older(c)
    BY <1>2, <1>6 DEF Tick
  <2>3. c.life \in Nat
    BY <2>1, CallIsTyped
  <2> HIDE DEF c, d
  <2>4. /\ d.method = c.method /\ d.id = c.id /\ d.since = c.since
        /\ d.made = c.made /\ d.cut = c.cut
        /\ d.attempt = c.attempt /\ d.age = c.age + 1 /\ d.held = c.held + 1
        /\ d.life = Less(c.life) /\ d.revoked = c.revoked /\ d.copy = c.copy
    BY <2>1, <2>2, OlderIsTyped
  <2>5. ASSUME AtGitHub(t) PROVE Covered(d)
    <3>1. Covered(c)
      BY <2>1, <2>5 DEF CallIsSound, CallIsCovered, c
    <3>2. Less(c.life) \in Nat /\ Less(c.life) + 1 >= c.life
      BY <2>3, LessIsLess
    <3> QED BY <2>1, <2>3, <2>4, <3>1, <3>2, Numbers DEF Covered
  <2>6. CallIsCovered(t)'
    BY <1>1, <2>1, <2>2, <2>4, <2>5, Numbers DEF CallIsCovered, AtGitHub, d
  <2>7. RejectedWithReason(t)' /\ MakerKnows(t)'
    BY <1>1, <2>1, <2>4, Numbers DEF CallIsSound, RejectedWithReason, MakerKnows, c, d
  <2>8. ReadingIsCurrent(t)'
    BY <1>1, <2>1, <2>4 DEF CallIsSound, ReadingIsCurrent, Told, Returned, c, d
  <2>9. DeletionIsTrue(t)'
    BY <1>1, <2>1, <2>4 DEF CallIsSound, DeletionIsTrue, Told, Returned, There, c, d
  <2> QED BY <2>6, <2>7, <2>8, <2>9 DEF CallIsSound
<1> QED BY <1>1, <1>4, <1>5, <1>6 DEF TasksAreTyped

(* GitHub rejects every call that is there from now on, and each of them   *)
(* as revoked.                                                             *)
LEMMA CallsAreRejected ==
  ASSUME TransportInv, Onward, Revoke
  PROVE  TasksAreTyped' /\ \A t \in Tasks : CallIsSound(t)'
<1>1. TasksAreTyped /\ UNCHANGED <<pc, reply, result, version, last, live, visible>>
  BY TypesOfTasks DEF TransportInv, Revoke, server
<1>2. call' = [t \in Tasks |-> Rejected(call[t], AtGitHub(t))]
  BY DEF Revoke, AtGitHub
<1>3. ASSUME NEW t \in Tasks
      PROVE  call[t] \in Calls /\ AtGitHub(t) \in BOOLEAN /\ Rejected(call[t], AtGitHub(t)) \in Calls
  <2>1. AtGitHub(t) \in BOOLEAN
    BY DEF AtGitHub
  <2> QED BY <1>1, <2>1, RejectedIsTyped DEF TasksAreTyped
<1>4. call' \in [Tasks -> Calls]
  BY <1>2, <1>3
<1>5. ASSUME NEW t \in Tasks PROVE CallIsSound(t)'
  <2> DEFINE c == call[t]
             d == call'[t]
  <2>1. CallIsSound(t) /\ c \in Calls
    BY CallFacts
  <2>2. d = Rejected(c, AtGitHub(t))
    BY <1>2
  <2> HIDE DEF c, d
  <2>3. /\ d.method = c.method /\ d.id = c.id /\ d.since = c.since
        /\ d.made = c.made /\ d.cut = c.cut
        /\ d.attempt = c.attempt /\ d.age = c.age /\ d.held = c.held /\ d.life = c.life
        /\ d.revoked = AtGitHub(t) /\ d.copy = c.copy
    BY <1>3, <2>1, <2>2, RejectedIsTyped
  <2>4. CallIsCovered(t)' /\ RejectedWithReason(t)' /\ MakerKnows(t)'
    BY <1>1, <2>1, <2>3
    DEF CallIsSound, CallIsCovered, Covered, AtGitHub, RejectedWithReason, MakerKnows, c, d
  <2>5. ReadingIsCurrent(t)'
    BY <1>1, <2>1, <2>3 DEF CallIsSound, ReadingIsCurrent, Told, Returned, c, d
  <2>6. DeletionIsTrue(t)'
    BY <1>1, <2>1, <2>3 DEF CallIsSound, DeletionIsTrue, Told, Returned, There, c, d
  <2> QED BY <2>4, <2>5, <2>6 DEF CallIsSound
<1> QED BY <1>1, <1>4, <1>5 DEF TasksAreTyped

(* Every call stays sound, whichever of them moves.                        *)
LEMMA CallsStaySound ==
  ASSUME TransportInv, Onward, [Next]_vars
  PROVE  TasksAreTyped' /\ \A t \in Tasks : CallIsSound(t)'
<1>1. ASSUME UNCHANGED <<pc, call, reply, result>>
      PROVE  TasksAreTyped' /\ \A t \in Tasks : CallIsSound(t)'
  <2>1. TasksAreTyped
    BY TypesOfTasks DEF TransportInv
  <2> QED BY <1>1, <2>1, SoundAside DEF TasksAreTyped
<1>2. ASSUME NEW t \in Tasks, CallGoesOn(t)
      PROVE  TasksAreTyped' /\ \A u \in Tasks : CallIsSound(u)'
  <2>1. ASSUME NEW u \in Tasks \ {t} PROVE CallIsSound(u)'
    BY <1>2, SoundAside DEF CallGoesOn, Alone
  <2> QED BY <1>2, <2>1 DEF CallGoesOn
<1>3. ASSUME NEW t \in Tasks, Proceed(t) PROVE CallGoesOn(t)
  <2>1. CASE Discovered(t)
    BY <2>1, CallGoesOnBeforehand
  <2>2. CASE Minted(t)
    BY <2>2, CallGoesOnWithMint
  <2>3. CASE MintFails(t)
    BY <2>3, CallGoesOnUnminted
  <2>4. CASE Serve(t)
    BY <2>4, CallGoesOnServed
  <2>5. CASE Arrive(t)
    BY <2>5, CallGoesOnArriving
  <2>6. CASE Return(t)
    BY <2>6, CallGoesOnAtBeginning
  <2> QED BY <1>3, <2>1, <2>2, <2>3, <2>4, <2>5, <2>6 DEF Proceed
<1>4. ASSUME NEW t \in Tasks, Acquire(t) PROVE CallGoesOn(t)
  <2>1. CASE UseToken(t)
    BY <2>1, CallGoesOnWithToken
  <2>2. CASE TakeLock(t)
    BY <2>2, CallGoesOnBeforehand
  <2> QED BY <1>4, <2>1, <2>2 DEF Acquire
<1>5. ASSUME NEW t \in Tasks, \E m \in Methods[t] : Begin(t, m) PROVE CallGoesOn(t)
  BY <1>5, CallGoesOnAtBeginning
<1>6. CASE Change \/ Vanish \/ Hide \/ UNCHANGED vars
  BY <1>1, <1>6 DEF Change, Vanish, Hide, vars
<1>7. CASE Revoke
  BY <1>7, CallsAreRejected
<1>8. CASE Tick
  BY <1>8, CallsGrowOld
<1>9. CASE \E t \in Tasks : Proceed(t) \/ Acquire(t) \/ \E m \in Methods[t] : Begin(t, m)
  <2>1. PICK t \in Tasks : Proceed(t) \/ Acquire(t) \/ \E m \in Methods[t] : Begin(t, m)
    BY <1>9
  <2>2. CallGoesOn(t)
    BY <1>3, <1>4, <1>5, <2>1
  <2> QED BY <1>2, <2>2
<1> QED BY <1>6, <1>7, <1>8, <1>9 DEF Next

-----------------------------------------------------------------------------
(* Every step leaves what the tasks share sound.                           *)

(* GitHub's side and the client's, but for the token and the lock.         *)
WorldIsSound ==
  /\ version \in Versions
  /\ last \in Nat
  /\ live \in BOOLEAN
  /\ visible \in BOOLEAN
  /\ faults \in 0..MaxFaults
  /\ installed \in BOOLEAN
  /\ cache \in Versions \cup {NoCopy}
  /\ posted \in BOOLEAN
  /\ cache <= version
  /\ live => last >= 1

KeysAreSound ==
  /\ token \in Tokens
  /\ lock \subseteq Tasks
  /\ BeliefIsSound
  /\ LockIsSound

(* The parts of the invariant.                                             *)
LEMMA InvHasParts ==
  TransportInv <=> /\ WorldIsSound /\ KeysAreSound /\ TasksAreTyped
                   /\ \A t \in Tasks : CallIsSound(t)
<1>1. TypeOK /\ cache <= version /\ (live => last >= 1) /\ BeliefIsSound /\ LockIsSound
        <=> WorldIsSound /\ KeysAreSound /\ TasksAreTyped
  BY Zenon DEF TypeOK, WorldIsSound, KeysAreSound, TasksAreTyped, Positions, Results
<1> QED BY <1>1, Zenon DEF TransportInv

(* There is never a fault too many.                                        *)
LEMMA FaultsAreBounded ==
  ASSUME faults \in 0..MaxFaults, Works \/ Fails
  PROVE  faults' \in 0..MaxFaults
BY Numbers DEF Works, Fails

(* What is believed of the token, the cache and the registrations stays    *)
(* sound.                                                                  *)
LEMMA WorldStaysSound ==
  ASSUME TransportInv, [Next]_vars
  PROVE  WorldIsSound'
<1>1. WorldIsSound /\ KeysAreSound
  BY InvHasParts
<1> USE DEF WorldIsSound
<1>2. CASE UNCHANGED <<server, faults, installed, cache, posted>>
  BY <1>1, <1>2 DEF server
<1>3. ASSUME NEW t \in Tasks, Proceed(t) PROVE WorldIsSound'
  <2>1. CASE Discovered(t)
    BY <1>1, <2>1 DEF Discovered, server
  <2>2. CASE Minted(t) \/ Return(t)
    BY <1>2, <2>2 DEF Minted, Return, shared
  <2>3. CASE MintFails(t)
    BY <1>1, <2>3, FaultsAreBounded DEF MintFails, server
  <2>4. CASE Serve(t)
    <3>1. UNCHANGED <<version, visible, installed, cache, posted>> /\ (Works \/ Fails)
      BY <2>4 DEF Serve, shared
    <3>2. faults' \in 0..MaxFaults
      BY <1>1, <3>1, FaultsAreBounded
    <3>3. last' \in Nat /\ live' \in BOOLEAN /\ (live' => last' >= 1)
      <4>1. CASE UNCHANGED <<last, live>>
        BY <1>1, <4>1
      <4>2. ASSUME NEW status \in Statuses, NEW body \in Int, Handles(t, status, body)
            PROVE  last' \in Nat /\ live' \in BOOLEAN /\ (live' => last' >= 1)
        <5>1. CASE UNCHANGED <<last, live>>
          BY <1>1, <5>1
        <5>2. CASE live' = (live /\ ~There(call[t].id)) /\ UNCHANGED last
          <6>1. live' \in BOOLEAN /\ (live' => live)
            BY <1>1, <5>2, Zenon
          <6> QED BY <1>1, <5>2, <6>1
        <5>3. CASE last' = last + 1 /\ live' = TRUE
          BY <1>1, <5>3
        <5> QED BY <4>2, <5>1, <5>2, <5>3 DEF Handles
      <4> QED BY <2>4, <4>1, <4>2, Serving, ZenonT(20) DEF Handled, TransportInv
    <3> QED BY <1>1, <3>1, <3>2, <3>3
  <2>5. CASE Arrive(t)
    <3>1. CASE Again(t) \/ GiveUp(t) \/ NotModified(t) \/ Refused(t)
      BY <1>2, <3>1 DEF Again, GiveUp, NotModified, Refused, shared
    <3>2. CASE Garbled(t) \/ Download(t)
      <4>1. UNCHANGED <<server, installed, cache, posted>> /\ (Works \/ Fails)
        BY <3>2 DEF Garbled, Download, shared
      <4>2. faults' \in 0..MaxFaults
        BY <1>1, <4>1, FaultsAreBounded
      <4> QED BY <1>1, <4>1, <4>2 DEF server
    <3>3. CASE Succeed(t)
      <4>1. UNCHANGED <<server, faults, installed, posted>>
        BY <3>3 DEF Succeed, shared
      <4>2. CASE call[t].method # "GET"
        BY <1>2, <3>3, <4>1, <4>2 DEF Succeed
      <4>3. CASE call[t].method = "GET"
        <5>1. /\ pc[t] = "answered" /\ reply[t].status \in Success
              /\ cache' = cache \/ cache' = reply[t].body
          BY <3>3, <4>3 DEF Succeed, Answered
        <5>0. CASE cache' = cache
          BY <1>2, <4>1, <5>0
        <5> SUFFICES ASSUME cache' = reply[t].body PROVE WorldIsSound'
          BY <5>0, <5>1
        <5>2. reply[t].body \in call[t].since..version
          BY <4>3, <5>1, AnswerFacts DEF Success
        <5>3. call[t].since \in Nat
          BY CallFacts, CallIsTyped
        <5>4. cache' \in Versions /\ cache' <= version
          BY <1>1, <5>1, <5>2, <5>3, Numbers DEF Versions
        <5> QED BY <1>1, <4>1, <5>4 DEF server
      <4> QED BY <4>2, <4>3
    <3> QED BY <2>5, <3>1, <3>2, <3>3 DEF Arrive
  <2> QED BY <1>3, <2>1, <2>2, <2>3, <2>4, <2>5 DEF Proceed
<1>4. ASSUME NEW t \in Tasks, Acquire(t) PROVE WorldIsSound'
  BY <1>2, <1>4 DEF Acquire, UseToken, TakeLock, shared
<1>5. ASSUME NEW t \in Tasks, NEW m \in Methods[t], Begin(t, m) PROVE WorldIsSound'
  <2>1. posted' = (posted \/ m = "POST") /\ UNCHANGED <<server, faults, installed, cache>>
    BY <1>5 DEF Begin, shared
  <2>2. posted' \in BOOLEAN
    BY <2>1, Zenon
  <2> QED BY <1>1, <2>1, <2>2 DEF server
<1>6. CASE Change
  BY <1>1, <1>6, Numbers DEF Change, Versions, NoCopy, shared
<1>7. CASE Vanish
  BY <1>1, <1>7 DEF Vanish, shared
<1>8. CASE Hide
  BY <1>1, <1>8, FaultsAreBounded DEF Hide, shared
<1>9. CASE Revoke
  BY <1>1, <1>9, FaultsAreBounded DEF Revoke, server
<1>10. CASE Tick \/ UNCHANGED vars
  BY <1>2, <1>10 DEF Tick, vars, shared
<1> QED BY <1>3, <1>4, <1>5, <1>6, <1>7, <1>8, <1>9, <1>10 DEF Next

(* The tasks that are at GitHub for a token.                               *)
Minters == {t \in Tasks : pc[t] \in {"discovering", "minting"}}

(* The token that is kept, and its lock, stay sound.                       *)
LEMMA KeysStaySound ==
  ASSUME TransportInv, [Next]_vars
  PROVE  KeysAreSound'
<1>1. KeysAreSound /\ TasksAreTyped
  BY InvHasParts
<1>2. ASSUME UNCHANGED <<token, lock>>,
             \A t \in Tasks : pc[t] \in {"discovering", "minting"}
                                <=> pc'[t] \in {"discovering", "minting"}
      PROVE  KeysAreSound'
  BY <1>1, <1>2 DEF KeysAreSound, BeliefIsSound, LockIsSound, Due
<1>4. ASSUME NEW t \in Tasks, Proceed(t) PROVE KeysAreSound'
  <2>1. CASE Discovered(t)
    <3>1. UNCHANGED <<token, lock>> /\ pc[t] = "discovering" /\ Goes(t, "minting")
      BY <2>1 DEF Discovered
    <3>2. pc'[t] = "minting" /\ \A u \in Tasks \ {t} : pc'[u] = pc[u]
      BY <1>1, <3>1 DEF Goes, TasksAreTyped
    <3> QED BY <1>2, <3>1, <3>2
  <2>2. ASSUME t \in Minters, lock' = {}, Goes(t, "sent") \/ Goes(t, "done")
        PROVE  LockIsSound' /\ lock' \subseteq Tasks
    <3>1. \A u \in Tasks : pc[u] \in {"discovering", "minting"} => u = t
      BY <1>1, <2>2 DEF Minters, KeysAreSound, LockIsSound
    <3>2. pc'[t] \in {"sent", "done"} /\ \A u \in Tasks \ {t} : pc'[u] = pc[u]
      BY <1>1, <2>2 DEF Goes, TasksAreTyped
    <3> QED BY <2>2, <3>1, <3>2 DEF LockIsSound
  <2>3. CASE Minted(t)
    <3>1. t \in Minters /\ lock' = {} /\ Goes(t, "sent")
      BY <2>3 DEF Minted, Sends, Minters
    <3> QED BY <2>2, <2>3, <3>1, MintedIsGood DEF KeysAreSound
  <2>4. CASE MintFails(t)
    <3>1. t \in Minters /\ lock' = {} /\ Goes(t, "done") /\ UNCHANGED token
      BY <2>4 DEF MintFails, Ends, Leaves, Minters
    <3> QED BY <1>1, <2>2, <3>1 DEF KeysAreSound, BeliefIsSound
  <2>5. ASSUME UNCHANGED <<token, lock>>, t \notin Minters,
               Goes(t, "idle") \/ Goes(t, "answered") \/ Goes(t, "sent") \/ Goes(t, "done")
        PROVE  KeysAreSound'
    <3>1. /\ pc'[t] \in {"idle", "answered", "sent", "done"}
          /\ \A u \in Tasks \ {t} : pc'[u] = pc[u]
      BY <1>1, <2>5 DEF Goes, TasksAreTyped
    <3> QED BY <1>2, <2>5, <3>1 DEF Minters
  <2>6. CASE Serve(t) \/ Return(t)
    BY <2>5, <2>6 DEF Serve, Return, shared, Minters
  <2>7. CASE Arrive(t)
    <3>1. UNCHANGED <<token, lock>>
      BY <2>7
      DEF Arrive, Again, GiveUp, NotModified, Refused, Succeed, Garbled, Download, shared
    <3>2. pc[t] = "answered"
      BY <2>7
      DEF Arrive, Again, GiveUp, NotModified, Refused, Succeed, Garbled, Download, Answered
    <3>3. Goes(t, "sent") \/ Goes(t, "done")
      BY <2>7
      DEF Arrive, Again, GiveUp, NotModified, Refused, Succeed, Garbled, Download, Ends, Leaves
    <3> QED BY <2>5, <3>1, <3>2, <3>3 DEF Minters
  <2> QED BY <1>4, <2>1, <2>3, <2>4, <2>6, <2>7 DEF Proceed
<1>5. ASSUME NEW t \in Tasks, UseToken(t) PROVE KeysAreSound'
  <2>1. UNCHANGED <<token, lock>> /\ pc[t] = "waiting" /\ Goes(t, "sent")
    BY <1>5 DEF UseToken, Sends, shared
  <2>2. pc'[t] = "sent" /\ \A u \in Tasks \ {t} : pc'[u] = pc[u]
    BY <1>1, <2>1 DEF Goes, TasksAreTyped
  <2> QED BY <1>2, <2>1, <2>2
<1>6. ASSUME NEW t \in Tasks, TakeLock(t) PROVE KeysAreSound'
  <2>1. lock = {} /\ lock' = {t} /\ UNCHANGED token /\ Due(token)
    BY <1>6 DEF TakeLock
  <2>2. Goes(t, "minting") \/ Goes(t, "discovering")
    BY <1>6 DEF TakeLock
  <2>3. pc'[t] \in {"discovering", "minting"} /\ \A u \in Tasks \ {t} : pc'[u] = pc[u]
    BY <1>1, <2>2 DEF Goes, TasksAreTyped
  <2>4. LockIsSound'
    BY <1>1, <2>1, <2>3 DEF KeysAreSound, LockIsSound, Due
  <2> QED BY <1>1, <2>1, <2>4 DEF KeysAreSound, BeliefIsSound
<1>7. ASSUME NEW t \in Tasks, NEW m \in Methods[t], Begin(t, m) PROVE KeysAreSound'
  <2>1. UNCHANGED <<token, lock>> /\ pc[t] = "idle" /\ Goes(t, "waiting")
    BY <1>7 DEF Begin, shared
  <2>2. pc'[t] = "waiting" /\ \A u \in Tasks \ {t} : pc'[u] = pc[u]
    BY <1>1, <2>1 DEF Goes, TasksAreTyped
  <2> QED BY <1>2, <2>1, <2>2
<1>8. CASE Change \/ Vanish \/ Hide \/ UNCHANGED vars
  BY <1>2, <1>8 DEF Change, Vanish, Hide, vars, shared
<1>9. token.real \in Nat /\ token.believed \in Nat /\ token.revoked \in BOOLEAN
  BY <1>1 DEF KeysAreSound, Tokens
<1>10. CASE Revoke
  <2>1. token' = [token EXCEPT !.revoked = TRUE] /\ UNCHANGED <<lock, pc>>
    BY <1>10 DEF Revoke
  <2>2. token' \in Tokens /\ token'.real = token.real /\ token'.believed = token.believed
    BY <1>1, <2>1 DEF KeysAreSound, Tokens
  <2> QED BY <1>1, <2>1, <2>2 DEF KeysAreSound, BeliefIsSound, LockIsSound, Due
<1>11. CASE Tick
  <2>1. /\ token' = [token EXCEPT !.real = Less(@), !.believed = Less(@)]
        /\ UNCHANGED <<lock, pc>>
    BY <1>11 DEF Tick
  <2>2. /\ Less(token.real) \in Nat /\ Less(token.believed) \in Nat
        /\ Less(token.believed) <= token.believed
        /\ token.believed > 0 => Less(token.believed) = token.believed - 1
        /\ Less(token.real) >= token.real - 1
    <3>1. \A n \in Nat : Less(n) >= n - 1
      BY DEF Less
    <3> QED BY <1>9, <3>1, LessIsLess
  <2> HIDE DEF Less
  <2>3. /\ token' \in Tokens
        /\ token'.real = Less(token.real) /\ token'.believed = Less(token.believed)
    BY <1>1, <1>9, <2>1, <2>2 DEF KeysAreSound, Tokens
  <2>4. BeliefIsSound'
    BY <1>1, <1>9, <2>2, <2>3, Numbers DEF KeysAreSound, BeliefIsSound
  <2>5. LockIsSound'
    BY <1>1, <1>9, <2>1, <2>2, <2>3, Numbers DEF KeysAreSound, LockIsSound, Due
  <2> QED BY <1>1, <2>1, <2>3, <2>4, <2>5 DEF KeysAreSound
<1> QED BY <1>4, <1>5, <1>6, <1>7, <1>8, <1>10, <1>11 DEF Next, Acquire

-----------------------------------------------------------------------------
(* The invariant holds at first.                                           *)
LEMMA TransportStarts == Init => TransportInv
<1> SUFFICES ASSUME Init PROVE TransportInv
  OBVIOUS
<1>1. WorldIsSound
  <2>1. last \in Nat /\ live = (last = 1)
    BY Numbers DEF Init
  <2>2. live \in BOOLEAN /\ (live => last = 1)
    BY <2>1, Zenon
  <2>3. /\ version \in Versions /\ faults \in 0..MaxFaults
        /\ cache \in Versions \cup {NoCopy} /\ cache <= version
    BY Numbers DEF Init, Versions, NoCopy
  <2>4. visible \in BOOLEAN /\ installed \in BOOLEAN /\ posted \in BOOLEAN
    BY Zenon DEF Init
  <2> QED BY <2>1, <2>2, <2>3, <2>4 DEF WorldIsSound
<1>2. NoToken \in Tokens /\ NoToken.believed = 0
  BY DEF NoToken, Tokens
<1>3. KeysAreSound
  BY <1>2, Numbers DEF Init, KeysAreSound, BeliefIsSound, LockIsSound, Due
<1>4. TasksAreTyped
  BY NoCallIsTyped, EmptyReplyIsTyped DEF Init, TasksAreTyped, Positions
<1>5. ASSUME NEW t \in Tasks PROVE CallIsSound(t)
  <2>1. pc[t] = "idle" /\ call[t] = NoCall /\ version = 0 /\ last \in Nat
    BY Numbers DEF Init
  <2> QED BY <2>1, NoCallIsTyped, Numbers
          DEF CallIsSound, CallIsCovered, AtGitHub, RejectedWithReason, ReadingIsCurrent,
              DeletionIsTrue, MakerKnows, Told, Returned
<1> QED BY <1>1, <1>3, <1>4, <1>5, InvHasParts

(* Every step keeps it.                                                    *)
LEMMA TransportGoesOn == TransportInv /\ [Next]_vars => TransportInv'
<1> SUFFICES ASSUME TransportInv, [Next]_vars PROVE TransportInv'
  OBVIOUS
<1>1. Onward
  BY WorldGoesOn DEF TransportInv
<1>2. WorldIsSound' /\ KeysAreSound'
  BY WorldStaysSound, KeysStaySound
<1>3. TasksAreTyped' /\ \A t \in Tasks : CallIsSound(t)'
  BY <1>1, CallsStaySound
<1>4. /\ TypeOK' /\ BeliefIsSound' /\ LockIsSound' /\ cache' <= version'
      /\ live' => last' >= 1
  BY <1>2, <1>3, Zenon
  DEF WorldIsSound, KeysAreSound, TasksAreTyped, TypeOK, Positions, Results
<1> QED BY <1>3, <1>4, Zenon DEF TransportInv

(* The properties are parts of the invariant.                              *)
LEMMA InvImpliesTransport ==
  ASSUME TransportInv
  PROVE  /\ TokensLastTheMargin
         /\ AnswersAreCurrent
         /\ QuietDeleteIsTrue
         /\ LeaksAreLosses
         /\ LockIsInUse
<1>1. TokensLastTheMargin
  BY DEF TransportInv, CallIsSound, RejectedWithReason, TokensLastTheMargin
<1>2. AnswersAreCurrent
  BY DEF TransportInv, CallIsSound, ReadingIsCurrent, Returned, AnswersAreCurrent
<1>3. QuietDeleteIsTrue
  BY DEF TransportInv, CallIsSound, DeletionIsTrue, Returned, QuietDeleteIsTrue
<1>4. LeaksAreLosses
  <2> SUFFICES ASSUME NEW t \in Tasks, pc[t] = "done", result[t].kind # "ok",
                      There(call[t].made)
               PROVE  call[t].cut
    BY DEF LeaksAreLosses
  <2>1. call[t].made # 0
    BY DEF TransportInv, There, TypeOK
  <2> QED BY <2>1 DEF TransportInv, CallIsSound, MakerKnows
<1>5. LockIsInUse
  BY DEF TransportInv, TypeOK, LockIsSound, LockIsInUse
<1> QED BY <1>1, <1>2, <1>3, <1>4, <1>5

(* So it always holds.                                                     *)
LEMMA TransportIsInvariant == Spec => []TransportInv
<1> QED BY TransportStarts, TransportGoesOn, PTL DEF Spec

(* The state of a client stays what its types say.                         *)
THEOREM TransportIsTyped == Spec => []TypeOK
<1>1. TransportInv => TypeOK
  BY DEF TransportInv
<1> QED BY <1>1, TransportIsInvariant, PTL

(* Whatever the number and the length of the attempts: GitHub rejects no   *)
(* token but a revoked one, unless the call went on with it for longer     *)
(* than the refresh margin, less what the clocks differ (auth.py's         *)
(* REFRESH_MARGIN against client.py's retries).                            *)
THEOREM TokensAlwaysLastTheMargin == Spec => []TokensLastTheMargin
<1> QED BY InvImpliesTransport, TransportIsInvariant, PTL

(* What a GET returns was so at some moment of the call, for any number of *)
(* calls that share the cache (client.py's conditional requests).          *)
THEOREM ReadingsAreCurrent == Spec => []AnswersAreCurrent
<1> QED BY InvImpliesTransport, TransportIsInvariant, PTL

(* A delete_runner that returns leaves nothing behind, and a registration  *)
(* that is made and not returned was lost on the way.                      *)
THEOREM RegistrationsStayKnown == Spec => []RegistrationsAreKnown
<1>1. TransportInv => RegistrationsAreKnown
  BY InvImpliesTransport DEF RegistrationsAreKnown
<1> QED BY <1>1, TransportIsInvariant, PTL

(* Whatever fails, nobody waits for a lock that nobody will let go of      *)
(* (auth.py's "async with").                                               *)
THEOREM LockStaysInUse == Spec => []LockIsInUse
<1> QED BY InvImpliesTransport, TransportIsInvariant, PTL

(* A token is minted only when the last one is due: tasks that find it due *)
(* at once mint one (auth.py's lock, and the second look under it).        *)
THEOREM DueIsMintedOnce == Spec => OneMints
<1>1. ASSUME TransportInv, NEW t \in Tasks, pc[t] = "minting" PROVE Due(token)
  BY <1>1 DEF TransportInv, LockIsSound
<1>2. TransportInv => ((\E t \in Tasks : pc[t] = "minting" /\ pc'[t] = "sent") => Due(token))
  BY <1>1
<1> QED BY <1>2, TransportIsInvariant, PTL DEF OneMints
=============================================================================
