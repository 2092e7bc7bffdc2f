---------------------------- MODULE SecureAccess ----------------------------
(***************************************************************************)
(* User authentication of a key (hks_secure_access.c, and the three-stage  *)
(* operations of hks_core_service_key_operate_three_stage.c that call it): *)
(* what is recorded when the key is made, the challenge a session hands    *)
(* out, the check of the token that the user authentication service issues *)
(* for it, and the authentication info that secure signing puts before the *)
(* data.  A challenge is the number of its session in each of its places.  *)
(***************************************************************************)
EXTENDS Naturals, FiniteSets, Sequences

CONSTANTS
    Policies,     \* the access controls a key may be made with
    TokenShapes,  \* what may vary in a token: user, type, kind
    Owner,        \* the user of the key
    Positions,    \* places of a challenge (HKS_CHALLENGE_POS_0 ..)
    AuthTimeout, BatchTimeout,
    MaxSessions, MaxTokens, MaxTime, MaxUses, MaxChanges  \* bounds

ASSUME SecureAccessAssumption ==
    /\ Policies \subseteq
         [types : SUBSET {"pin", "face"}, access : SUBSET {"password", "bio"},
          challenge : {"normal", "custom", "none"}, secureSign : BOOLEAN,
          purposes : SUBSET {"sign", "verify"}, batch : SUBSET {"sign", "verify"},
          coauth : BOOLEAN, device : BOOLEAN]
    /\ TokenShapes \subseteq [user : Nat, type : {"pin", "face"}, kind : {"local", "coauth"}]
    /\ 0 \in Positions
    /\ {AuthTimeout, BatchTimeout, MaxSessions, MaxTokens, MaxTime, MaxUses, MaxChanges}
         \subseteq Nat

VARIABLES
    policy, key,   \* the access control asked for; what the key blob records
    secureUid, enrolledId, pinSet,  \* the user authentication service
    changes,       \* what was done to the credentials of the user, in order
    now,
    token,         \* tokens issued so far
    node,          \* key nodes of the sessions, NoNode when deleted
    done           \* what was done in each session

user == <<secureUid, enrolledId, pinSet, changes>>
vars == <<policy, key, user, now, token, node, done>>

\* "at", of a key and of a token, is how many changes there had been when it
\* was made; no code reads it.
NoKey == [secureUid |-> 0, enrolled |-> [t \in {"pin", "face"} |-> 0], at |-> 0]
NoNode == [state |-> "none"]
NoToken == 0

Types == {"pin", "face"}
Purposes == {"sign", "verify"}
Changes == {"cleared", "set", "enrolled"}
Nodes == [state : {"live"}, purpose : {"sign", "verify"}, pos : Positions, need : BOOLEAN,
          result : {"init", "success"}, append : BOOLEAN, appended : BOOLEAN, time : Nat,
          batch : BOOLEAN, deadline : Nat, verified : 0 .. MaxTokens]
Done == [purpose : {"sign", "verify"}, batch : BOOLEAN, issued : 0 .. MaxTokens,
         pos : Positions, uses : 0 .. MaxUses, verifications : 0 .. MaxUses + 1,
         work : SUBSET {"sign", "verify"}, tokens : SUBSET (1 .. MaxTokens),
         signed : 0 .. MaxUses, shown : BOOLEAN, finished : BOOLEAN]

TypeOK ==
    /\ policy \in Policies
    /\ key \in [secureUid : Nat, enrolled : [Types -> Nat], at : Nat]
    /\ secureUid \in Nat /\ enrolledId \in [Types -> Nat] /\ pinSet \in BOOLEAN
    /\ now \in 0 .. MaxTime /\ changes \in Seq(Changes) /\ Len(changes) <= MaxChanges
    /\ token \in Seq([challenge : [Positions -> 0 .. MaxSessions], time : Nat,
                      shape : TokenShapes, secureUid : Nat, enrolledId : Nat, at : Nat])
    /\ Len(token) <= MaxTokens /\ Len(node) <= MaxSessions
    /\ node \in Seq(Nodes \cup {NoNode})
    /\ \A s \in DOMAIN node : node[s] # NoNode /\ node[s].appended => node[s].append
    /\ done \in Seq(Done) /\ Len(done) = Len(node)

Init ==
    /\ policy \in Policies
    /\ key = NoKey
    /\ secureUid = 1 /\ enrolledId = [t \in Types |-> 1] /\ pinSet = TRUE
    /\ now = 0 /\ changes = <<>>
    /\ token = <<>> /\ node = <<>> /\ done = <<>>

----------------------------------------------------------------------------
(* The user authentication service, and time.                              *)

Tick ==
    /\ now < MaxTime
    /\ now' = now + 1
    /\ UNCHANGED <<policy, key, user, token, node, done>>

\* The password is cleared, set again (the user has another secure id then),
\* or a face is enrolled.
Change ==
    /\ Len(changes) < MaxChanges
    /\ \/ /\ pinSet /\ pinSet' = FALSE
          /\ changes' = Append(changes, "cleared")
          /\ UNCHANGED <<secureUid, enrolledId>>
       \/ /\ ~pinSet /\ pinSet' = TRUE
          /\ changes' = Append(changes, "set")
          /\ secureUid' = secureUid + 1 /\ UNCHANGED enrolledId
       \/ /\ enrolledId' = [enrolledId EXCEPT !["face"] = @ + 1]
          /\ changes' = Append(changes, "enrolled")
          /\ UNCHANGED <<secureUid, pinSet>>
    /\ UNCHANGED <<policy, key, now, token, node, done>>

\* A user authenticates for a challenge, which may be put together from the
\* challenges of several sessions.
Authenticate(shape, challenge) ==
    /\ Len(token) < MaxTokens
    /\ shape.type = "pin" => pinSet
    /\ token' = Append(token, [challenge |-> challenge, time |-> now, shape |-> shape,
                               secureUid |-> secureUid,
                               enrolledId |-> enrolledId[shape.type],
                               at |-> Len(changes)])
    /\ UNCHANGED <<policy, key, user, now, node, done>>

----------------------------------------------------------------------------
\* What the key blob records of the user: AppendNewInfoForGenKeyInService.
HksServiceGenerateKey ==
    /\ key = NoKey
    /\ policy.access # {} => ("pin" \in policy.types => pinSet)
    /\ key' = [secureUid |-> secureUid, enrolled |-> enrolledId, at |-> Len(changes)]
    /\ UNCHANGED <<policy, user, now, token, node, done>>

\* CheckInitParamSetValidityAndGet: is the purpose under access control?
IsUserAuthAccess(purpose) == policy.types # {} /\ purpose \in policy.purposes

\* CheckIfNeedIsDevicePasswordSet
DevicePasswordSet == policy.device => pinSet

\* A batch operation is only set up, its updates do the work.
HksCoreInit(purpose, batch, pos) ==
    LET need == IsUserAuthAccess(purpose) IN
    /\ key # NoKey
    /\ Len(node) < MaxSessions
    /\ DevicePasswordSet
    /\ batch => purpose \in policy.batch
    /\ policy.challenge # "custom" \/ ~need => pos = 0
    /\ node' = Append(node,
         [state |-> "live", purpose |-> purpose, pos |-> pos, need |-> need,
          result |-> "init", append |-> need /\ policy.secureSign, appended |-> FALSE,
          time |-> now, batch |-> batch, deadline |-> now + BatchTimeout,
          verified |-> NoToken])
    /\ done' = Append(done,
         [purpose |-> purpose, batch |-> batch, issued |-> Len(token),
          pos |-> pos, uses |-> 0, verifications |-> 0, work |-> {}, tokens |-> {},
          signed |-> 0, shown |-> FALSE, finished |-> FALSE])
    /\ UNCHANGED <<policy, key, user, now, token>>

----------------------------------------------------------------------------
(* HksCoreSecureAccessVerifyParams.                                        *)

\* HksCheckAuthType
AuthTypeFits(t) == t.shape.kind = "coauth" => policy.coauth

Far(a, b) == a > b + AuthTimeout \/ b > a + AuthTimeout

\* Slip: one place of the challenge is compared in any mode.
VerifyChallengeAnywhere(s, n, t) ==
    IF policy.challenge = "none" THEN ~Far(n.time, t.time)
    ELSE \E p \in Positions : t.challenge[p] = s

VerifyChallengeOrTimeStamp(s, n, t) ==
    CASE policy.challenge = "normal" -> \A p \in Positions : t.challenge[p] = s
      [] policy.challenge = "custom" -> t.challenge[n.pos] = s
      [] policy.challenge = "none" -> ~Far(n.time, t.time)

VerifyEnrolledIdInfoIfNeed(t) ==
    "face" \in policy.types /\ "bio" \in policy.access
      => t.enrolledId = key.enrolled[t.shape.type]

\* Slip: the secure id of the user is not compared.
VerifyAuthTokenType(t) ==
    /\ t.shape.type \in policy.types
    /\ policy.access = {} => t.shape.user = Owner
    /\ VerifyEnrolledIdInfoIfNeed(t)

\* No access type stands for HKS_AUTH_ACCESS_ALWAYS_VALID.
VerifyAuthTokenInfo(t) ==
    /\ t.shape.type \in policy.types
    /\ IF policy.access = {} THEN t.shape.user = Owner
       ELSE /\ "password" \in policy.access => t.secureUid = key.secureUid
            /\ VerifyEnrolledIdInfoIfNeed(t)

Verifies(s, n, i) ==
    /\ i # NoToken
    /\ AuthTypeFits(token[i])
    /\ VerifyChallengeOrTimeStamp(s, n, token[i])
    /\ VerifyAuthTokenInfo(token[i])

\* CheckIfNeedVerifyParams
NeedVerify(n) == n.need /\ n.result # "success"

\* The node and the record of the session after the check of token i.
Checked(n, i) == IF NeedVerify(n) THEN [n EXCEPT !.result = "success", !.verified = i] ELSE n
CheckedDone(s, i) ==
    IF NeedVerify(node[s])
      THEN [done[s] EXCEPT !.verifications = @ + 1, !.tokens = @ \cup {i}]
      ELSE done[s]

Live(s) == s \in DOMAIN node /\ node[s] # NoNode
Delete(s) == node' = [node EXCEPT ![s] = NoNode]
Allowed(s, i) == DevicePasswordSet /\ (NeedVerify(node[s]) => Verifies(s, node[s], i))

\* The check fails in HksCoreUpdate or HksCoreFinish: the session is over.
Rejected(s, i) ==
    /\ Live(s) /\ ~Allowed(s, i)
    /\ Delete(s)
    /\ UNCHANGED <<policy, key, user, now, token, done>>

----------------------------------------------------------------------------
(* The operations.                                                         *)

\* Slip: the result of the check stays for the next update.
BatchNodeStays(n) == [n EXCEPT !.append = FALSE]

\* HksBatchUpdate: every update of a batch needs a token of its own check.
BatchNode(n) == [n EXCEPT !.result = "init", !.append = FALSE]

\* The purpose of the work is that of the update's own parameters, from which
\* the node of the update is built; whether a token is needed was settled by
\* the purpose the batch was opened for.
HksBatchUpdate(s, purpose, i) ==
    /\ Live(s) /\ node[s].batch /\ Allowed(s, i)
    /\ done[s].uses < MaxUses
    /\ \/ /\ node[s].deadline >= now
          /\ node' = [node EXCEPT ![s] = BatchNode(Checked(@, i))]
          /\ done' = [done EXCEPT ![s] = [CheckedDone(s, i) EXCEPT !.uses = @ + 1,
                                                                !.work = @ \cup {purpose}]]
       \/ Delete(s) /\ UNCHANGED done
    /\ UNCHANGED <<policy, key, user, now, token>>

\* CheckIfNeedAppendUpdateData, HksCoreAppendAuthInfoBeforeUpdate
NeedsInfo(n) == n.purpose = "sign" /\ n.append /\ ~n.appended
\* Slip: nobody notes that the info was put in.
AppendedForgotten(n) == n

\* Slip: the note is made whether there is info or not.
AppendedAlways(n) == [n EXCEPT !.appended = TRUE]

Appended(n) == IF NeedsInfo(n) THEN [n EXCEPT !.appended = TRUE] ELSE n

\* HksCoreUpdateProcess; empty is data without a byte.
HksCoreUpdate(s, i, empty) ==
    LET n == Checked(node[s], i) IN
    /\ Live(s) /\ ~node[s].batch /\ Allowed(s, i)
    /\ done[s].uses < MaxUses
    /\ \/ /\ ~(NeedsInfo(n) /\ empty)
          /\ node' = [node EXCEPT ![s] = Appended(n)]
          /\ done' = [done EXCEPT ![s] =
               [CheckedDone(s, i) EXCEPT !.uses = @ + 1, !.work = @ \cup {n.purpose},
                                         !.signed = IF NeedsInfo(n) THEN @ + 1 ELSE @]]
       \/ Delete(s) /\ UNCHANGED done
    /\ UNCHANGED <<policy, key, user, now, token>>

\* CheckIfNeedAppendFinishData, DoAppendPrefixDataToFinishData
ShowsInfo(n) == n.purpose = "sign" /\ n.append

\* HksCoreFinishProcess; the session ends either way.
HksCoreFinish(s, i, empty) ==
    LET n == Checked(node[s], i) IN
    /\ Live(s) /\ ~node[s].batch /\ Allowed(s, i)
    /\ done[s].uses < MaxUses
    /\ \/ /\ ~(NeedsInfo(n) /\ empty)
          /\ ShowsInfo(n) => Appended(n).appended
          /\ done' = [done EXCEPT ![s] =
               [CheckedDone(s, i) EXCEPT !.uses = @ + 1, !.finished = TRUE,
                                         !.work = @ \cup {n.purpose},
                                         !.signed = IF NeedsInfo(n) THEN @ + 1 ELSE @,
                                         !.shown = ShowsInfo(n)]]
       \/ UNCHANGED done
    /\ Delete(s)
    /\ UNCHANGED <<policy, key, user, now, token>>

\* A batch ends without work; any session can be aborted.
HksCoreAbort(s) ==
    /\ Live(s)
    /\ Delete(s)
    /\ UNCHANGED <<policy, key, user, now, token, done>>

Next ==
    \/ Tick \/ Change \/ HksServiceGenerateKey
    \/ \E shape \in TokenShapes, c \in [Positions -> 0 .. Len(node)] : Authenticate(shape, c)
    \/ \E purpose \in Purposes, batch \in BOOLEAN, pos \in Positions :
         HksCoreInit(purpose, batch, pos)
    \/ \E s \in DOMAIN node :
         \/ HksCoreAbort(s)
         \/ \E i \in 0 .. Len(token) : Rejected(s, i)
         \/ \E i \in 0 .. Len(token), purpose \in Purposes : HksBatchUpdate(s, purpose, i)
         \/ \E i \in 0 .. Len(token), empty \in BOOLEAN :
              HksCoreUpdate(s, i, empty) \/ HksCoreFinish(s, i, empty)

Spec == Init /\ [][Next]_vars

----------------------------------------------------------------------------
Controlled(s) == IsUserAuthAccess(done[s].purpose)

\* No work that is under access control is done before a token was accepted in
\* that very session, and in a batch every update had one accepted.  A batch
\* opened for a purpose that is not under access control is outside of this:
\* none of its updates needs a token, whatever purpose they name.
AuthorisedBeforeUse ==
    \A s \in DOMAIN done :
      IF done[s].batch THEN Controlled(s) => done[s].verifications >= done[s].uses
      ELSE (\E purpose \in done[s].work : IsUserAuthAccess(purpose))
             => done[s].verifications = 1

\* A token made for one challenge opens no other session, and none that began
\* after it was issued; a token for a custom challenge opens at most one
\* session for each place of the challenge.
TokenNotReplayed ==
    policy.challenge # "none" =>
      \A s, r \in DOMAIN done : \A i \in done[s].tokens :
        /\ i > done[s].issued
        /\ i \in done[r].tokens /\ r # s =>
             policy.challenge = "custom" /\ done[r].pos # done[s].pos

\* Was there such a change between the one time and the other?
Between(change, a, b) ==
    \E k \in DOMAIN changes : changes[k] = change /\ ~(a < k <=> b < k)

\* A key that clearing the password invalidates is opened by no token from
\* which another setting of the password separates it, and a key that a new
\* face invalidates by no face from which an enrolment separates it, in
\* sessions begun before or after, for ever.  (Clearing alone refuses nobody:
\* until the password is set again the user keeps the secure id, and a face
\* opens the key.)
InvalidatedForGood ==
    \A s \in DOMAIN done : \A i \in done[s].tokens :
      /\ "password" \in policy.access => ~Between("set", key.at, token[i].at)
      /\ "bio" \in policy.access /\ token[i].shape.type = "face"
           => ~Between("enrolled", key.at, token[i].at)

\* A secure signature covers the authentication info exactly once, however the
\* data came in pieces, and is handed out with the info in front; a batch has
\* none of it.
InfoSignedOnce ==
    \A s \in DOMAIN done :
      LET secure == Controlled(s) /\ policy.secureSign /\ done[s].purpose = "sign"
                      /\ ~done[s].batch
      IN  /\ done[s].signed <= (IF secure THEN 1 ELSE 0)
          /\ done[s].finished => (done[s].shown <=> secure)
          /\ done[s].finished /\ secure => done[s].signed = 1

----------------------------------------------------------------------------
(* Why they hold: what the node of a session and the record of what was    *)
(* done in it have to do with each other, and what is known of a token.    *)

\* The node keeps what the session was opened for.  While it lives, nothing is
\* finished; a batch waits for a token again after every update; any other
\* session is used only after its one check.
NodeFitsRecord(n, d) ==
    /\ n.purpose = d.purpose /\ n.batch = d.batch /\ n.pos = d.pos
    /\ n.need <=> IsUserAuthAccess(n.purpose)
    /\ ~d.finished
    /\ d.signed = (IF n.appended THEN 1 ELSE 0)
    /\ IF n.batch THEN ~n.appended /\ (n.need => n.result = "init")
       ELSE /\ n.append <=> n.need /\ policy.secureSign
            /\ n.need => d.verifications = (IF n.result = "success" THEN 1 ELSE 0)
            /\ n.need /\ n.result # "success" => d.uses = 0

\* What the record of a session adds up to, after the end of the session too.
RecordAddsUp(d) ==
    LET controlled == IsUserAuthAccess(d.purpose)
        secure == controlled /\ policy.secureSign /\ d.purpose = "sign" /\ ~d.batch
    IN
    /\ d.verifications <= d.uses
    /\ controlled /\ d.batch => d.verifications = d.uses
    /\ controlled /\ ~d.batch /\ d.uses > 0 => d.verifications = 1
    /\ d.uses = 0 => d.work = {}
    /\ ~d.batch => d.work \subseteq {d.purpose}
    /\ d.signed <= (IF secure THEN 1 ELSE 0)
    /\ d.finished => (d.shown <=> secure) /\ (secure => d.signed = 1)

\* A token accepted in a session was issued for it and for the user that the
\* key records.
AcceptedFits(s, d, i) ==
    /\ i \in DOMAIN token
    /\ policy.challenge = "normal" => \A p \in Positions : token[i].challenge[p] = s
    /\ policy.challenge = "custom" => token[i].challenge[d.pos] = s
    /\ VerifyAuthTokenInfo(token[i])

\* No token names a session that was opened after the token was issued.
IssuedBefore(s, d) ==
    /\ d.issued <= Len(token)
    /\ \A i \in 1 .. d.issued : \A p \in Positions : token[i].challenge[p] < s

SessionFits(s, n, d) ==
    /\ n # NoNode => NodeFitsRecord(n, d)
    /\ RecordAddsUp(d)
    /\ \A i \in d.tokens : AcceptedFits(s, d, i)
    /\ IssuedBefore(s, d)

\* How often such a change is among the first n of s.
Times(s, change, n) == Cardinality({k \in 1 .. n : s[k] = change})

\* What the key and a token say of the user is what the changes before them add
\* up to.
CredentialsFit ==
    /\ secureUid = 1 + Times(changes, "set", Len(changes))
    /\ enrolledId["face"] = 1 + Times(changes, "enrolled", Len(changes))
    /\ key # NoKey =>
         /\ key.at <= Len(changes)
         /\ key.secureUid = 1 + Times(changes, "set", key.at)
         /\ key.enrolled["face"] = 1 + Times(changes, "enrolled", key.at)
    /\ \A i \in DOMAIN token :
         /\ token[i].at <= Len(changes)
         /\ token[i].secureUid = 1 + Times(changes, "set", token[i].at)
         /\ token[i].shape.type = "face"
              => token[i].enrolledId = 1 + Times(changes, "enrolled", token[i].at)

\* Every session and its record fit, no token names a session that is yet to
\* come, no session was opened before the key was made, and what key and tokens
\* say of the user fits the changes: the invariant
\* that the properties above rest on.
AccessInv ==
    /\ TypeOK
    /\ node # <<>> => key # NoKey
    /\ \A i \in DOMAIN token : \A p \in Positions : token[i].challenge[p] <= Len(node)
    /\ \A s \in DOMAIN node : SessionFits(s, node[s], done[s])
    /\ CredentialsFit
=============================================================================
