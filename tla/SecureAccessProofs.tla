------------------------- MODULE SecureAccessProofs -------------------------
(***************************************************************************)
(* A key under access control is used only by whom it was made for, for    *)
(* any policy, any number of sessions, tokens, updates and places of a     *)
(* challenge.                                                              *)
(***************************************************************************)
EXTENDS SecureAccess, SequenceTheorems, FiniteSetTheorems, TLAPS

Tokens == [challenge : [Positions -> 0 .. MaxSessions], time : Nat,
           shape : TokenShapes, secureUid : Nat, enrolledId : Nat, at : Nat]

(* What the assumption on the constants says, one by one.                  *)
LEMMA Constants ==
    /\ AuthTimeout \in Nat /\ BatchTimeout \in Nat
    /\ MaxSessions \in Nat /\ MaxTokens \in Nat /\ MaxTime \in Nat
    /\ MaxUses \in Nat /\ MaxChanges \in Nat
    /\ 0 \in Positions
BY SecureAccessAssumption

(* The sequences of the model, as functions.                               *)
LEMMA Sequences1 ==
    ASSUME AccessInv
    PROVE  /\ node \in Seq(Nodes \cup {NoNode}) /\ done \in Seq(Done) /\ token \in Seq(Tokens)
           /\ Len(node) \in Nat /\ Len(done) = Len(node) /\ Len(token) \in Nat
           /\ DOMAIN node = 1 .. Len(node) /\ DOMAIN done = 1 .. Len(node)
           /\ DOMAIN token = 1 .. Len(token)
           /\ \A s \in 1 .. Len(node) : node[s] \in Nodes \cup {NoNode} /\ done[s] \in Done
           /\ \A i \in 1 .. Len(token) : token[i] \in Tokens
<1>1. node \in Seq(Nodes \cup {NoNode}) /\ done \in Seq(Done) /\ token \in Seq(Tokens)
      /\ Len(done) = Len(node)
  BY DEF AccessInv, TypeOK, Tokens
<1> QED
  BY <1>1, LenProperties, ElementOfSeq

(* What the places of a challenge hold are sessions opened so far.         *)
LEMMA ChallengeKnown ==
    ASSUME AccessInv, NEW i \in 1 .. Len(token), NEW p \in Positions
    PROVE  token[i].challenge[p] \in Nat /\ token[i].challenge[p] <= Len(node)
<1>1. token[i] \in Tokens /\ i \in DOMAIN token
  BY Sequences1
<1>2. token[i].challenge \in [Positions -> 0 .. MaxSessions]
  BY <1>1 DEF Tokens
<1> QED
  BY <1>1, <1>2, Constants DEF AccessInv

(* Whether a session fits depends on the policy, the key and the tokens.   *)
LEMMA FitsStays ==
    ASSUME NEW s, NEW n, NEW d, UNCHANGED <<policy, key, token>>, SessionFits(s, n, d)
    PROVE  SessionFits(s, n, d)'
BY DEF SessionFits, NodeFitsRecord, RecordAddsUp, AcceptedFits, IssuedBefore,
       IsUserAuthAccess, VerifyAuthTokenInfo, VerifyEnrolledIdInfoIfNeed

(* The changes so far, as a function.                                      *)
LEMMA ChangesSoFar ==
    ASSUME AccessInv
    PROVE  /\ changes \in Seq(Changes) /\ Len(changes) \in Nat
           /\ DOMAIN changes = 1 .. Len(changes)
           /\ key.at \in Nat /\ \A i \in 1 .. Len(token) : token[i].at \in Nat
<1>1. changes \in Seq(Changes) /\ key \in [secureUid : Nat, enrolled : [Types -> Nat], at : Nat]
  BY DEF AccessInv, TypeOK
<1>2. \A i \in 1 .. Len(token) : token[i] \in Tokens
  BY Sequences1
<1> QED
  BY <1>1, <1>2, LenProperties DEF Tokens

(* Whether the credentials fit depends on the user, the key and the tokens. *)
LEMMA CredentialsStay ==
    ASSUME CredentialsFit, UNCHANGED <<key, user, token>>
    PROVE  CredentialsFit'
BY DEF CredentialsFit, user, NoKey

(* A step inside one session, that leaves the tokens and the key alone:    *)
(* only that session has to fit again.                                     *)
LEMMA SessionStep ==
    ASSUME AccessInv, NEW s \in DOMAIN node,
           NEW n \in Nodes \cup {NoNode}, NEW d \in Done,
           n # NoNode /\ n.appended => n.append,
           node' = [node EXCEPT ![s] = n],
           done' = [done EXCEPT ![s] = d],
           UNCHANGED <<policy, key, user, now, token>>,
           SessionFits(s, n, d)
    PROVE  AccessInv'
<1>1. s \in 1 .. Len(node) /\ s \in 1 .. Len(done)
  BY Sequences1
<1>2. node' \in Seq(Nodes \cup {NoNode}) /\ Len(node') = Len(node)
      /\ \A r \in 1 .. Len(node) : node'[r] = IF r = s THEN n ELSE node[r]
  BY <1>1, Sequences1, ExceptSeq
<1>3. done' \in Seq(Done) /\ Len(done') = Len(node)
      /\ \A r \in 1 .. Len(node) : done'[r] = IF r = s THEN d ELSE done[r]
  BY <1>1, Sequences1, ExceptSeq
<1>4. DOMAIN node' = 1 .. Len(node) /\ DOMAIN node = 1 .. Len(node)
  BY <1>2, Sequences1, LenProperties
<1>5. TypeOK'
  BY <1>2, <1>3, <1>4 DEF AccessInv, TypeOK, user
<1>6. (node # <<>> => key # NoKey)'
  BY <1>4, <1>1 DEF AccessInv, NoKey
<1>7. (\A i \in DOMAIN token : \A p \in Positions : token[i].challenge[p] <= Len(node))'
  BY <1>2 DEF AccessInv
<1>8. ASSUME NEW r \in DOMAIN node' PROVE SessionFits(r, node[r], done[r])'
  <2>1. r \in 1 .. Len(node)
    BY <1>4
  <2>2. CASE r = s
    BY <2>1, <2>2, <1>2, <1>3, FitsStays
  <2>3. CASE r # s
    BY <2>1, <2>3, <1>2, <1>3, <1>4, FitsStays DEF AccessInv
  <2> QED
    BY <2>2, <2>3
<1>9. CredentialsFit'
  BY CredentialsStay DEF AccessInv
<1> QED
  BY <1>5, <1>6, <1>7, <1>8, <1>9 DEF AccessInv

(* A session that is deleted keeps its record.                             *)
LEMMA DeleteStep ==
    ASSUME AccessInv, NEW s \in DOMAIN node, Live(s), Delete(s),
           UNCHANGED <<policy, key, user, now, token, done>>
    PROVE  AccessInv'
<1>1. done[s] \in Done /\ done' = [done EXCEPT ![s] = done[s]]
  BY Sequences1
<1>2. SessionFits(s, NoNode, done[s])
  BY DEF AccessInv, SessionFits
<1>3. node' = [node EXCEPT ![s] = NoNode]
  BY DEF Delete
<1> HIDE DEF NoNode
<1> QED
  BY <1>1, <1>2, <1>3, SessionStep

(* The token that a check accepts was issued for the session.              *)
LEMMA CheckAccepts ==
    ASSUME AccessInv, NEW s \in DOMAIN node, Live(s), NEW i \in 0 .. Len(token),
           Allowed(s, i), NeedVerify(node[s])
    PROVE  i \in 1 .. Len(token) /\ i \in 1 .. MaxTokens /\ AcceptedFits(s, done[s], i)
<1>1. i \in 1 .. Len(token) /\ i \in DOMAIN token
  BY Sequences1 DEF Allowed, Verifies, NoToken
<1>2. Len(token) <= MaxTokens /\ policy \in Policies
  BY DEF AccessInv, TypeOK
<1>3. node[s].pos = done[s].pos
  BY DEF AccessInv, SessionFits, NodeFitsRecord, Live
<1>4. policy.challenge \in {"normal", "custom", "none"}
  BY <1>2, SecureAccessAssumption
<1>5. VerifyChallengeOrTimeStamp(s, node[s], token[i]) /\ VerifyAuthTokenInfo(token[i])
  BY DEF Allowed, Verifies
<1>6. AcceptedFits(s, done[s], i)
  BY <1>1, <1>3, <1>4, <1>5 DEF AcceptedFits, VerifyChallengeOrTimeStamp
<1> QED
  BY <1>1, <1>2, <1>6, Constants, Sequences1

(* A live session has a node of the right type that fits its record.       *)
LEMMA LiveSession ==
    ASSUME AccessInv, NEW s \in DOMAIN node, Live(s)
    PROVE  /\ node[s] \in Nodes /\ done[s] \in Done
           /\ NodeFitsRecord(node[s], done[s]) /\ RecordAddsUp(done[s])
           /\ \A i \in done[s].tokens : AcceptedFits(s, done[s], i)
           /\ IssuedBefore(s, done[s])
           /\ node[s].appended => node[s].append
           /\ node[s] # NoNode
<1>1. node[s] # NoNode
  BY DEF Live
<1>2. node[s] \in Nodes /\ done[s] \in Done
  BY <1>1, Sequences1
<1>3. SessionFits(s, node[s], done[s])
  BY DEF AccessInv
<1>4. node[s].appended => node[s].append
  BY <1>1 DEF AccessInv, TypeOK
<1> QED
  BY <1>1, <1>2, <1>3, <1>4 DEF SessionFits

(* The node and the record of a session after the check of a token: a      *)
(* session under access control has passed one, a batch one more.          *)
LEMMA CheckedSession ==
    ASSUME AccessInv, NEW s \in DOMAIN node, Live(s), NEW i \in 0 .. Len(token),
           Allowed(s, i), done[s].uses < MaxUses,
           NEW n, n = Checked(node[s], i), NEW d, d = CheckedDone(s, i)
    PROVE  /\ n \in Nodes /\ d \in Done
           /\ n.purpose = d.purpose /\ n.batch = d.batch /\ n.pos = d.pos
           /\ n.batch = node[s].batch
           /\ n.need <=> IsUserAuthAccess(n.purpose)
           /\ n.need => n.result = "success"
           /\ n.appended => n.append
           /\ n.batch => ~n.appended
           /\ ~n.batch => (n.append <=> n.need /\ policy.secureSign)
           /\ d.uses < MaxUses /\ d.verifications <= d.uses + 1
           /\ n.need => d.verifications = (IF n.batch THEN d.uses + 1 ELSE 1)
           /\ d.signed = (IF n.appended THEN 1 ELSE 0)
           /\ d.signed <= (IF n.need /\ policy.secureSign /\ n.purpose = "sign" /\ ~n.batch
                             THEN 1 ELSE 0)
           /\ ~d.finished
           /\ ~n.batch => d.work \subseteq {n.purpose}
           /\ \A j \in d.tokens : AcceptedFits(s, d, j)
           /\ IssuedBefore(s, d)
<1>1. /\ node[s] \in Nodes /\ done[s] \in Done
      /\ NodeFitsRecord(node[s], done[s]) /\ RecordAddsUp(done[s])
      /\ \A j \in done[s].tokens : AcceptedFits(s, done[s], j)
      /\ IssuedBefore(s, done[s])
      /\ node[s].appended => node[s].append
  BY LiveSession
<1>2. done[s].verifications <= done[s].uses
  BY <1>1 DEF RecordAddsUp
<1>3. CASE NeedVerify(node[s])
  <2>1. /\ n = [node[s] EXCEPT !.result = "success", !.verified = i]
        /\ d = [done[s] EXCEPT !.verifications = @ + 1, !.tokens = @ \cup {i}]
    BY <1>3 DEF Checked, CheckedDone
  <2>2. i \in 1 .. MaxTokens /\ AcceptedFits(s, done[s], i)
    BY <1>3, CheckAccepts
  <2>3. i \in 0 .. MaxTokens /\ node[s] \in Nodes
    BY <1>1, <2>2, Constants
  <2>4. n \in Nodes
    BY <2>1, <2>3 DEF Nodes
  <2>5. done[s] \in Done
    BY <1>1
  <2>6. /\ done[s].verifications + 1 \in 0 .. MaxUses + 1
        /\ done[s].tokens \cup {i} \in SUBSET (1 .. MaxTokens)
    BY <1>2, <2>2, <2>5, Constants DEF Done
  <2>7. d \in Done
    <3>1. d = [purpose |-> done[s].purpose, batch |-> done[s].batch, issued |-> done[s].issued,
               pos |-> done[s].pos, uses |-> done[s].uses,
               verifications |-> done[s].verifications + 1, work |-> done[s].work,
               tokens |-> done[s].tokens \cup {i}, signed |-> done[s].signed,
               shown |-> done[s].shown, finished |-> done[s].finished]
      BY <2>1, <2>5 DEF Done
    <3> QED
      BY <2>5, <2>6, <3>1 DEF Done
  <2>8. /\ n.purpose = node[s].purpose /\ n.batch = node[s].batch /\ n.pos = node[s].pos
        /\ n.need = node[s].need /\ n.result = "success" /\ n.append = node[s].append
        /\ n.appended = node[s].appended
    BY <2>1, <2>3 DEF Nodes
  <2>9. /\ d.purpose = done[s].purpose /\ d.batch = done[s].batch /\ d.pos = done[s].pos
        /\ d.uses = done[s].uses /\ d.verifications = done[s].verifications + 1
        /\ d.signed = done[s].signed /\ d.finished = done[s].finished
        /\ d.tokens = done[s].tokens \cup {i} /\ d.issued = done[s].issued
        /\ d.work = done[s].work
    BY <2>1, <2>5 DEF Done
  <2>10. /\ n.purpose = d.purpose /\ n.batch = d.batch /\ n.pos = d.pos
         /\ n.need <=> IsUserAuthAccess(n.purpose)
         /\ n.appended => n.append
         /\ n.batch => ~n.appended
         /\ ~n.batch => (n.append <=> n.need /\ policy.secureSign)
         /\ ~d.finished
         /\ d.signed = (IF n.appended THEN 1 ELSE 0)
         /\ ~n.batch => d.work \subseteq {n.purpose}
    BY <1>1, <2>8, <2>9 DEF NodeFitsRecord, RecordAddsUp
  <2>11. /\ n.need => d.verifications = (IF n.batch THEN d.uses + 1 ELSE 1)
         /\ d.verifications <= d.uses + 1
    BY <1>1, <1>2, <1>3, <2>8, <2>9, <2>10 DEF NodeFitsRecord, RecordAddsUp, NeedVerify, Done
  <2>12. d.signed <= (IF n.need /\ policy.secureSign /\ n.purpose = "sign" /\ ~n.batch
                       THEN 1 ELSE 0)
    BY <1>1, <2>8, <2>9, <2>10 DEF RecordAddsUp
  <2>13. (\A j \in d.tokens : AcceptedFits(s, d, j)) /\ IssuedBefore(s, d)
    BY <1>1, <2>2, <2>9 DEF AcceptedFits, IssuedBefore
  <2> QED
    BY <2>4, <2>7, <2>8, <2>9, <2>10, <2>11, <2>12, <2>13
<1>4. CASE ~NeedVerify(node[s])
  <2>1. n = node[s] /\ d = done[s]
    BY <1>4 DEF Checked, CheckedDone
  <2>2. n \in Nodes /\ d \in Done /\ NodeFitsRecord(n, d) /\ RecordAddsUp(d)
        /\ (n.appended => n.append) /\ ~NeedVerify(n) /\ d.uses < MaxUses
        /\ d.verifications <= d.uses
    BY <1>1, <1>2, <1>4, <2>1
  <2>3. /\ n.purpose = d.purpose /\ n.batch = d.batch /\ n.pos = d.pos
        /\ n.need <=> IsUserAuthAccess(n.purpose)
        /\ n.batch => ~n.appended
        /\ ~n.batch => (n.append <=> n.need /\ policy.secureSign)
        /\ ~d.finished
        /\ d.signed = (IF n.appended THEN 1 ELSE 0)
        /\ ~n.batch => d.work \subseteq {n.purpose}
    BY <2>2 DEF NodeFitsRecord, RecordAddsUp
  <2>4. /\ n.need => n.result = "success"
        /\ n.need => d.verifications = (IF n.batch THEN d.uses + 1 ELSE 1)
        /\ d.verifications <= d.uses + 1
    BY <2>2 DEF NodeFitsRecord, NeedVerify, Done
  <2>5. d.signed <= (IF n.need /\ policy.secureSign /\ n.purpose = "sign" /\ ~n.batch
                       THEN 1 ELSE 0)
    BY <2>2, <2>3 DEF RecordAddsUp
  <2>6. (\A j \in d.tokens : AcceptedFits(s, d, j)) /\ IssuedBefore(s, d)
    BY <1>1, <2>1
  <2> QED
    BY <2>1, <2>2, <2>3, <2>4, <2>5, <2>6
<1> QED
  BY <1>3, <1>4

(* HksBatchUpdate: one more check for one more update, whatever it is for. *)
LEMMA BatchUpdateInv ==
    ASSUME AccessInv, NEW s \in DOMAIN node, NEW purpose \in Purposes,
           NEW i \in 0 .. Len(token), HksBatchUpdate(s, purpose, i)
    PROVE  AccessInv'
<1>1. Live(s) /\ node[s].batch /\ Allowed(s, i) /\ done[s].uses < MaxUses
      /\ UNCHANGED <<policy, key, user, now, token>>
  BY DEF HksBatchUpdate
<1>2. CASE Delete(s) /\ UNCHANGED done
  BY <1>1, <1>2, DeleteStep
<1>3. CASE /\ node' = [node EXCEPT ![s] = BatchNode(Checked(@, i))]
           /\ done' = [done EXCEPT ![s] = [CheckedDone(s, i) EXCEPT !.uses = @ + 1,
                                                                 !.work = @ \cup {purpose}]]
  <2>1. PICK n, d : n = Checked(node[s], i) /\ d = CheckedDone(s, i)
    OBVIOUS
  <2>2. /\ n \in Nodes /\ d \in Done /\ n.batch
        /\ n.purpose = d.purpose /\ n.batch = d.batch /\ n.pos = d.pos
        /\ n.need <=> IsUserAuthAccess(n.purpose)
        /\ ~n.appended /\ d.signed = 0 /\ ~d.finished
        /\ d.uses < MaxUses /\ d.verifications <= d.uses + 1
        /\ n.need => d.verifications = d.uses + 1
        /\ \A j \in d.tokens : AcceptedFits(s, d, j)
        /\ IssuedBefore(s, d)
    BY <1>1, <2>1, CheckedSession
  <2>3. PICK m, e : m = BatchNode(n) /\ e = [d EXCEPT !.uses = @ + 1, !.work = @ \cup {purpose}]
    OBVIOUS
  <2>4. /\ m \in Nodes /\ m.purpose = n.purpose /\ m.batch = n.batch /\ m.pos = n.pos
        /\ m.need = n.need /\ m.appended = n.appended /\ m.result = "init"
    BY <2>2, <2>3 DEF BatchNode, Nodes
  <2>5. d.uses + 1 \in 0 .. MaxUses /\ d.work \cup {purpose} \subseteq {"sign", "verify"}
    BY <2>2, Constants DEF Done, Purposes
  <2>6. /\ e \in Done /\ e.purpose = d.purpose /\ e.batch = d.batch /\ e.pos = d.pos
        /\ e.uses = d.uses + 1 /\ e.verifications = d.verifications /\ e.signed = d.signed
        /\ e.finished = d.finished /\ e.tokens = d.tokens /\ e.issued = d.issued
    BY <2>2, <2>3, <2>5 DEF Done
  <2>7. NodeFitsRecord(m, e)
    BY <2>2, <2>4, <2>6 DEF NodeFitsRecord
  <2>8. RecordAddsUp(e)
    BY <2>2, <2>4, <2>6 DEF RecordAddsUp, Done
  <2>9. (\A j \in e.tokens : AcceptedFits(s, e, j)) /\ IssuedBefore(s, e)
    BY <2>2, <2>6 DEF AcceptedFits, IssuedBefore
  <2>10. SessionFits(s, m, e)
    BY <2>7, <2>8, <2>9 DEF SessionFits
  <2>11. node' = [node EXCEPT ![s] = m] /\ done' = [done EXCEPT ![s] = e]
    BY <1>3, <2>1, <2>3
  <2> QED
    BY <1>1, <2>2, <2>4, <2>6, <2>10, <2>11, SessionStep
<1> QED
  BY <1>2, <1>3 DEF HksBatchUpdate

(* HksCoreUpdate: the info goes in with the first data of a secure         *)
(* signature, and the node notes it.                                       *)
LEMMA UpdateInv ==
    ASSUME AccessInv, NEW s \in DOMAIN node, NEW i \in 0 .. Len(token), NEW empty,
           HksCoreUpdate(s, i, empty)
    PROVE  AccessInv'
<1>1. Live(s) /\ ~node[s].batch /\ Allowed(s, i) /\ done[s].uses < MaxUses
      /\ UNCHANGED <<policy, key, user, now, token>>
  BY DEF HksCoreUpdate
<1>2. PICK n, d : n = Checked(node[s], i) /\ d = CheckedDone(s, i)
  OBVIOUS
<1>3. CASE Delete(s) /\ UNCHANGED done
  BY <1>1, <1>3, DeleteStep
<1>4. CASE /\ node' = [node EXCEPT ![s] = Appended(n)]
           /\ done' = [done EXCEPT ![s] =
                [d EXCEPT !.uses = @ + 1, !.work = @ \cup {n.purpose},
                          !.signed = IF NeedsInfo(n) THEN @ + 1 ELSE @]]
  <2>2. /\ n \in Nodes /\ d \in Done /\ ~n.batch
        /\ n.purpose = d.purpose /\ n.batch = d.batch /\ n.pos = d.pos
        /\ n.need <=> IsUserAuthAccess(n.purpose)
        /\ n.need => n.result = "success"
        /\ n.appended => n.append
        /\ n.append <=> n.need /\ policy.secureSign
        /\ d.signed = (IF n.appended THEN 1 ELSE 0) /\ ~d.finished
        /\ d.signed <= (IF n.need /\ policy.secureSign /\ n.purpose = "sign" THEN 1 ELSE 0)
        /\ d.uses < MaxUses /\ d.verifications <= d.uses + 1
        /\ n.need => d.verifications = 1
        /\ d.work \subseteq {n.purpose}
        /\ \A j \in d.tokens : AcceptedFits(s, d, j)
        /\ IssuedBefore(s, d)
    BY <1>1, <1>2, CheckedSession
  <2>3. PICK m, e : /\ m = Appended(n)
                    /\ e = [d EXCEPT !.uses = @ + 1, !.work = @ \cup {n.purpose},
                                     !.signed = IF NeedsInfo(n) THEN @ + 1 ELSE @]
    OBVIOUS
  <2>4. /\ m \in Nodes /\ m.purpose = n.purpose /\ m.batch = n.batch /\ m.pos = n.pos
        /\ m.need = n.need /\ m.result = n.result /\ m.append = n.append
        /\ m.appended <=> n.appended \/ NeedsInfo(n)
    BY <2>2, <2>3 DEF Appended, Nodes
  <2>5. /\ d.uses + 1 \in 0 .. MaxUses
        /\ (IF NeedsInfo(n) THEN d.signed + 1 ELSE d.signed) \in 0 .. MaxUses
        /\ d.work \cup {n.purpose} = {d.purpose} /\ d.purpose \in {"sign", "verify"}
    BY <2>2, Constants DEF Done, NeedsInfo
  <2>6. /\ e \in Done /\ e.purpose = d.purpose /\ e.batch = d.batch /\ e.pos = d.pos
        /\ e.uses = d.uses + 1 /\ e.verifications = d.verifications
        /\ e.signed = (IF NeedsInfo(n) THEN d.signed + 1 ELSE d.signed)
        /\ e.finished = d.finished /\ e.tokens = d.tokens /\ e.issued = d.issued
        /\ e.work = {d.purpose}
    BY <2>2, <2>3, <2>5 DEF Done
  <2>7. NodeFitsRecord(m, e)
    BY <2>2, <2>4, <2>6 DEF NodeFitsRecord, NeedsInfo
  <2>8. RecordAddsUp(e)
    BY <2>2, <2>4, <2>6 DEF RecordAddsUp, NeedsInfo, Done
  <2>9. (\A j \in e.tokens : AcceptedFits(s, e, j)) /\ IssuedBefore(s, e)
    BY <2>2, <2>6 DEF AcceptedFits, IssuedBefore
  <2>10. SessionFits(s, m, e)
    BY <2>7, <2>8, <2>9 DEF SessionFits
  <2>11. node' = [node EXCEPT ![s] = m] /\ done' = [done EXCEPT ![s] = e]
    BY <1>4, <2>3
  <2>12. m.appended => m.append
    BY <2>2, <2>4 DEF NeedsInfo
  <2> QED
    BY <1>1, <2>4, <2>6, <2>10, <2>11, <2>12, SessionStep
<1> QED
  BY <1>2, <1>3, <1>4 DEF HksCoreUpdate

(* HksCoreFinish: a secure signature is handed out with the info only when *)
(* the info has been put in, here or by an update.                         *)
LEMMA FinishInv ==
    ASSUME AccessInv, NEW s \in DOMAIN node, NEW i \in 0 .. Len(token), NEW empty,
           HksCoreFinish(s, i, empty)
    PROVE  AccessInv'
<1>1. Live(s) /\ ~node[s].batch /\ Allowed(s, i) /\ done[s].uses < MaxUses
      /\ UNCHANGED <<policy, key, user, now, token>> /\ Delete(s)
  BY DEF HksCoreFinish
<1>2. PICK n, d : n = Checked(node[s], i) /\ d = CheckedDone(s, i)
  OBVIOUS
<1>3. CASE UNCHANGED done
  BY <1>1, <1>3, DeleteStep
<1>4. CASE /\ ShowsInfo(n) => Appended(n).appended
           /\ done' = [done EXCEPT ![s] =
                [d EXCEPT !.uses = @ + 1, !.finished = TRUE,
                          !.work = @ \cup {n.purpose},
                          !.signed = IF NeedsInfo(n) THEN @ + 1 ELSE @,
                          !.shown = ShowsInfo(n)]]
  <2>2. /\ n \in Nodes /\ d \in Done /\ ~n.batch
        /\ n.purpose = d.purpose /\ n.batch = d.batch
        /\ n.need <=> IsUserAuthAccess(n.purpose)
        /\ n.append <=> n.need /\ policy.secureSign
        /\ d.signed = (IF n.appended THEN 1 ELSE 0)
        /\ d.signed <= (IF n.need /\ policy.secureSign /\ n.purpose = "sign" THEN 1 ELSE 0)
        /\ d.uses < MaxUses /\ d.verifications <= d.uses + 1
        /\ n.need => d.verifications = 1
        /\ d.work \subseteq {n.purpose}
        /\ \A j \in d.tokens : AcceptedFits(s, d, j)
        /\ IssuedBefore(s, d)
    BY <1>1, <1>2, CheckedSession
  <2>3. PICK e : e = [d EXCEPT !.uses = @ + 1, !.finished = TRUE,
                               !.work = @ \cup {n.purpose},
                               !.signed = IF NeedsInfo(n) THEN @ + 1 ELSE @,
                               !.shown = ShowsInfo(n)]
    OBVIOUS
  <2>4. /\ d.uses + 1 \in 0 .. MaxUses
        /\ (IF NeedsInfo(n) THEN d.signed + 1 ELSE d.signed) \in 0 .. MaxUses
        /\ ShowsInfo(n) \in BOOLEAN
        /\ d.work \cup {n.purpose} = {d.purpose} /\ d.purpose \in {"sign", "verify"}
    BY <2>2, Constants DEF Done, NeedsInfo, ShowsInfo
  <2>5. /\ e \in Done /\ e.purpose = d.purpose /\ e.batch = d.batch /\ e.pos = d.pos
        /\ e.uses = d.uses + 1 /\ e.verifications = d.verifications
        /\ e.signed = (IF NeedsInfo(n) THEN d.signed + 1 ELSE d.signed)
        /\ e.shown <=> ShowsInfo(n)
        /\ e.tokens = d.tokens /\ e.issued = d.issued
        /\ e.work = {d.purpose}
    BY <2>2, <2>3, <2>4 DEF Done
  <2>6. RecordAddsUp(e)
    BY <2>2, <2>5 DEF RecordAddsUp, NeedsInfo, ShowsInfo, Done
  <2>7. (\A j \in e.tokens : AcceptedFits(s, e, j)) /\ IssuedBefore(s, e)
    BY <2>2, <2>5 DEF AcceptedFits, IssuedBefore
  <2>8. SessionFits(s, NoNode, e)
    BY <2>6, <2>7 DEF SessionFits
  <2>9. node' = [node EXCEPT ![s] = NoNode] /\ done' = [done EXCEPT ![s] = e]
    BY <1>1, <1>4, <2>3 DEF Delete
  <2> QED
    BY <1>1, <2>5, <2>8, <2>9, SessionStep
<1> QED
  BY <1>2, <1>3, <1>4 DEF HksCoreFinish

(* HksCoreInit: the new session is named by no token so far.               *)
LEMMA InitInv ==
    ASSUME AccessInv, NEW purpose \in Purposes, NEW batch \in BOOLEAN,
           NEW pos \in Positions, HksCoreInit(purpose, batch, pos)
    PROVE  AccessInv'
<1>1. PICK n, d :
        /\ n = [state |-> "live", purpose |-> purpose, pos |-> pos,
                need |-> IsUserAuthAccess(purpose),
                result |-> "init", append |-> IsUserAuthAccess(purpose) /\ policy.secureSign,
                appended |-> FALSE, time |-> now, batch |-> batch,
                deadline |-> now + BatchTimeout, verified |-> NoToken]
        /\ d = [purpose |-> purpose, batch |-> batch, issued |-> Len(token),
                pos |-> pos, uses |-> 0, verifications |-> 0, work |-> {}, tokens |-> {},
                signed |-> 0, shown |-> FALSE, finished |-> FALSE]
  OBVIOUS
<1>2. /\ node' = Append(node, n) /\ done' = Append(done, d)
      /\ key # NoKey /\ Len(node) < MaxSessions
      /\ UNCHANGED <<policy, key, user, now, token>>
  BY <1>1 DEF HksCoreInit
<1>3. now \in Nat /\ Len(token) \in 0 .. MaxTokens
  BY Sequences1, Constants DEF AccessInv, TypeOK
<1>4. n \in Nodes /\ d \in Done
  BY <1>1, <1>3, Constants DEF Nodes, Done, NoToken, IsUserAuthAccess, Purposes
<1>5. /\ node' \in Seq(Nodes \cup {NoNode}) /\ Len(node') = Len(node) + 1
      /\ \A s \in 1 .. Len(node') : node'[s] = IF s = Len(node) + 1 THEN n ELSE node[s]
  BY <1>2, <1>4, Sequences1, AppendProperties
<1>6. /\ done' \in Seq(Done) /\ Len(done') = Len(node) + 1
      /\ \A s \in 1 .. Len(node') : done'[s] = IF s = Len(node) + 1 THEN d ELSE done[s]
  BY <1>2, <1>4, <1>5, Sequences1, AppendProperties
<1>7. DOMAIN node' = 1 .. Len(node) + 1
  BY <1>5, LenProperties
<1>8. TypeOK'
  <2>1. ASSUME NEW s \in DOMAIN node', node'[s] # NoNode /\ node'[s].appended
        PROVE  node'[s].append
    <3>1. CASE s = Len(node) + 1
      BY <1>1, <1>5, <1>7, <2>1, <3>1
    <3>2. CASE s # Len(node) + 1
      BY <1>5, <1>7, <2>1, <3>2, Sequences1 DEF AccessInv, TypeOK
    <3> QED
      BY <3>1, <3>2
  <2>2. Len(node') <= MaxSessions /\ Len(done') = Len(node')
    BY <1>2, <1>5, <1>6, Sequences1, Constants
  <2> QED
    BY <1>2, <1>5, <1>6, <2>1, <2>2 DEF AccessInv, TypeOK, user
<1>9. SessionFits(Len(node) + 1, n, d)
  <2>1. NodeFitsRecord(n, d)
    BY <1>1, <1>4 DEF NodeFitsRecord, IsUserAuthAccess
  <2>2. RecordAddsUp(d)
    BY <1>1 DEF RecordAddsUp
  <2>3. IssuedBefore(Len(node) + 1, d)
    <3>1. d.issued = Len(token)
      BY <1>1
    <3> QED
      BY <3>1, Sequences1, ChallengeKnown DEF IssuedBefore
  <2> QED
    BY <1>1, <2>1, <2>2, <2>3 DEF SessionFits
<1>10. ASSUME NEW s \in DOMAIN node' PROVE SessionFits(s, node[s], done[s])'
  <2>1. CASE s = Len(node) + 1
    BY <2>1, <1>2, <1>5, <1>6, <1>7, <1>9, FitsStays
  <2>2. CASE s # Len(node) + 1
    <3>1. s \in 1 .. Len(node)
      BY <2>2, <1>7, Sequences1
    <3>2. SessionFits(s, node[s], done[s])
      BY <3>1, Sequences1 DEF AccessInv
    <3> QED
      BY <2>2, <3>2, <1>2, <1>5, <1>6, <1>7, FitsStays
  <2> QED
    BY <2>1, <2>2
<1>11. (\A i \in DOMAIN token : \A p \in Positions : token[i].challenge[p] <= Len(node))'
  <2>1. DOMAIN token' = 1 .. Len(token) /\ Len(node') = Len(node) + 1 /\ token' = token
    BY <1>2, <1>5, Sequences1
  <2> QED
    BY <2>1, Sequences1, ChallengeKnown
<1>12. CredentialsFit'
  BY <1>2, CredentialsStay DEF AccessInv
<1> QED
  BY <1>2, <1>8, <1>10, <1>11, <1>12 DEF AccessInv, NoKey

(* A new token names sessions that are open or were; the older tokens and  *)
(* what was accepted before stay.                                          *)
LEMMA AuthenticateInv ==
    ASSUME AccessInv, NEW shape \in TokenShapes, NEW c \in [Positions -> 0 .. Len(node)],
           Authenticate(shape, c)
    PROVE  AccessInv'
<1>1. PICK t : t = [challenge |-> c, time |-> now, shape |-> shape, secureUid |-> secureUid,
                    enrolledId |-> enrolledId[shape.type], at |-> Len(changes)]
  OBVIOUS
<1>2. /\ token' = Append(token, t) /\ Len(token) < MaxTokens
      /\ UNCHANGED <<policy, key, user, now, node, done>>
  BY <1>1 DEF Authenticate
<1>3. t \in Tokens
  <2>1. Len(node) \in 0 .. MaxSessions /\ now \in Nat /\ secureUid \in Nat
        /\ enrolledId \in [Types -> Nat]
    BY Sequences1, Constants DEF AccessInv, TypeOK
  <2>2. c \in [Positions -> 0 .. MaxSessions]
    BY <2>1, Constants
  <2>3. enrolledId[shape.type] \in Nat
    BY <2>1, SecureAccessAssumption DEF Types
  <2>4. Len(changes) \in Nat
    BY ChangesSoFar
  <2> QED
    BY <1>1, <2>1, <2>2, <2>3, <2>4 DEF Tokens
<1>4. /\ token' \in Seq(Tokens) /\ Len(token') = Len(token) + 1
      /\ \A i \in 1 .. Len(token) : token'[i] = token[i]
      /\ token'[Len(token) + 1] = t
      /\ DOMAIN token' = 1 .. Len(token) + 1
  BY <1>2, <1>3, Sequences1, AppendProperties, LenProperties
<1>5. TypeOK'
  <2>1. Len(token') <= MaxTokens
    BY <1>2, <1>4, Sequences1, Constants
  <2> QED
    BY <1>2, <1>4, <2>1 DEF AccessInv, TypeOK, user, Tokens
<1>6. ASSUME NEW i \in DOMAIN token', NEW p \in Positions
      PROVE  token'[i].challenge[p] <= Len(node)
  <2>1. CASE i = Len(token) + 1
    BY <1>1, <1>4, <2>1, Sequences1
  <2>2. CASE i # Len(token) + 1
    <3>1. i \in 1 .. Len(token)
      BY <1>4, <2>2, Sequences1
    <3> QED
      BY <3>1, <1>4, ChallengeKnown
  <2> QED
    BY <2>1, <2>2
<1>7. ASSUME NEW s \in DOMAIN node PROVE SessionFits(s, node[s], done[s])'
  <2>1. SessionFits(s, node[s], done[s]) /\ done[s] \in Done
    BY Sequences1 DEF AccessInv
  <2>2. node' = node /\ done' = done /\ policy' = policy /\ key' = key
    BY <1>2
  <2>3. (node[s] # NoNode => NodeFitsRecord(node[s], done[s]))'
    BY <2>1, <2>2 DEF SessionFits, NodeFitsRecord, IsUserAuthAccess, NoNode
  <2>4. RecordAddsUp(done[s])'
    BY <2>1, <2>2 DEF SessionFits, RecordAddsUp, IsUserAuthAccess
  <2>5. ASSUME NEW i \in done[s].tokens PROVE AcceptedFits(s, done[s], i)'
    <3>1. AcceptedFits(s, done[s], i)
      BY <2>1 DEF SessionFits
    <3>2. i \in 1 .. Len(token) /\ i \in DOMAIN token' /\ token'[i] = token[i]
      BY <3>1, <1>4, Sequences1 DEF AcceptedFits
    <3> QED
      BY <2>2, <3>1, <3>2 DEF AcceptedFits, VerifyAuthTokenInfo, VerifyEnrolledIdInfoIfNeed
  <2>6. IssuedBefore(s, done[s])'
    <3>1. done[s].issued <= Len(token) /\ done[s].issued \in Nat
          /\ \A i \in 1 .. done[s].issued : \A p \in Positions : token[i].challenge[p] < s
      BY <2>1, Constants DEF SessionFits, IssuedBefore, Done
    <3>2. \A i \in 1 .. done[s].issued : token'[i] = token[i]
      BY <3>1, <1>4, Sequences1
    <3> QED
      BY <2>2, <3>1, <3>2, <1>4, Sequences1 DEF IssuedBefore
  <2> QED
    BY <2>2, <2>3, <2>4, <2>5, <2>6 DEF SessionFits
<1>8. CredentialsFit'
  <2>1. secureUid' = secureUid /\ enrolledId' = enrolledId /\ changes' = changes /\ key' = key
    BY <1>2 DEF user
  <2>2. ASSUME NEW i \in DOMAIN token'
        PROVE  /\ token'[i].at <= Len(changes)
               /\ token'[i].secureUid = 1 + Times(changes, "set", token'[i].at)
               /\ token'[i].shape.type = "face"
                    => token'[i].enrolledId = 1 + Times(changes, "enrolled", token'[i].at)
    <3>1. CASE i = Len(token) + 1
      <4>1. token'[i] = t
        BY <1>4, <3>1
      <4>2. t.at = Len(changes) /\ t.secureUid = secureUid /\ t.shape = shape
            /\ t.enrolledId = enrolledId[shape.type]
        BY <1>1
      <4> QED
        BY <4>1, <4>2, ChangesSoFar DEF AccessInv, CredentialsFit
    <3>2. CASE i # Len(token) + 1
      <4>1. i \in DOMAIN token /\ token'[i] = token[i]
        BY <1>4, <3>2, Sequences1
      <4> QED
        BY <4>1 DEF AccessInv, CredentialsFit
    <3> QED
      BY <3>1, <3>2
  <2>3. NoKey' = NoKey
    BY DEF NoKey
  <2> QED
    BY <2>1, <2>2, <2>3 DEF AccessInv, CredentialsFit
<1> QED
  BY <1>2, <1>5, <1>6, <1>7, <1>8 DEF AccessInv, NoKey

(* How often a change is made is a number.                                 *)
LEMMA TimesCount ==
    ASSUME NEW s \in Seq(Changes), NEW e \in Changes, NEW n \in Nat
    PROVE  IsFiniteSet({k \in 1 .. n : s[k] = e}) /\ Times(s, e, n) \in Nat
<1>1. IsFiniteSet(1 .. n)
  BY FS_Interval
<1>2. {k \in 1 .. n : s[k] = e} \subseteq 1 .. n
  OBVIOUS
<1>3. IsFiniteSet({k \in 1 .. n : s[k] = e})
  BY <1>1, <1>2, FS_Subset
<1> QED
  BY <1>3, FS_CardinalityType DEF Times

(* A change adds one to how often it was made, and nothing to the counts   *)
(* of the changes before it.                                               *)
LEMMA TimesAppend ==
    ASSUME NEW s \in Seq(Changes), NEW c \in Changes, NEW e \in Changes
    PROVE  /\ \A n \in 0 .. Len(s) : Times(Append(s, c), e, n) = Times(s, e, n)
           /\ Times(Append(s, c), e, Len(s) + 1)
                = Times(s, e, Len(s)) + (IF c = e THEN 1 ELSE 0)
<1>1. /\ Len(s) \in Nat /\ Append(s, c)[Len(s) + 1] = c
      /\ \A k \in 1 .. Len(s) : Append(s, c)[k] = s[k]
  BY AppendProperties, LenProperties
<1>2. \A n \in 0 .. Len(s) :
        {k \in 1 .. n : Append(s, c)[k] = e} = {k \in 1 .. n : s[k] = e}
  BY <1>1
<1>3. IsFiniteSet({k \in 1 .. Len(s) : s[k] = e})
  BY <1>1, TimesCount
<1>4. CASE c = e
  <2>1. {k \in 1 .. Len(s) + 1 : Append(s, c)[k] = e}
          = {k \in 1 .. Len(s) : s[k] = e} \cup {Len(s) + 1}
    BY <1>1, <1>4
  <2>2. Len(s) + 1 \notin {k \in 1 .. Len(s) : s[k] = e}
    BY <1>1
  <2> QED
    BY <1>2, <1>3, <1>4, <2>1, <2>2, FS_AddElement DEF Times
<1>5. CASE c # e
  <2>1. {k \in 1 .. Len(s) + 1 : Append(s, c)[k] = e} = {k \in 1 .. Len(s) : s[k] = e}
    BY <1>1, <1>5
  <2>2. Times(s, e, Len(s)) \in Nat
    BY <1>1, TimesCount
  <2>3. Times(Append(s, c), e, Len(s) + 1) = Times(s, e, Len(s))
    BY <2>1 DEF Times
  <2>4. \A n \in 0 .. Len(s) : Times(Append(s, c), e, n) = Times(s, e, n)
    BY <1>2 DEF Times
  <2> QED
    BY <1>5, <2>2, <2>3, <2>4
<1> QED
  BY <1>4, <1>5

(* A change that was made between two times is counted at the later one    *)
(* only, so that the counts differ.                                        *)
LEMMA TimesGrow ==
    ASSUME NEW s \in Seq(Changes), NEW e \in Changes, NEW a \in Nat, NEW b \in Nat,
           NEW k \in 1 .. Len(s), s[k] = e, a < k, k <= b
    PROVE  Times(s, e, a) # Times(s, e, b)
<1>1. Len(s) \in Nat /\ k \in Nat
  BY LenProperties
<1>2. IsFiniteSet({m \in 1 .. b : s[m] = e})
  BY TimesCount
<1>3. {m \in 1 .. a : s[m] = e} \subseteq {m \in 1 .. b : s[m] = e}
  BY <1>1
<1>4. k \in {m \in 1 .. b : s[m] = e} /\ k \notin {m \in 1 .. a : s[m] = e}
  BY <1>1
<1> QED
  BY <1>2, <1>3, <1>4, FS_Subset DEF Times

(* Every change of the user's credentials is counted in what the user      *)
(* authentication service hands out from then on.                          *)
LEMMA ChangeFits ==
    ASSUME AccessInv, Change
    PROVE  CredentialsFit' /\ changes' \in Seq(Changes) /\ Len(changes') <= MaxChanges
<1>1. PICK c \in Changes : changes' = Append(changes, c)
                            /\ secureUid' = secureUid + (IF c = "set" THEN 1 ELSE 0)
                            /\ enrolledId'["face"] = enrolledId["face"]
                                                       + (IF c = "enrolled" THEN 1 ELSE 0)
  <2>1. secureUid \in Nat /\ enrolledId \in [Types -> Nat] /\ "face" \in Types
    BY DEF AccessInv, TypeOK, Types
  <2>2. CASE pinSet /\ changes' = Append(changes, "cleared") /\ UNCHANGED <<secureUid, enrolledId>>
    BY <2>1, <2>2 DEF Changes
  <2>3. CASE /\ changes' = Append(changes, "set")
             /\ secureUid' = secureUid + 1 /\ UNCHANGED enrolledId
    BY <2>1, <2>3 DEF Changes
  <2>4. CASE /\ enrolledId' = [enrolledId EXCEPT !["face"] = @ + 1]
             /\ changes' = Append(changes, "enrolled") /\ UNCHANGED secureUid
    BY <2>1, <2>4 DEF Changes
  <2> QED
    BY <2>2, <2>3, <2>4, Zenon DEF Change
<1>2. /\ UNCHANGED <<key, token>> /\ Len(changes) < MaxChanges
      /\ changes \in Seq(Changes) /\ Len(changes) \in Nat
  BY ChangesSoFar DEF Change
<1>3. changes' \in Seq(Changes) /\ Len(changes') = Len(changes) + 1
  BY <1>1, <1>2, AppendProperties
<1>4. /\ \A e \in Changes : \A n \in 0 .. Len(changes) : Times(changes', e, n) = Times(changes, e, n)
      /\ \A e \in Changes : Times(changes', e, Len(changes'))
           = Times(changes, e, Len(changes)) + (IF c = e THEN 1 ELSE 0)
  <2>1. /\ changes' = Append(changes, c) /\ Len(changes') = Len(changes) + 1
        /\ changes \in Seq(Changes) /\ c \in Changes
    BY <1>1, <1>2, <1>3
  <2>2. ASSUME NEW e \in Changes
        PROVE  /\ \A n \in 0 .. Len(changes) :
                    Times(Append(changes, c), e, n) = Times(changes, e, n)
               /\ Times(Append(changes, c), e, Len(changes) + 1)
                    = Times(changes, e, Len(changes)) + (IF c = e THEN 1 ELSE 0)
    BY <2>1, TimesAppend
  <2> QED
    BY <2>1, <2>2
<1>5. "set" \in Changes /\ "enrolled" \in Changes
  BY DEF Changes
<1>6. \A e \in Changes : Times(changes, e, Len(changes)) \in Nat
  BY <1>2, TimesCount
<1>7. secureUid' = 1 + Times(changes', "set", Len(changes'))
  BY <1>1, <1>4, <1>5, <1>6 DEF AccessInv, CredentialsFit
<1>8. enrolledId'["face"] = 1 + Times(changes', "enrolled", Len(changes'))
  BY <1>1, <1>4, <1>5, <1>6 DEF AccessInv, CredentialsFit
<1>9. key # NoKey =>
        /\ key.at <= Len(changes')
        /\ key.secureUid = 1 + Times(changes', "set", key.at)
        /\ key.enrolled["face"] = 1 + Times(changes', "enrolled", key.at)
  <2> SUFFICES ASSUME key # NoKey PROVE
        /\ key.at <= Len(changes')
        /\ key.secureUid = 1 + Times(changes', "set", key.at)
        /\ key.enrolled["face"] = 1 + Times(changes', "enrolled", key.at)
    OBVIOUS
  <2>1. key.at \in 0 .. Len(changes)
    BY ChangesSoFar DEF AccessInv, CredentialsFit
  <2> QED
    BY <2>1, <1>2, <1>3, <1>4, <1>5 DEF AccessInv, CredentialsFit
<1>10. ASSUME NEW i \in DOMAIN token
       PROVE  /\ token[i].at <= Len(changes')
              /\ token[i].secureUid = 1 + Times(changes', "set", token[i].at)
              /\ token[i].shape.type = "face"
                   => token[i].enrolledId = 1 + Times(changes', "enrolled", token[i].at)
  <2>1. token[i].at \in 0 .. Len(changes)
    BY ChangesSoFar, Sequences1 DEF AccessInv, CredentialsFit
  <2> QED
    BY <2>1, <1>2, <1>3, <1>4, <1>5 DEF AccessInv, CredentialsFit
<1>11. NoKey' = NoKey /\ key' = key /\ token' = token
  BY <1>2 DEF NoKey
<1>12. CredentialsFit'
  BY <1>7, <1>8, <1>9, <1>10, <1>11 DEF CredentialsFit
<1> QED
  BY <1>2, <1>3, <1>12, Constants

(* The other steps leave sessions and tokens alone; the key is made before *)
(* the first session.                                                      *)
LEMMA OtherInv ==
    ASSUME AccessInv, Tick \/ Change \/ HksServiceGenerateKey \/ UNCHANGED vars
    PROVE  AccessInv'
<1>1. UNCHANGED <<policy, token, node, done>>
  BY DEF Tick, Change, HksServiceGenerateKey, vars
<1>2. TypeOK'
  <2>1. CASE Tick
    BY <1>1, <2>1, Constants DEF Tick, AccessInv, TypeOK, user
  <2>2. CASE Change
    <3>1. changes' \in Seq(Changes) /\ Len(changes') <= MaxChanges
      BY <2>2, ChangeFits
    <3>2. secureUid' \in Nat /\ pinSet' \in BOOLEAN
      <4>1. secureUid' \in Nat
        BY <2>2 DEF Change, AccessInv, TypeOK
      <4>2. pinSet' \in BOOLEAN
        BY <2>2, Zenon DEF Change, AccessInv, TypeOK
      <4> QED
        BY <4>1, <4>2
    <3>3. enrolledId' \in [Types -> Nat]
      BY <2>2 DEF Change, AccessInv, TypeOK, Types
    <3> QED
      BY <1>1, <2>2, <3>1, <3>2, <3>3 DEF Change, AccessInv, TypeOK
  <2>3. CASE HksServiceGenerateKey
    <3>1. Len(changes) \in Nat /\ secureUid \in Nat /\ enrolledId \in [Types -> Nat]
      BY ChangesSoFar DEF AccessInv, TypeOK
    <3> QED
      BY <1>1, <2>3, <3>1 DEF HksServiceGenerateKey, AccessInv, TypeOK, user
  <2>4. CASE UNCHANGED vars
    BY <2>4 DEF vars, user, AccessInv, TypeOK
  <2> QED
    BY <2>1, <2>2, <2>3, <2>4
<1>5. CredentialsFit'
  <2>1. CASE Change
    BY <2>1, ChangeFits
  <2>2. CASE Tick \/ UNCHANGED vars
    <3>1. UNCHANGED <<key, user, token>>
      BY <2>2 DEF Tick, vars
    <3> QED
      BY <3>1, CredentialsStay DEF AccessInv
  <2>3. CASE HksServiceGenerateKey
    <3>1. /\ key'.secureUid = secureUid /\ key'.enrolled = enrolledId /\ key'.at = Len(changes)
          /\ UNCHANGED <<secureUid, enrolledId, changes, token>>
      BY <2>3 DEF HksServiceGenerateKey, user
    <3> QED
      BY <3>1, ChangesSoFar DEF AccessInv, CredentialsFit
  <2> QED
    BY <2>1, <2>2, <2>3
<1>3. CASE node = <<>>
  <2>1. DOMAIN node = {} /\ node' = <<>>
    BY <1>1, <1>3
  <2> QED
    BY <1>1, <1>2, <1>5, <2>1 DEF AccessInv
<1>4. CASE node # <<>>
  <2>1. key' = key
    BY <1>4 DEF Tick, Change, HksServiceGenerateKey, vars, AccessInv
  <2>2. \A s \in DOMAIN node : SessionFits(s, node[s], done[s])'
    BY <1>1, <2>1, FitsStays DEF AccessInv
  <2> QED
    BY <1>1, <1>2, <1>5, <2>1, <2>2 DEF AccessInv, NoKey
<1> QED
  BY <1>3, <1>4

(* Every step keeps the invariant: the sessions of any number of requests  *)
(* in any order, tokens, time and changes of the user's credentials.       *)
THEOREM AccessInvariant == Spec => []AccessInv
<1>1. Init => AccessInv
  <2> SUFFICES ASSUME Init PROVE AccessInv
    OBVIOUS
  <2>1. /\ token = <<>> /\ node = <<>> /\ done = <<>>
        /\ DOMAIN token = {} /\ DOMAIN node = {} /\ Len(token) = 0 /\ Len(node) = 0
    BY DEF Init
  <2>2. NoKey \in [secureUid : Nat, enrolled : [Types -> Nat], at : Nat]
    BY DEF NoKey, Types
  <2>3. TypeOK
    BY <2>1, <2>2, Constants DEF Init, TypeOK
  <2>4. CredentialsFit
    <3>1. changes = <<>> /\ Len(changes) = 0 /\ 1 .. 0 = {} /\ key = NoKey
          /\ secureUid = 1 /\ enrolledId["face"] = 1
      BY DEF Init, Types
    <3>2. \A e \in Changes : Times(changes, e, 0) = 0
      BY FS_EmptySet DEF Times
    <3> QED
      BY <2>1, <3>1, <3>2 DEF CredentialsFit, Changes
  <2> QED
    BY <2>1, <2>3, <2>4 DEF AccessInv
<1>2. AccessInv /\ [Next]_vars => AccessInv'
  <2> SUFFICES ASSUME AccessInv, [Next]_vars PROVE AccessInv'
    OBVIOUS
  <2>1. CASE Tick \/ Change \/ HksServiceGenerateKey \/ UNCHANGED vars
    BY <2>1, OtherInv
  <2>2. ASSUME NEW shape \in TokenShapes, NEW c \in [Positions -> 0 .. Len(node)],
               Authenticate(shape, c)
        PROVE  AccessInv'
    BY <2>2, AuthenticateInv
  <2>3. ASSUME NEW purpose \in Purposes, NEW batch \in BOOLEAN, NEW pos \in Positions,
               HksCoreInit(purpose, batch, pos)
        PROVE  AccessInv'
    BY <2>3, InitInv
  <2>4. ASSUME NEW s \in DOMAIN node, HksCoreAbort(s)
        PROVE  AccessInv'
    BY <2>4, DeleteStep DEF HksCoreAbort
  <2>5. ASSUME NEW s \in DOMAIN node, NEW i \in 0 .. Len(token), Rejected(s, i)
        PROVE  AccessInv'
    BY <2>5, DeleteStep DEF Rejected
  <2>6. ASSUME NEW s \in DOMAIN node, NEW purpose \in Purposes, NEW i \in 0 .. Len(token),
               HksBatchUpdate(s, purpose, i)
        PROVE  AccessInv'
    BY <2>6, BatchUpdateInv
  <2>7. ASSUME NEW s \in DOMAIN node, NEW i \in 0 .. Len(token), NEW empty \in BOOLEAN,
               HksCoreUpdate(s, i, empty)
        PROVE  AccessInv'
    BY <2>7, UpdateInv
  <2>8. ASSUME NEW s \in DOMAIN node, NEW i \in 0 .. Len(token), NEW empty \in BOOLEAN,
               HksCoreFinish(s, i, empty)
        PROVE  AccessInv'
    BY <2>8, FinishInv
  <2> QED
    BY <2>1, <2>2, <2>3, <2>4, <2>5, <2>6, <2>7, <2>8 DEF Next
<1> QED
  BY <1>1, <1>2, PTL DEF Spec

(* Type correctness of the model of user authentication.                   *)
THEOREM AccessTypes == Spec => []TypeOK
<1>1. AccessInv => TypeOK
  BY DEF AccessInv
<1> QED
  BY <1>1, AccessInvariant, PTL

(* No work under access control is done before HksCoreSecureAccessVerify- *)
(* Params accepted a token in the session, and every update of a batch had *)
(* one, but for a batch that was opened for a purpose outside of access    *)
(* control.                                                                *)
THEOREM Authorised == Spec => []AuthorisedBeforeUse
<1>1. AccessInv => AuthorisedBeforeUse
  <2> SUFFICES ASSUME AccessInv, NEW s \in DOMAIN done
               PROVE  IF done[s].batch THEN Controlled(s) => done[s].verifications >= done[s].uses
                      ELSE (\E purpose \in done[s].work : IsUserAuthAccess(purpose))
                             => done[s].verifications = 1
    BY DEF AuthorisedBeforeUse
  <2>1. RecordAddsUp(done[s]) /\ done[s] \in Done
    BY Sequences1 DEF AccessInv, SessionFits
  <2>2. CASE done[s].batch
    BY <2>1, <2>2, Constants DEF RecordAddsUp, Controlled, Done
  <2>3. CASE ~done[s].batch
    <3> SUFFICES ASSUME NEW purpose \in done[s].work, IsUserAuthAccess(purpose)
                 PROVE  done[s].verifications = 1
      BY <2>3
    <3>1. purpose = done[s].purpose /\ done[s].uses # 0
      BY <2>1, <2>3 DEF RecordAddsUp
    <3> QED
      BY <2>1, <2>3, <3>1, Constants DEF RecordAddsUp, Done
  <2> QED
    BY <2>2, <2>3
<1> QED
  BY <1>1, AccessInvariant, PTL

(* A token opens no session but the one its challenge was made by          *)
(* (VerifyChallengeOrTimeStamp), and none that began after it was issued.  *)
THEOREM NoReplay == Spec => []TokenNotReplayed
<1>1. AccessInv => TokenNotReplayed
  <2> SUFFICES ASSUME AccessInv, policy.challenge # "none",
                      NEW s \in DOMAIN done, NEW r \in DOMAIN done, NEW i \in done[s].tokens
               PROVE  /\ i > done[s].issued
                      /\ i \in done[r].tokens /\ r # s =>
                           policy.challenge = "custom" /\ done[r].pos # done[s].pos
    BY DEF TokenNotReplayed
  <2>1. s \in 1 .. Len(node) /\ r \in 1 .. Len(node) /\ done[s] \in Done /\ done[r] \in Done
    BY Sequences1
  <2>2. /\ AcceptedFits(s, done[s], i) /\ IssuedBefore(s, done[s])
        /\ i \in done[r].tokens => AcceptedFits(r, done[r], i)
    BY <2>1, Sequences1 DEF AccessInv, SessionFits
  <2>3. policy.challenge \in {"normal", "custom"}
    BY SecureAccessAssumption DEF AccessInv, TypeOK
  <2>4. done[s].pos \in Positions /\ done[r].pos \in Positions /\ done[s].issued \in Nat
    BY <2>1, Constants DEF Done
  <2>5. token[i].challenge[done[s].pos] = s /\ i \in 1 .. Len(token)
    BY <2>2, <2>3, <2>4, Sequences1 DEF AcceptedFits
  <2>6. i > done[s].issued
    <3>1. ASSUME i <= done[s].issued PROVE FALSE
      <4>1. i \in 1 .. done[s].issued
        BY <2>4, <2>5, <3>1, Sequences1
      <4>2. token[i].challenge[done[s].pos] < s
        BY <2>2, <2>4, <4>1 DEF IssuedBefore
      <4> QED
        BY <2>1, <2>5, <4>2, Sequences1
    <3> QED
      BY <2>4, <2>5, <3>1, Sequences1
  <2>7. ASSUME i \in done[r].tokens, r # s
        PROVE  policy.challenge = "custom" /\ done[r].pos # done[s].pos
    BY <2>2, <2>3, <2>4, <2>5, <2>7 DEF AcceptedFits
  <2> QED
    BY <2>6, <2>7
<1> QED
  BY <1>1, AccessInvariant, PTL

(* No token opens a key that another setting of the password, or for a     *)
(* face an enrolment, separates it from (VerifySecureUidIfNeed, VerifyEn-  *)
(* rolledIdInfoIfNeed): what a key and a token carry is how often each     *)
(* change was made before them, and a change in between makes the counts   *)
(* differ.                                                                 *)
THEOREM Invalidated == Spec => []InvalidatedForGood
<1>1. AccessInv => InvalidatedForGood
  <2> SUFFICES ASSUME AccessInv, NEW s \in DOMAIN done, NEW i \in done[s].tokens
               PROVE  /\ "password" \in policy.access => ~Between("set", key.at, token[i].at)
                      /\ "bio" \in policy.access /\ token[i].shape.type = "face"
                           => ~Between("enrolled", key.at, token[i].at)
    BY DEF InvalidatedForGood
  <2>1. VerifyAuthTokenInfo(token[i]) /\ i \in DOMAIN token /\ key # NoKey
    <3>1. s \in DOMAIN node /\ SessionFits(s, node[s], done[s]) /\ node # <<>>
      BY Sequences1 DEF AccessInv
    <3> QED
      BY <3>1 DEF AccessInv, SessionFits, AcceptedFits
  <2>2. key.at \in Nat /\ token[i].at \in Nat /\ changes \in Seq(Changes)
        /\ DOMAIN changes = 1 .. Len(changes)
    BY <2>1, ChangesSoFar, Sequences1
  <2>3. ASSUME NEW e \in Changes, Between(e, key.at, token[i].at)
        PROVE  Times(changes, e, key.at) # Times(changes, e, token[i].at)
    <3>1. PICK k \in 1 .. Len(changes) :
            changes[k] = e /\ ~(key.at < k <=> token[i].at < k)
      BY <2>2, <2>3 DEF Between
    <3>2. CASE key.at < k
      BY <2>2, <3>1, <3>2, TimesGrow
    <3>3. CASE token[i].at < k
      BY <2>2, <3>1, <3>3, TimesGrow
    <3> QED
      BY <3>1, <3>2, <3>3
  <2>4. "set" \in Changes /\ "enrolled" \in Changes
    BY DEF Changes
  <2>5. ASSUME "password" \in policy.access PROVE ~Between("set", key.at, token[i].at)
    <3>1. token[i].secureUid = key.secureUid
      BY <2>1, <2>5 DEF VerifyAuthTokenInfo
    <3>2. Times(changes, "set", key.at) = Times(changes, "set", token[i].at)
      <4>1. 1 + Times(changes, "set", key.at) = 1 + Times(changes, "set", token[i].at)
        BY <2>1, <3>1 DEF AccessInv, CredentialsFit
      <4>2. Times(changes, "set", key.at) \in Nat /\ Times(changes, "set", token[i].at) \in Nat
        BY <2>2, <2>4, TimesCount
      <4> QED
        BY <4>1, <4>2
    <3> QED
      BY <2>3, <2>4, <3>2
  <2>6. ASSUME "bio" \in policy.access, token[i].shape.type = "face"
        PROVE  ~Between("enrolled", key.at, token[i].at)
    <3>1. token[i].enrolledId = key.enrolled["face"]
      BY <2>1, <2>6 DEF VerifyAuthTokenInfo, VerifyEnrolledIdInfoIfNeed
    <3>2. Times(changes, "enrolled", key.at) = Times(changes, "enrolled", token[i].at)
      <4>1. 1 + Times(changes, "enrolled", key.at) = 1 + Times(changes, "enrolled", token[i].at)
        BY <2>1, <2>6, <3>1 DEF AccessInv, CredentialsFit
      <4>2. Times(changes, "enrolled", key.at) \in Nat /\ Times(changes, "enrolled", token[i].at) \in Nat
        BY <2>2, <2>4, TimesCount
      <4> QED
        BY <4>1, <4>2
    <3> QED
      BY <2>3, <2>4, <3>2
  <2> QED
    BY <2>5, <2>6
<1> QED
  BY <1>1, AccessInvariant, PTL

(* The authentication info is signed once and handed out with the          *)
(* signature, whatever pieces the data came in.                            *)
THEOREM InfoOnce == Spec => []InfoSignedOnce
<1>1. AccessInv => InfoSignedOnce
  <2> SUFFICES ASSUME AccessInv, NEW s \in DOMAIN done
               PROVE  RecordAddsUp(done[s])
    BY DEF InfoSignedOnce, RecordAddsUp, Controlled
  <2> QED
    BY Sequences1 DEF AccessInv, SessionFits
<1> QED
  BY <1>1, AccessInvariant, PTL
=============================================================================
