---------------------------- MODULE AccessProofs ----------------------------
(***************************************************************************)
(* Proofs about Access: what holds of tokens, settings, tickets, audit       *)
(* entries and the limiter for any number of operators and requests.         *)
(*                                                                         *)
(* The inductive invariant has four parts, one per subject.  The first says   *)
(* what a request in progress knows of its operator and carries the others,   *)
(* which do not depend on one another.                                       *)
(***************************************************************************)
EXTENDS Access, FiniteSetTheorems, SequenceTheorems, TLAPS

Scopes == {"admin", "readonly"}
Who == [id : TokenIDs, scope : Scopes] \cup {Root}
Operation ==
  [step : {"use", "act", "revoke", "sidecar", "runtimes", "audit"}, who : Who, ask : Asks,
   req : Nat, at : Nat, answer : Versions \cup {Unset}]
Token == [status : {"absent", "active", "revoked"}, scope : Scopes, used : Nat, revoked : Nat,
          by : TokenIDs \cup {Root.id}, req : Nat, ended : Nat]
Entry == [req : Nat, ask : Asks, name : TokenIDs \cup {Root.id, "unknown"}, at : Nat]
Settings == [sidecar : Versions \cup {Unset}, runtimes : Versions \cup {Unset}]
History ==
  [audited : SUBSET Entry, cut : SUBSET Nat, used : SUBSET Templates,
   expires : UNION {[D -> Nat] : D \in SUBSET Tickets},
   streams : [Tickets -> Seq(Nat)], through : [Clients -> Seq(Nat)]]

Shapes ==
  /\ deploy \in Deployments /\ now \in Nat /\ accepted \in Nat
  /\ tokens \in [TokenIDs -> Token]
  /\ settings \in Settings
  /\ ops \in [Requests -> Operation \cup {Idle}]
  /\ history \in History

\* A token that was made keeps its scope, so what a request learned of its
\* operator when it was accepted is still true whenever it acts.
Known(id, scope) == id \in TokenIDs => tokens[id].status # "absent" /\ tokens[id].scope = scope

KnowsOperator(op) ==
  /\ op.step = "use" => op.who.id \in TokenIDs
  /\ Known(op.who.id, op.who.scope)
  /\ op.step # "use" /\ op.ask.do \notin Reads => op.who.scope = "admin"

\* What a request has read or decided by the time of its step.
KnowsStep(op) ==
  /\ op.step = "revoke" => op.ask.do = "revokeToken" /\ tokens[op.ask.token].status # "absent"
  /\ op.step = "sidecar" => op.ask.runtimes \in {Omitted, op.answer}
  /\ op.step = "runtimes" => op.ask.runtimes = op.answer
  /\ op.step \in {"sidecar", "runtimes"} => op.ask.do = "putSettings"

Core ==
  /\ Shapes
  /\ \A r \in Requests : ops[r] # Idle => KnowsOperator(ops[r]) /\ KnowsStep(ops[r])
  /\ \A t \in TokenIDs : Known(tokens[t].by, "admin") /\ tokens[t].used <= now
  /\ \A e \in history.audited : e.ask.do \notin Reads => Known(e.name, "admin")
-----------------------------------------------------------------------------
(* The history *)

\* A field noted is the field's new value, and the others stay.
LEMMA NoteAudited ==
  ASSUME history \in History, NEW v \in SUBSET Entry, Note("audited", v)
  PROVE  /\ history' \in History /\ history'.audited = v
         /\ history'.cut = history.cut /\ history'.used = history.used
         /\ history'.expires = history.expires /\ history'.streams = history.streams
         /\ history'.through = history.through
BY DEF Note, History

LEMMA NoteCut ==
  ASSUME history \in History, NEW v \in SUBSET Nat, Note("cut", v)
  PROVE  /\ history' \in History /\ history'.cut = v
         /\ history'.audited = history.audited /\ history'.used = history.used
         /\ history'.expires = history.expires /\ history'.streams = history.streams
         /\ history'.through = history.through
BY DEF Note, History
LEMMA NoteUsed ==
  ASSUME history \in History, NEW v \in SUBSET Templates,
         Note("used", v)
  PROVE  /\ history' \in History /\ history'.used = v
         /\ history'.audited = history.audited /\ history'.cut = history.cut
         /\ history'.expires = history.expires /\ history'.streams = history.streams
         /\ history'.through = history.through
BY DEF Note, History

LEMMA NoteExpires ==
  ASSUME history \in History, NEW v \in UNION {[D -> Nat] : D \in SUBSET Tickets},
         Note("expires", v)
  PROVE  /\ history' \in History /\ history'.expires = v
         /\ history'.audited = history.audited /\ history'.cut = history.cut
         /\ history'.used = history.used /\ history'.streams = history.streams
         /\ history'.through = history.through
BY DEF Note, History

LEMMA NoteStreams ==
  ASSUME history \in History, NEW v \in [Tickets -> Seq(Nat)],
         Note("streams", v)
  PROVE  /\ history' \in History /\ history'.streams = v
         /\ history'.audited = history.audited /\ history'.cut = history.cut
         /\ history'.used = history.used /\ history'.expires = history.expires
         /\ history'.through = history.through
BY DEF Note, History

LEMMA NoteThrough ==
  ASSUME history \in History, NEW v \in [Clients -> Seq(Nat)],
         Note("through", v)
  PROVE  /\ history' \in History /\ history'.through = v
         /\ history'.audited = history.audited /\ history'.cut = history.cut
         /\ history'.used = history.used /\ history'.expires = history.expires
         /\ history'.streams = history.streams
BY DEF Note, History

-----------------------------------------------------------------------------
(* Requests and their operators *)

\* Tokens that were made stay what they are, but for their status and last use.
TokensKept ==
  \A t \in TokenIDs : tokens[t].status # "absent" =>
    /\ tokens'[t].status # "absent" /\ tokens'[t].scope = tokens[t].scope
    /\ tokens'[t].by = tokens[t].by /\ tokens'[t].req = tokens[t].req

LEMMA IdentityKnown ==
  ASSUME Core, NEW cred \in Credentials, AuthorizeIdentity(cred) # Denied
  PROVE  /\ AuthorizeIdentity(cred) \in Who
         /\ Known(AuthorizeIdentity(cred).id, AuthorizeIdentity(cred).scope)
         /\ AuthorizeIdentity(cred).id \notin TokenIDs => AuthorizeIdentity(cred) = Root
BY AccessBounds DEF Core, Shapes, Token, AuthorizeIdentity, VerifyOperatorToken, Root, Denied, Who, Known,
   Scopes

\* What Core asks of the requests and the rest holds after a step of request r that
\* keeps the tokens, if it holds of r and of the entry r may have written.
LEMMA CoreStep ==
  ASSUME Core, Shapes', TokensKept, now <= now', NEW r \in Requests,
         \A q \in Requests \ {r} : ops'[q] = ops[q],
         ops'[r] # Idle => (KnowsOperator(ops[r]) /\ KnowsStep(ops[r]))',
         \A t \in TokenIDs : tokens[t].status = "absent" => Known(tokens[t].by, "admin")',
         \A t \in TokenIDs : tokens'[t].used <= now',
         \A e \in history'.audited \ history.audited : e.ask.do \notin Reads => Known(e.name, "admin")
  PROVE  Core'
<1>1. \A id, scope : Known(id, scope) => (id \in TokenIDs => tokens'[id].status # "absent" /\ tokens'[id].scope = scope)
  BY DEF Known, TokensKept
<1>2. ASSUME NEW q \in Requests, ops'[q] # Idle
      PROVE  (KnowsOperator(ops[q]) /\ KnowsStep(ops[q]))'
  <2>1. CASE q = r
    BY <2>1, <1>2
  <2>2. CASE q # r
    <3>1. ops'[q] = ops[q] /\ KnowsOperator(ops[q]) /\ KnowsStep(ops[q]) /\ ops[q] \in Operation
      BY <2>2, <1>2 DEF Core, Shapes
    <3>2. KnowsOperator(ops[q])'
      BY <3>1, <1>1 DEF KnowsOperator, Known
    <3>3. ops[q].ask.do = "revokeToken" => ops[q].ask.token \in TokenIDs
      BY <3>1 DEF Operation, Asks
    <3>4. KnowsStep(ops[q])'
      BY <3>1, <3>3 DEF KnowsStep, TokensKept
    <3> QED BY <3>2, <3>4
  <2> QED BY <2>1, <2>2
<1>3. \A t \in TokenIDs : Known(tokens[t].by, "admin")'
  BY <1>1 DEF Core, Known, TokensKept
<1>4. \A e \in history'.audited : e.ask.do \notin Reads => Known(e.name, "admin")'
  BY <1>1 DEF Core, Known
<1> QED BY <1>2, <1>3, <1>4 DEF Core

\* Where tokens and time stay, it is enough that the request is still one that knows
\* what it must, and that an entry it writes names an operator who may.
LEMMA CoreMove ==
  ASSUME Core, NEW r \in Requests, NEW op, Become(r, op),
         op = Idle \/ (op \in Operation /\ KnowsOperator(op) /\ KnowsStep(op)),
         UNCHANGED <<deploy, tokens, now>>,
         settings' \in Settings, accepted' \in Nat, history' \in History,
         \A e \in history'.audited \ history.audited : e.ask.do \notin Reads => Known(e.name, "admin")
  PROVE  Core'
<1>1. Shapes'
  BY DEF Core, Shapes, Become
<1>2. /\ \A q \in Requests \ {r} : ops'[q] = ops[q]
      /\ ops'[r] = op
  BY DEF Core, Shapes, Become
<1>3. ops'[r] # Idle => (KnowsOperator(ops[r]) /\ KnowsStep(ops[r]))'
  BY <1>2 DEF KnowsOperator, KnowsStep, Known
<1>4. TokensKept
  BY DEF TokensKept
<1>5. /\ \A t \in TokenIDs : Known(tokens[t].by, "admin")'
      /\ \A t \in TokenIDs : tokens'[t].used <= now'
      /\ now <= now'
  BY DEF Core, Shapes, Known
<1> QED BY <1>1, <1>2, <1>3, <1>4, <1>5, CoreStep

\* What Core says of one request in progress.
LEMMA CoreOp ==
  ASSUME Core, NEW r \in Requests, ops[r].step # "idle"
  PROVE  /\ ops[r] # Idle /\ ops[r] \in Operation
         /\ KnowsOperator(ops[r]) /\ KnowsStep(ops[r])
         /\ now \in Nat /\ history \in History /\ accepted \in Nat
BY DEF Core, Shapes, Idle

LEMMA AuthorizedKnows ==
  ASSUME NEW op \in Operation, op.step = "use" \/ op.who = Root, Known(op.who.id, op.who.scope)
  PROVE  \/ authorizeOperator(op) = Idle
         \/ /\ authorizeOperator(op) \in Operation
            /\ KnowsOperator(authorizeOperator(op)) /\ KnowsStep(authorizeOperator(op))
            /\ authorizeOperator(op).step = "act"
            /\ authorizeOperator(op).req = op.req
<1>1. op.who.scope = "readonly" \/ op.who.scope = "admin"
  BY DEF Operation, Who, Root, Scopes
<1>2. CASE op.who.scope = "readonly" /\ op.ask.do \notin Reads
  BY <1>2 DEF authorizeOperator
<1>3. CASE ~(op.who.scope = "readonly" /\ op.ask.do \notin Reads)
  <2> DEFINE new == [op EXCEPT !.step = "act"]
  <2>1. authorizeOperator(op) = new
    BY <1>3 DEF authorizeOperator
  <2>2. new \in Operation /\ new.step = "act" /\ new.who = op.who /\ new.ask = op.ask /\ new.req = op.req
    BY DEF Operation
  <2>3. KnowsOperator(new)
    BY <2>2, <1>1, <1>3 DEF KnowsOperator
  <2>4. KnowsStep(new)
    BY <2>2 DEF KnowsStep
  <2> QED BY <2>1, <2>2, <2>3, <2>4
<1> QED BY <1>2, <1>3

LEMMA CoreAccept ==
  ASSUME Core, NEW r \in Requests, NEW cred \in Credentials, NEW ask \in Asks, accept(r, cred, ask)
  PROVE  Core'
<1> DEFINE who == AuthorizeIdentity(cred)
           op == [step |-> "use", who |-> who, ask |-> ask, req |-> accepted + 1, at |-> now, answer |-> Unset]
<1>1. who # Denied
  BY DEF accept
<1>2. who \in Who /\ Known(who.id, who.scope) /\ (who.id \notin TokenIDs => who = Root)
  BY <1>1, IdentityKnown
<1>3. accepted \in Nat /\ now \in Nat /\ history \in History
  BY DEF Core, Shapes
<1>4. /\ Become(r, IF who.id \in TokenIDs THEN op ELSE authorizeOperator(op))
      /\ accepted' = accepted + 1 /\ UNCHANGED <<deploy, tokens, now>>
      /\ history' = history /\ settings' \in Settings
  BY DEF accept, tables, Core, Shapes
<1>5. /\ op \in Operation /\ op.step = "use" /\ op.who = who
      /\ KnowsStep(op) /\ (who.id \in TokenIDs => KnowsOperator(op))
  <2> HIDE DEF who
  <2>1. op \in Operation /\ op.step = "use" /\ op.who = who
    BY <1>2, <1>3 DEF Operation
  <2> HIDE DEF op
  <2> QED BY <2>1, <1>2 DEF KnowsStep, KnowsOperator
<1>6. CASE who.id \in TokenIDs
  <2> HIDE DEF who, op
  <2> QED BY <1>3, <1>4, <1>5, <1>6, CoreMove
<1>7. CASE who.id \notin TokenIDs
  <2> HIDE DEF op
  <2>1. who = Root
    BY <1>2, <1>7
  <2> HIDE DEF who
  <2>2. \/ authorizeOperator(op) = Idle
        \/ /\ authorizeOperator(op) \in Operation
           /\ KnowsOperator(authorizeOperator(op)) /\ KnowsStep(authorizeOperator(op))
    BY <2>1, <1>2, <1>5, AuthorizedKnows
  <2> QED BY <2>2, <1>3, <1>4, <1>7, CoreMove
<1> QED BY <1>6, <1>7

LEMMA CoreUse ==
  ASSUME Core, NEW r \in Requests, use(r)
  PROVE  Core'
<1> DEFINE op == ops[r]
<1>1. op \in Operation /\ KnowsOperator(op) /\ op.step = "use" /\ op.who.id \in TokenIDs
  BY CoreOp DEF use, KnowsOperator
<1>2. /\ tokens' = [tokens EXCEPT ![op.who.id].used = IF VerifyOperatorToken(op.who.id) THEN now ELSE @]
      /\ ops' = [ops EXCEPT ![r] = authorizeOperator(op)]
      /\ UNCHANGED <<deploy, settings, now, accepted, history>>
  BY DEF use, UpdateOperatorTokenLastUsed, Become
<1>3. \/ authorizeOperator(op) = Idle
      \/ /\ authorizeOperator(op) \in Operation
         /\ KnowsOperator(authorizeOperator(op)) /\ KnowsStep(authorizeOperator(op))
  BY <1>1, AuthorizedKnows DEF KnowsOperator
<1>4. /\ tokens' \in [TokenIDs -> Token]
      /\ \A t \in TokenIDs :
           /\ tokens'[t].status = tokens[t].status /\ tokens'[t].scope = tokens[t].scope
           /\ tokens'[t].by = tokens[t].by /\ tokens'[t].req = tokens[t].req
           /\ tokens'[t].used \in {tokens[t].used, now}
  <2>1. tokens \in [TokenIDs -> Token] /\ now \in Nat
    BY DEF Core, Shapes
  <2> QED BY <1>1, <1>2, <2>1 DEF Token
<1>5. Shapes'
  BY <1>2, <1>3, <1>4 DEF Core, Shapes
<1>6. /\ TokensKept
      /\ \A t \in TokenIDs : Known(tokens[t].by, "admin")'
      /\ \A t \in TokenIDs : tokens'[t].used <= now'
      /\ now <= now'
  <2>1. TokensKept
    BY <1>4 DEF TokensKept
  <2>2. \A t \in TokenIDs : Known(tokens[t].by, "admin")'
    BY <1>4 DEF Core, Known
  <2>3. now \in Nat /\ now' = now /\ \A t \in TokenIDs : tokens[t].used <= now
    BY <1>2 DEF Core, Shapes
  <2>4. \A t \in TokenIDs : tokens'[t].used <= now'
    BY <2>3, <1>4
  <2> QED BY <2>1, <2>2, <2>3, <2>4
<1>7. /\ \A q \in Requests \ {r} : ops'[q] = ops[q]
      /\ ops'[r] = authorizeOperator(op)
  BY <1>2 DEF Core, Shapes
<1>8. ASSUME ops'[r] # Idle
      PROVE  (KnowsOperator(ops[r]) /\ KnowsStep(ops[r]))'
  <2> DEFINE new == authorizeOperator(op)
  <2>1. new \in Operation /\ KnowsOperator(new) /\ KnowsStep(new) /\ ops'[r] = new
    BY <1>3, <1>7, <1>8
  <2> HIDE DEF new
  <2>2. new.ask.do = "revokeToken" => new.ask.token \in TokenIDs
    BY <2>1 DEF Operation, Asks
  <2> QED BY <2>1, <2>2, <1>4 DEF KnowsOperator, KnowsStep, Known
<1>9. history'.audited = history.audited
  BY <1>2
<1> QED BY <1>5, <1>6, <1>7, <1>8, <1>9, CoreStep

\* The audit entry is next, of the same operator and request.
LEMMA AuditedKnows ==
  ASSUME Core, NEW r \in Requests, ops[r].step # "idle", ops[r].step # "use"
  PROVE  /\ Audited(ops[r]) \in Operation
         /\ KnowsOperator(Audited(ops[r])) /\ KnowsStep(Audited(ops[r]))
         /\ Audited(ops[r]).step = "audit" /\ Audited(ops[r]).req = ops[r].req
         /\ Audited(ops[r]).who = ops[r].who /\ Audited(ops[r]).ask = ops[r].ask
<1>1. /\ ops[r] \in Operation /\ KnowsOperator(ops[r]) /\ now \in Nat
  BY CoreOp
<1>2. /\ Audited(ops[r]) \in Operation
      /\ Audited(ops[r]).step = "audit" /\ Audited(ops[r]).req = ops[r].req
      /\ Audited(ops[r]).who = ops[r].who /\ Audited(ops[r]).ask = ops[r].ask
  BY <1>1 DEF Audited, Operation
<1> QED BY <1>1, <1>2 DEF KnowsOperator, KnowsStep

LEMMA CoreCreateToken ==
  ASSUME Core, NEW r \in Requests, createOperatorToken(r)
  PROVE  Core'
<1> DEFINE op == ops[r]
<1>1. /\ op.step = "act" /\ op.ask.do = "createToken"
      /\ UNCHANGED <<deploy, settings, now, accepted, history>>
      /\ ops' = [ops EXCEPT ![r] = Audited(op)]
  BY DEF createOperatorToken, Step, Become
<1>2. op \in Operation /\ KnowsOperator(op)
  BY <1>1, CoreOp
<1>3. op.ask.scope \in Scopes
  BY <1>1, <1>2 DEF Operation, Asks, Scopes
<1>4. op.who.scope = "admin" /\ Known(op.who.id, "admin")
      /\ op.who.id \in TokenIDs \cup {Root.id} /\ op.req \in Nat
  BY <1>1, <1>2 DEF KnowsOperator, Reads, Operation, Who
<1>5. PICK t \in TokenIDs :
        /\ tokens[t].status = "absent"
        /\ tokens' = [tokens EXCEPT ![t] = [NoToken EXCEPT !.status = "active", !.scope = op.ask.scope,
                                                    !.by = op.who.id, !.req = op.req]]
  BY DEF createOperatorToken, CreateOperatorToken, ListOperatorTokens
<1>6. /\ tokens' \in [TokenIDs -> Token]
      /\ \A u \in TokenIDs \ {t} : tokens'[u] = tokens[u]
      /\ tokens'[t].status = "active" /\ tokens'[t].by = op.who.id /\ tokens'[t].used = 0
  <2>1. tokens \in [TokenIDs -> Token]
    BY DEF Core, Shapes
  <2> DEFINE row == [NoToken EXCEPT !.status = "active", !.scope = op.ask.scope,
                                    !.by = op.who.id, !.req = op.req]
  <2>2. row \in Token /\ row.status = "active" /\ row.by = op.who.id /\ row.used = 0
    BY <1>3, <1>4 DEF Token, NoToken
  <2>3. tokens' = [tokens EXCEPT ![t] = row]
    BY <1>5
  <2> HIDE DEF row
  <2> QED BY <2>1, <2>2, <2>3
<1>7. TokensKept
  BY <1>5, <1>6 DEF TokensKept
<1>8. /\ Audited(op) \in Operation /\ KnowsOperator(Audited(op))
      /\ Audited(op).step = "audit"
  BY <1>1, AuditedKnows
<1>9. Shapes'
  BY <1>1, <1>6, <1>8 DEF Core, Shapes
<1>10. /\ \A q \in Requests \ {r} : ops'[q] = ops[q]
       /\ ops'[r] = Audited(op)
  BY <1>1 DEF Core, Shapes
<1>11. \A id \in TokenIDs : \A scope : Known(id, scope) => (tokens'[id].status # "absent" /\ tokens'[id].scope = scope)
  BY <1>7 DEF Known, TokensKept
<1>12. (KnowsOperator(ops[r]) /\ KnowsStep(ops[r]))'
  BY <1>8, <1>10, <1>11 DEF KnowsOperator, KnowsStep, Known
<1>13. ASSUME NEW u \in TokenIDs PROVE Known(tokens[u].by, "admin")' /\ tokens'[u].used <= now'
  <2>1. CASE u = t
    BY <2>1, <1>1, <1>4, <1>6, <1>11 DEF Known, Core, Shapes
  <2>2. CASE u # t
    BY <2>2, <1>1, <1>6, <1>11 DEF Known, Core
  <2> QED BY <2>1, <2>2
<1>14. now <= now' /\ history'.audited = history.audited
  BY <1>1 DEF Core, Shapes
<1> QED BY <1>7, <1>9, <1>10, <1>12, <1>13, <1>14, CoreStep

\* What revocation leaves of the rows.
LEMMA Revoked ==
  ASSUME tokens \in [TokenIDs -> Token], NEW u \in TokenIDs, NEW at \in Nat, now \in Nat,
         tokens' = [tokens EXCEPT ![u].status = "revoked", ![u].revoked = at,
                                  ![u].ended = IF VerifyOperatorToken(u) THEN now ELSE @]
  PROVE  /\ tokens' \in [TokenIDs -> Token]
         /\ \A t \in TokenIDs :
              /\ tokens'[t].status = IF t = u THEN "revoked" ELSE tokens[t].status
              /\ tokens'[t].scope = tokens[t].scope /\ tokens'[t].by = tokens[t].by
              /\ tokens'[t].req = tokens[t].req /\ tokens'[t].used = tokens[t].used
         /\ tokens'[u].revoked = at
         /\ tokens'[u].ended = IF VerifyOperatorToken(u) THEN now ELSE tokens[u].ended
         /\ \A t \in TokenIDs \ {u} : tokens'[t] = tokens[t]
<1> DEFINE row == [tokens[u] EXCEPT !.status = "revoked", !.revoked = at,
                                    !.ended = IF VerifyOperatorToken(u) THEN now ELSE @]
<1>1. /\ row \in Token /\ row.status = "revoked" /\ row.scope = tokens[u].scope
      /\ row.by = tokens[u].by /\ row.req = tokens[u].req /\ row.used = tokens[u].used
      /\ row.revoked = at /\ row.ended = IF VerifyOperatorToken(u) THEN now ELSE tokens[u].ended
  BY DEF Token
<1>2. tokens' = [tokens EXCEPT ![u] = row]
  OBVIOUS
<1> HIDE DEF row
<1>4. tokens'[u] = row /\ \A t \in TokenIDs \ {u} : tokens'[t] = tokens[t]
  BY <1>2
<1> QED BY <1>1, <1>2, <1>4

LEMMA CoreRevoke ==
  ASSUME Core, NEW r \in Requests, RevokeOperatorToken(r)
  PROVE  Core'
<1> DEFINE op == ops[r]  u == op.ask.token  new == [op EXCEPT !.step = "audit"]
<1>1. /\ op.step = "revoke" /\ op.ask.do = "revokeToken"
      /\ UNCHANGED <<deploy, settings, now, accepted, history>>
      /\ ops' = [ops EXCEPT ![r] = new]
      /\ tokens' = [tokens EXCEPT ![u].status = "revoked", ![u].revoked = op.at,
                                  ![u].ended = IF VerifyOperatorToken(u) THEN now ELSE @]
  BY DEF RevokeOperatorToken, Step, Become
<1>2. op \in Operation /\ KnowsOperator(op) /\ KnowsStep(op)
  BY <1>1, CoreOp
<1>3. u \in TokenIDs /\ tokens[u].status # "absent"
  BY <1>1, <1>2 DEF Operation, Asks, KnowsStep
<1>4. /\ tokens' \in [TokenIDs -> Token]
      /\ \A t \in TokenIDs :
           /\ tokens'[t].status = IF t = u THEN "revoked" ELSE tokens[t].status
           /\ tokens'[t].scope = tokens[t].scope /\ tokens'[t].by = tokens[t].by
           /\ tokens'[t].req = tokens[t].req /\ tokens'[t].used = tokens[t].used
  <2>1. tokens \in [TokenIDs -> Token] /\ now \in Nat /\ op.at \in Nat
    BY <1>2 DEF Core, Shapes, Operation
  <2> QED BY <1>3, <2>1, Revoked, <1>1
<1>5. /\ TokensKept
      /\ \A t \in TokenIDs : Known(tokens[t].by, "admin")'
      /\ \A t \in TokenIDs : tokens'[t].used <= now'
      /\ now <= now' /\ history'.audited = history.audited
  <2>1. TokensKept
    BY <1>3, <1>4 DEF TokensKept
  <2>2. \A t \in TokenIDs : Known(tokens[t].by, "admin")'
    BY <1>3, <1>4 DEF Core, Known
  <2>3. now \in Nat /\ now' = now /\ \A t \in TokenIDs : tokens[t].used <= now
    BY <1>1 DEF Core, Shapes
  <2>4. \A t \in TokenIDs : tokens'[t].used = tokens[t].used
    BY <1>4
  <2>5. \A t \in TokenIDs : tokens'[t].used <= now'
    BY <2>3, <2>4
  <2>6. now <= now' /\ history' = history
    BY <1>1, <2>3
  <2> QED BY <2>1, <2>2, <2>5, <2>6
<1>6. /\ new \in Operation /\ new.step = "audit" /\ new.who = op.who /\ new.ask = op.ask
  BY <1>2 DEF Operation
<1>7. /\ Shapes' /\ \A q \in Requests \ {r} : ops'[q] = ops[q]
      /\ ops'[r] = new
  BY <1>1, <1>4, <1>6 DEF Core, Shapes
<1>8. (KnowsOperator(ops[r]) /\ KnowsStep(ops[r]))'
  <2>1. new.step = "audit" /\ new.who = op.who /\ new.ask = op.ask /\ op.step = "revoke" /\ ops'[r] = new
    BY <1>1, <1>6, <1>7
  <2>2. \A t \in TokenIDs : t = op.who.id => tokens'[t].status # "absent" /\ tokens'[t].scope = op.who.scope
    <3>1. Known(op.who.id, op.who.scope)
      BY <1>2 DEF KnowsOperator
    <3> HIDE DEF op, u, new
    <3> QED BY <3>1, <1>3, <1>4 DEF Known
  <2>3. op.ask.do \notin Reads => op.who.scope = "admin"
    BY <1>2, <2>1 DEF KnowsOperator
  <2> HIDE DEF op, u, new
  <2> QED BY <2>1, <2>2, <2>3 DEF KnowsOperator, KnowsStep, Known
<1> QED BY <1>5, <1>7, <1>8, CoreStep

\* What the steps of a request note in the history.
LEMMA TemplateNotes ==
  ASSUME Core, NEW r \in Requests, createRolloutTemplate(r)
  PROVE  /\ history' \in History /\ history.used \subseteq history'.used
         /\ history'.audited = history.audited /\ history'.cut = history.cut
         /\ history'.expires = history.expires /\ history'.streams = history.streams
         /\ history'.through = history.through
         /\ \E t \in Templates \ history.used :
              templates' = templates \cup {t} /\ history'.used = history.used \cup {t}
<1>1. history \in History
  BY DEF Core, Shapes
<1>2. PICK t \in Templates \ history.used :
        templates' = templates \cup {t} /\ Note("used", history.used \cup {t})
  BY DEF createRolloutTemplate, CreateRolloutTemplate
<1>3. history.used \cup {t} \in SUBSET Templates
  BY <1>1 DEF History
<1> QED BY <1>1, <1>2, <1>3, NoteUsed

LEMMA TicketNotes ==
  ASSUME Core, NEW r \in Requests, createEventTicket(r)
  PROVE  /\ history' \in History
         /\ history'.audited = history.audited /\ history'.cut = history.cut
         /\ history'.used = history.used /\ history'.streams = history.streams
         /\ history'.through = history.through
         /\ \E t \in Tickets \ DOMAIN history.expires :
              /\ tickets' = prune \cup {t}
              /\ history'.expires = [u \in DOMAIN history.expires \cup {t} |->
                                       IF u = t THEN now + TicketTTL ELSE history.expires[u]]
<1>1. history \in History /\ now \in Nat
  BY DEF Core, Shapes
<1>2. PICK t \in Tickets \ DOMAIN history.expires :
        /\ tickets' = prune \cup {t}
        /\ Note("expires", [u \in DOMAIN history.expires \cup {t} |->
                             IF u = t THEN now + TicketTTL ELSE history.expires[u]])
  BY DEF createEventTicket, create
<1>3. PICK D \in SUBSET Tickets : history.expires \in [D -> Nat]
  BY <1>1 DEF History
<1>4. [u \in DOMAIN history.expires \cup {t} |-> IF u = t THEN now + TicketTTL ELSE history.expires[u]]
        \in [D \cup {t} -> Nat]
  BY <1>1, <1>3, AccessBounds
<1>5. D \cup {t} \in SUBSET Tickets
  OBVIOUS
<1> QED BY <1>1, <1>2, <1>4, <1>5, NoteExpires

LEMMA FailNotes ==
  ASSUME Core, NEW r \in Requests, fail(r)
  PROVE  /\ history' \in History /\ history'.cut = history.cut \cup {ops[r].req}
         /\ history'.audited = history.audited /\ history'.used = history.used
         /\ history'.expires = history.expires /\ history'.streams = history.streams
         /\ history'.through = history.through
<1>1. history \in History
  BY DEF Core, Shapes
<1>2. history.cut \cup {ops[r].req} \in SUBSET Nat
  BY <1>1 DEF fail, Core, Shapes, Operation, History
<1>3. Note("cut", history.cut \cup {ops[r].req})
  BY DEF fail
<1> QED BY <1>1, <1>2, <1>3, NoteCut

\* The steps that touch neither the tokens nor the settings, nor write an entry.
LEMMA CorePlain ==
  ASSUME Core, NEW r \in Requests,
         \/ listOperatorTokens(r) \/ operatorTokenRouter(r) \/ serverSettings(r)
         \/ createRolloutTemplate(r) \/ rolloutTemplateRouter(r)
         \/ createEventTicket(r) \/ auditEvents(r) \/ fail(r)
  PROVE  Core'
<1> DEFINE op == ops[r]
<1>1. op # Idle /\ op \in Operation
  <2>1. op.step # "idle" \/ op # Idle
    BY DEF listOperatorTokens, operatorTokenRouter, serverSettings, createRolloutTemplate,
       rolloutTemplateRouter, createEventTicket, auditEvents, fail, Step
  <2> QED BY <2>1 DEF Core, Shapes, Idle
<1>2. op.step # "idle" /\ KnowsOperator(op) /\ KnowsStep(op)
      /\ now \in Nat /\ history \in History /\ accepted \in Nat /\ settings \in Settings
  BY <1>1 DEF Operation, Core, Shapes
<1>3. CASE listOperatorTokens(r)
  <2>1. op.step = "act" /\ Become(r, Audited(op)) /\ UNCHANGED <<deploy, tokens, settings, now, accepted, history>>
    BY <1>3 DEF listOperatorTokens, Step, tables
  <2>2. Audited(op) \in Operation /\ KnowsOperator(Audited(op)) /\ KnowsStep(Audited(op))
    BY <2>1, AuditedKnows
  <2> QED BY <2>1, <2>2, <1>2, CoreMove
<1>4. CASE operatorTokenRouter(r)
  <2> DEFINE status == loadOperatorToken(op.ask.token)
             new == [op EXCEPT !.step = "revoke", !.at = now]
             next == CASE status = "absent"  -> Idle
                       [] status = "revoked" -> Audited(op)
                       [] status = "active"  -> new
  <2>1. /\ op.step = "act" /\ op.ask.do = "revokeToken"
        /\ Become(r, next) /\ UNCHANGED <<deploy, tokens, settings, now, accepted, history>>
    BY <1>4 DEF operatorTokenRouter, Step, tables
  <2>2. Audited(op) \in Operation /\ KnowsOperator(Audited(op)) /\ KnowsStep(Audited(op))
    BY <2>1, AuditedKnows
  <2>3. /\ new \in Operation /\ new.step = "revoke" /\ new.who = op.who /\ new.ask = op.ask
    BY <1>1, <1>2 DEF Operation
  <2>4. op.ask.token \in TokenIDs /\ status \in {"absent", "active", "revoked"}
        /\ tokens[op.ask.token].status = status
    BY <1>1, <2>1 DEF Operation, Asks, loadOperatorToken, Core, Shapes, Token
  <2>5. status = "active" => KnowsOperator(new) /\ KnowsStep(new)
    <3> HIDE DEF new, status
    <3> QED BY <2>1, <2>3, <2>4, <1>2 DEF KnowsOperator, KnowsStep
  <2>6. next = Idle \/ (next \in Operation /\ KnowsOperator(next) /\ KnowsStep(next))
    <3> HIDE DEF new, status
    <3> QED BY <2>2, <2>3, <2>4, <2>5
  <2> HIDE DEF next
  <2> QED BY <2>1, <2>6, <1>2, CoreMove
<1>5. CASE serverSettings(r)
  <2> DEFINE given == op.ask.runtimes
  <2>1. /\ op.step = "act" /\ op.ask.do = "putSettings"
        /\ UNCHANGED <<deploy, tokens, settings, now, accepted, history>>
    BY <1>5 DEF serverSettings, Step, tables
  <2>2. \/ Become(r, Idle)
        \/ \E v : /\ v \in (IF given = Omitted THEN {settings.runtimes} ELSE {given} \ {Unsupported})
                  /\ Become(r, [op EXCEPT !.step = "sidecar", !.answer = v])
    BY <1>5 DEF serverSettings, GetServerSettings, normalizeExpectedRuntimeVersions
  <2>3. CASE Become(r, Idle)
    BY <2>1, <2>3, <1>2, CoreMove
  <2>4. ASSUME NEW v, v \in (IF given = Omitted THEN {settings.runtimes} ELSE {given} \ {Unsupported}),
               Become(r, [op EXCEPT !.step = "sidecar", !.answer = v])
        PROVE  Core'
    <3> DEFINE new == [op EXCEPT !.step = "sidecar", !.answer = v]
    <3>1. given \in Versions \cup {Omitted, Unsupported}
      BY <1>1, <2>1 DEF Operation, Asks
    <3>2. v \in Versions \cup {Unset} /\ given \in {Omitted, v}
      BY <3>1, <2>4, <1>2 DEF Settings
    <3>3. /\ new \in Operation /\ new.step = "sidecar" /\ new.who = op.who /\ new.ask = op.ask
          /\ new.answer = v
      BY <1>1, <3>2 DEF Operation
    <3>4. KnowsOperator(new) /\ KnowsStep(new)
      <4> HIDE DEF new
      <4> QED BY <2>1, <3>2, <3>3, <1>2 DEF KnowsOperator, KnowsStep
    <3> HIDE DEF new
    <3>5. Become(r, new)
      BY <2>4 DEF new
    <3> QED BY <2>1, <3>3, <3>4, <3>5, <1>2, CoreMove
  <2> QED BY <2>2, <2>3, <2>4
<1>6. CASE createRolloutTemplate(r)
  <2>1. op.step = "act" /\ Become(r, Audited(op)) /\ UNCHANGED <<deploy, tokens, settings, now, accepted>>
    BY <1>6 DEF createRolloutTemplate, Step
  <2>2. Audited(op) \in Operation /\ KnowsOperator(Audited(op)) /\ KnowsStep(Audited(op))
    BY <2>1, AuditedKnows
  <2>5. history' \in History /\ history'.audited = history.audited
    BY <1>6, TemplateNotes
  <2> QED BY <2>1, <2>2, <2>5, <1>2, CoreMove
<1>7. CASE rolloutTemplateRouter(r)
  <2>1. /\ op.step = "act" /\ UNCHANGED <<deploy, tokens, settings, now, accepted, history>>
        /\ Become(r, Audited(op)) \/ Become(r, Idle)
    BY <1>7 DEF rolloutTemplateRouter, Step
  <2>2. Audited(op) \in Operation /\ KnowsOperator(Audited(op)) /\ KnowsStep(Audited(op))
    BY <2>1, AuditedKnows
  <2> QED BY <2>1, <2>2, <1>2, CoreMove
<1>8. CASE createEventTicket(r)
  <2>1. Become(r, Idle) /\ UNCHANGED <<deploy, tokens, settings, now, accepted>>
    BY <1>8 DEF createEventTicket, tables
  <2>6. history' \in History /\ history'.audited = history.audited
    BY <1>8, TicketNotes
  <2> QED BY <2>1, <2>6, <1>2, CoreMove
<1>9. CASE auditEvents(r)
  <2>1. Become(r, Idle) /\ UNCHANGED <<deploy, tokens, settings, now, accepted, history>>
    BY <1>9 DEF auditEvents, tables
  <2> QED BY <2>1, <1>2, CoreMove
<1>10. CASE fail(r)
  <2>1. /\ Become(r, Idle) /\ UNCHANGED <<deploy, tokens, settings, now, accepted>>
    BY <1>10 DEF fail, tables
  <2>3. history' \in History /\ history'.audited = history.audited
    BY <1>10, FailNotes
  <2> QED BY <2>1, <2>3, <1>2, CoreMove
<1> QED BY <1>3, <1>4, <1>5, <1>6, <1>7, <1>8, <1>9, <1>10

LEMMA CorePut ==
  ASSUME Core, NEW r \in Requests, putSidecarVersion(r) \/ putRuntimeVersions(r)
  PROVE  Core'
<1> DEFINE op == ops[r]
<1>1. /\ op.step \in {"sidecar", "runtimes"} /\ op.ask.do = "putSettings"
      /\ UNCHANGED <<deploy, tokens, now, accepted, history>>
  BY DEF putSidecarVersion, putRuntimeVersions, Step
<1>2. /\ op \in Operation /\ KnowsOperator(op) /\ KnowsStep(op)
      /\ now \in Nat /\ history \in History /\ accepted \in Nat /\ settings \in Settings
  BY <1>1, CoreOp DEF Core, Shapes
<1>3. Audited(op) \in Operation /\ KnowsOperator(Audited(op)) /\ KnowsStep(Audited(op))
  BY <1>1, AuditedKnows
<1>4. op.ask.sidecar \in Versions /\ op.answer \in Versions \cup {Unset}
      /\ op.ask.runtimes \in Versions \cup {Omitted, Unsupported}
  BY <1>1, <1>2 DEF Operation, Asks
<1>5. settings' \in Settings
  BY <1>2, <1>4 DEF putSidecarVersion, putRuntimeVersions, SetExpectedSidecarVersion,
     SetExpectedRuntimeVersions, Settings
<1>6. CASE putRuntimeVersions(r)
  <2>1. Become(r, Audited(op))
    BY <1>6 DEF putRuntimeVersions
  <2> QED BY <2>1, <1>1, <1>2, <1>3, <1>5, CoreMove
<1>7. CASE putSidecarVersion(r)
  <2> DEFINE new == [op EXCEPT !.step = "runtimes"]
  <2>1. op.step = "sidecar" /\ Become(r, IF op.ask.runtimes = Omitted THEN Audited(op) ELSE new)
    BY <1>7 DEF putSidecarVersion, Step
  <2>2. /\ new \in Operation /\ new.step = "runtimes" /\ new.who = op.who /\ new.ask = op.ask
        /\ new.answer = op.answer
    BY <1>2 DEF Operation
  <2>3. op.ask.runtimes # Omitted => KnowsOperator(new) /\ KnowsStep(new)
    <3> HIDE DEF new
    <3> QED BY <1>1, <1>2, <2>1, <2>2 DEF KnowsOperator, KnowsStep
  <2> HIDE DEF new
  <2> QED BY <2>1, <2>2, <2>3, <1>1, <1>2, <1>3, <1>5, CoreMove
<1> QED BY <1>6, <1>7

\* The entry names the operator, as long as the token is on record; it always is.
LEMMA EntryNamed ==
  ASSUME Core, NEW r \in Requests, ops[r].step # "idle"
  PROVE  operatorActorName(ops[r].who) = ops[r].who.id
<1>1. ops[r] \in Operation /\ KnowsOperator(ops[r])
  BY CoreOp
<1>2. ops[r].who \in Who
  BY <1>1 DEF Operation
<1> QED BY <1>1, <1>2 DEF Who, KnowsOperator, Known, operatorActorName, operatorTokenName,
       ListOperatorTokens

LEMMA AuditNotes ==
  ASSUME Core, NEW r \in Requests, audit(r)
  PROVE  LET entry == [req |-> ops[r].req, ask |-> ops[r].ask, name |-> ops[r].who.id, at |-> ops[r].at]
         IN  /\ entry \in Entry /\ log' = log \cup {entry}
             /\ history' \in History /\ history'.audited = history.audited \cup {entry}
             /\ history'.cut = history.cut /\ history'.used = history.used
             /\ history'.expires = history.expires /\ history'.streams = history.streams
             /\ history'.through = history.through
<1> DEFINE op == ops[r]
           entry == [req |-> op.req, ask |-> op.ask, name |-> op.who.id, at |-> op.at]
<1>1. op.step = "audit"
  BY DEF audit
<1>2. operatorActorName(op.who) = op.who.id
  BY <1>1, EntryNamed
<1>3. log' = log \cup {entry} /\ Note("audited", history.audited \cup {entry})
  BY <1>2 DEF audit, AppendAuditEvent
<1>4. op \in Operation /\ history \in History
  BY <1>1, CoreOp
<1>5. entry \in Entry
  BY <1>4 DEF Operation, Entry, Who
<1> HIDE DEF entry
<1>6. history.audited \cup {entry} \in SUBSET Entry
  BY <1>4, <1>5 DEF History
<1>7. /\ history' \in History /\ history'.audited = history.audited \cup {entry}
      /\ history'.cut = history.cut /\ history'.used = history.used
      /\ history'.expires = history.expires /\ history'.streams = history.streams
      /\ history'.through = history.through
  BY <1>3, <1>4, <1>6, NoteAudited
<1> QED BY <1>3, <1>5, <1>7 DEF entry

LEMMA CoreAudit ==
  ASSUME Core, NEW r \in Requests, audit(r)
  PROVE  Core'
<1> DEFINE op == ops[r]
           entry == [req |-> op.req, ask |-> op.ask, name |-> op.who.id, at |-> op.at]
<1>1. /\ op.step = "audit" /\ Become(r, Idle)
      /\ UNCHANGED <<deploy, tokens, settings, now, accepted>>
  BY DEF audit
<1>2. op \in Operation /\ KnowsOperator(op) /\ accepted \in Nat /\ settings \in Settings
  BY <1>1, CoreOp DEF Core, Shapes
<1>3. entry.ask = op.ask /\ entry.name = op.who.id
  OBVIOUS
<1>4. history' \in History /\ history'.audited = history.audited \cup {entry}
  BY AuditNotes
<1> HIDE DEF entry
<1>5. entry.ask.do \notin Reads => Known(entry.name, "admin")
  BY <1>1, <1>2, <1>3 DEF KnowsOperator
<1> QED BY <1>1, <1>2, <1>4, <1>5, CoreMove

\* Steps that are not of one request.
LEMMA CoreOthers ==
  ASSUME Core, UNCHANGED <<deploy, tokens, settings, accepted>>,
         \A r \in Requests : ops'[r] = Idle \/ ops'[r] = ops[r],
         ops' \in [Requests -> Operation \cup {Idle}],
         now' \in Nat, now <= now', history' \in History, history'.audited = history.audited
  PROVE  Core'
<1>1. Shapes'
  BY DEF Core, Shapes
<1>2. \A r \in Requests : ops'[r] # Idle => (KnowsOperator(ops[r]) /\ KnowsStep(ops[r]))'
  BY DEF Core, KnowsOperator, KnowsStep, Known
<1>3. \A t \in TokenIDs : Known(tokens[t].by, "admin")'
  BY DEF Core, Known
<1>4. \A t \in TokenIDs : tokens'[t].used <= now'
  <2> TAKE t \in TokenIDs
  <2>1. tokens[t].used \in Nat /\ tokens[t].used <= now /\ now \in Nat
    BY DEF Core, Shapes, Token
  <2> QED BY <2>1
<1>5. \A e \in history'.audited : e.ask.do \notin Reads => Known(e.name, "admin")'
  BY DEF Core, Known
<1> QED BY <1>1, <1>2, <1>3, <1>4, <1>5 DEF Core
-----------------------------------------------------------------------------
(* Attempts *)

\* After cuts a prefix off: up to the last attempt that is too old.
LEMMA AfterCuts ==
  ASSUME NEW s \in Seq(Nat), NEW t \in Int
  PROVE  /\ After(s, t) \in Seq(Nat)
         /\ \E k \in 0..Len(s) :
              /\ (k > 0 => s[k] <= t) /\ \A i \in k + 1..Len(s) : s[i] > t
              /\ Len(After(s, t)) = Len(s) - k
              /\ \A i \in 1..Len(s) - k : After(s, t)[i] = s[k + i]
<1> DEFINE R == OpToRel(<, Nat)
           K == {k \in Nat : k <= Len(s) /\ \A i \in k + 1..Len(s) : s[i] > t}
           Cut(k) == (k > 0 => s[k] <= t) /\ \A i \in k + 1..Len(s) : s[i] > t
           old == CHOOSE k \in 0..Len(s) : Cut(k)
<1>1. Len(s) \in Nat /\ \A i \in 1..Len(s) : s[i] \in Nat
  BY LenProperties, ElementOfSeq
<1>2. IsWellFoundedOn(R, Nat)
  BY NatLessThanWellFounded, Zenon
<1>3. \A x, y \in Nat : x < y => <<x, y>> \in R
  BY DEF OpToRel
<1>4. K \subseteq Nat /\ Len(s) \in K
  BY <1>1
<1> HIDE DEF R
<1>5. PICK k \in K : \A j \in K : ~(<<j, k>> \in R)
  <2> HIDE DEF K
  <2> QED BY <1>2, <1>4, WFMin
<1>6. k > 0 => s[k] <= t
  <2> SUFFICES ASSUME k > 0, ~(s[k] <= t) PROVE FALSE
    OBVIOUS
  <2>1. k - 1 \in Nat /\ k - 1 <= Len(s) /\ k \in 1..Len(s)
    BY <1>1
  <2>2. s[k] > t
    BY <1>1, <2>1
  <2>3. \A i \in (k - 1) + 1..Len(s) : s[i] > t
    <3> TAKE i \in (k - 1) + 1..Len(s)
    <3>1. i = k \/ i \in k + 1..Len(s)
      BY <1>1
    <3> QED BY <3>1, <2>2
  <2>4. k - 1 \in K
    BY <2>1, <2>3
  <2>5. k \in Nat /\ k - 1 < k
    BY <1>4
  <2>6. <<k - 1, k>> \in R
    BY <2>1, <2>5, <1>3
  <2> QED BY <2>4, <2>6, <1>5
<1>7. k \in 0..Len(s) /\ Cut(k)
  BY <1>1, <1>6
<1>8. old \in 0..Len(s) /\ Cut(old)
  <2> HIDE DEF Cut
  <2> QED BY <1>7
<1>9. After(s, t) = SubSeq(s, old + 1, Len(s))
  BY DEF After
<1> HIDE DEF old
<1>10. \A i \in old + 1..Len(s) : s[i] \in Nat
  BY <1>1, <1>8
<1>11. /\ SubSeq(s, old + 1, Len(s)) \in Seq(Nat)
       /\ Len(SubSeq(s, old + 1, Len(s))) = IF old + 1 <= Len(s) THEN Len(s) - (old + 1) + 1 ELSE 0
       /\ \A i \in 1..Len(s) - (old + 1) + 1 : SubSeq(s, old + 1, Len(s))[i] = s[old + 1 + i - 1]
  <2>1. old + 1 \in Int /\ Len(s) \in Int
    BY <1>1, <1>8
  <2> QED BY <1>10, <2>1, SubSeqProperties
<1>12. Len(After(s, t)) = Len(s) - old
  BY <1>1, <1>8, <1>9, <1>11
<1>13. \A i \in 1..Len(s) - old : After(s, t)[i] = s[old + i]
  <2> TAKE i \in 1..Len(s) - old
  <2>1. i \in 1..Len(s) - (old + 1) + 1 /\ old + 1 + i - 1 = old + i
    BY <1>1, <1>8
  <2> QED BY <2>1, <1>9, <1>11
<1> QED BY <1>8, <1>9, <1>11, <1>12, <1>13

\* What allow notes of the attempts, and that it is of the right shape.
LEMMA AllowNotes ==
  ASSUME Core, NEW c, NEW read, allowLocked(c, read)
  PROVE  /\ history' \in History /\ history'.audited = history.audited
         /\ history'.cut = history.cut /\ history'.used = history.used
         /\ history'.expires = history.expires /\ history'.streams = history.streams
<1> DEFINE Young(s) == After(s, now - Window)
<1>1. PICK gone, counted :
        Note("through", [d \in Clients |->
           IF d \in gone THEN <<>>
           ELSE IF d = c /\ counted THEN Append(Young(history.through[d]), now)
           ELSE Young(history.through[d])])
  <2> DEFINE live == pruneExpired(read)
             new  == c \notin DOMAIN live
             full == ~new /\ Full(live[c])
             e    == IF new THEN [start |-> read, count |-> 1, seen |-> read]
                     ELSE [live[c] EXCEPT !.seen = read, !.count = IF full THEN @ ELSE @ + 1]
             next == [d \in DOMAIN live \cup {c} |-> IF d = c THEN e ELSE live[d]]
             gone == DOMAIN next \ DOMAIN entries'
  <2>1. Note("through", [d \in Clients |->
           IF d \in gone THEN <<>>
           ELSE IF d = c /\ ~full THEN Append(Young(history.through[d]), now)
           ELSE Young(history.through[d])])
    BY DEF allowLocked
  <2> HIDE DEF gone, full
  <2> QED BY <2>1
<1>2. history \in History /\ now \in Nat /\ now - Window \in Int
  BY AccessBounds DEF Core, Shapes
<1> DEFINE v == [d \in Clients |->
                   IF d \in gone THEN <<>>
                   ELSE IF d = c /\ counted THEN Append(Young(history.through[d]), now)
                   ELSE Young(history.through[d])]
<1>3. v \in [Clients -> Seq(Nat)]
  <2> SUFFICES ASSUME NEW d \in Clients PROVE v[d] \in Seq(Nat)
    OBVIOUS
  <2>1. history.through[d] \in Seq(Nat)
    BY <1>2 DEF History
  <2>2. Young(history.through[d]) \in Seq(Nat)
    BY <1>2, <2>1, AfterCuts
  <2> HIDE DEF Young
  <2>3. Append(Young(history.through[d]), now) \in Seq(Nat)
    BY <2>2, <1>2, AppendProperties
  <2>4. <<>> \in Seq(Nat)
    OBVIOUS
  <2> QED BY <2>2, <2>3, <2>4
<1> HIDE DEF v
<1>4. Note("through", v)
  BY <1>1 DEF v
<1> QED BY <1>2, <1>3, <1>4, NoteThrough

LEMMA StreamNotes ==
  ASSUME Core, NEW t \in Tickets, NEW cred, authorizeEventStream(t, cred)
  PROVE  /\ history' \in History
         /\ history'.streams = [history.streams EXCEPT ![t] = IF Valid(t) THEN Append(@, now) ELSE @]
         /\ history'.audited = history.audited /\ history'.cut = history.cut
         /\ history'.used = history.used /\ history'.expires = history.expires
         /\ history'.through = history.through
<1> DEFINE v == [history.streams EXCEPT ![t] = IF Valid(t) THEN Append(@, now) ELSE @]
<1>1. Note("streams", v)
  BY DEF authorizeEventStream
<1>2. history \in History /\ now \in Nat
  BY DEF Core, Shapes
<1>3. history.streams \in [Tickets -> Seq(Nat)]
  BY <1>2 DEF History
<1>4. v \in [Tickets -> Seq(Nat)]
  <2>1. Append(history.streams[t], now) \in Seq(Nat)
    BY <1>2, <1>3, AppendProperties
  <2> QED BY <1>3, <2>1
<1> HIDE DEF v
<1>5. /\ history' \in History /\ history'.streams = v
      /\ history'.audited = history.audited /\ history'.cut = history.cut
      /\ history'.used = history.used /\ history'.expires = history.expires
      /\ history'.through = history.through
  BY <1>1, <1>2, <1>4, NoteStreams
<1> QED BY <1>5 DEF v

LEMMA RestartNotes ==
  ASSUME Core, restart
  PROVE  /\ history' \in History /\ history'.cut = history.cut \cup InFlight
         /\ history'.through = [c \in Clients |-> <<>>]
         /\ history'.audited = history.audited /\ history'.used = history.used
         /\ history'.expires = history.expires /\ history'.streams = history.streams
<1>1. InFlight \subseteq Nat
  <2> SUFFICES ASSUME NEW r \in Requests, ops[r] # Idle PROVE ops[r].req \in Nat
    BY DEF InFlight
  <2> QED BY DEF Core, Shapes, Operation
<1>2. history \in History
  BY DEF Core, Shapes
<1>3. HInit.through = [c \in Clients |-> <<>>] /\ [c \in Clients |-> <<>>] \in [Clients -> Seq(Nat)]
  BY DEF HInit
<1>4. history' = [history EXCEPT !.cut = history.cut \cup InFlight, !.through = [c \in Clients |-> <<>>]]
  BY <1>3 DEF restart
<1> HIDE DEF InFlight
<1> QED BY <1>1, <1>2, <1>3, <1>4 DEF History

LEMMA CoreInit == Init => Core
<1> SUFFICES ASSUME Init PROVE Core
  OBVIOUS
<1>1. history \in History /\ history.audited = {}
  <2>1. [t \in {} |-> 0] \in [{} -> Nat] /\ {} \in SUBSET Tickets
    OBVIOUS
  <2>2. [t \in {} |-> 0] \in UNION {[D -> Nat] : D \in SUBSET Tickets}
    BY <2>1
  <2>3. /\ [t \in Tickets |-> <<>>] \in [Tickets -> Seq(Nat)]
        /\ [c \in Clients |-> <<>>] \in [Clients -> Seq(Nat)]
    OBVIOUS
  <2> QED BY <2>2, <2>3 DEF Init, HInit, History
<1>2. NoToken \in Token /\ NoToken.by = Root.id /\ NoToken.used = 0 /\ Root.id \notin TokenIDs
  BY AccessBounds DEF NoToken, Token, Scopes, Root
<1>3. Shapes
  BY <1>1, <1>2 DEF Init, Shapes, Settings, Unset
<1> QED BY <1>1, <1>2, <1>3 DEF Init, Core, Known

LEMMA CoreNext == Core /\ [Next]_vars => Core'
<1> SUFFICES ASSUME Core, [Next]_vars PROVE Core'
  OBVIOUS
<1>0. /\ ops \in [Requests -> Operation \cup {Idle}] /\ now \in Nat /\ history \in History
  BY DEF Core, Shapes
<1>8. ASSUME NEW g \in Callers, NEW c \in Clients, NEW cred \in Credentials, refuse(g, c, cred) PROVE Core'
  <2>1. UNCHANGED <<deploy, tokens, settings, ops, now, accepted, history>>
    BY <1>8 DEF refuse, tables
  <2> QED BY <2>1, <1>0, CoreOthers
<1>1. ASSUME NEW w \in waiting, allow(w) PROVE Core'
  <2>1. allowLocked(w.client, w.read) /\ UNCHANGED <<deploy, tokens, settings, ops, now, accepted>>
    BY <1>1 DEF allow, tables
  <2>2. history' \in History /\ history'.audited = history.audited
    BY <2>1, AllowNotes
  <2> QED BY <2>1, <2>2, <1>0, CoreOthers
<1>2. ASSUME NEW t \in Tickets, NEW cred \in Credentials, authorizeEventStream(t, cred) PROVE Core'
  <2>1. UNCHANGED <<deploy, tokens, settings, ops, now, accepted>>
    BY <1>2 DEF authorizeEventStream, tables
  <2>2. history' \in History /\ history'.audited = history.audited
    BY <1>2, StreamNotes
  <2> QED BY <2>1, <2>2, <1>0, CoreOthers
<1>3. CASE PruneAuditEvents
  <2>1. UNCHANGED <<deploy, tokens, settings, ops, now, accepted, history>>
    BY <1>3 DEF PruneAuditEvents
  <2> QED BY <2>1, <1>0, CoreOthers
<1>4. CASE restart
  <2>1. UNCHANGED <<deploy, tokens, settings, now, accepted>> /\ ops' = [r \in Requests |-> Idle]
    BY <1>4 DEF restart, tables
  <2>2. history' \in History /\ history'.audited = history.audited
    BY <1>4, RestartNotes
  <2> QED BY <2>1, <2>2, <1>0, CoreOthers
<1>5. CASE tick
  <2>1. UNCHANGED <<deploy, tokens, settings, ops, accepted, history>> /\ now' = now + 1
    BY <1>5 DEF tick, tables
  <2> QED BY <2>1, <1>0, CoreOthers
<1>6. CASE UNCHANGED vars
  <2>1. UNCHANGED <<deploy, tokens, settings, ops, now, accepted, history>>
    BY <1>6 DEF vars
  <2> QED BY <2>1, <1>0, CoreOthers
<1>7. ASSUME NEW r \in Requests,
             \/ \E cred \in Credentials, ask \in Asks : accept(r, cred, ask)
             \/ use(r) \/ createOperatorToken(r) \/ listOperatorTokens(r)
             \/ operatorTokenRouter(r) \/ RevokeOperatorToken(r)
             \/ serverSettings(r) \/ putSidecarVersion(r) \/ putRuntimeVersions(r)
             \/ createRolloutTemplate(r) \/ rolloutTemplateRouter(r)
             \/ createEventTicket(r) \/ auditEvents(r) \/ audit(r) \/ fail(r)
      PROVE  Core'
  BY <1>7, CoreAccept, CoreUse, CoreCreateToken, CoreRevoke, CorePlain, CorePut, CoreAudit
<1> QED BY <1>1, <1>2, <1>3, <1>4, <1>5, <1>6, <1>7, <1>8 DEF Next

\* The operators' identities and what requests know hold throughout.
LEMMA CoreHolds == Spec => []Core
BY CoreInit, CoreNext, PTL DEF Spec

\* No readonly token ever made a token or changed anything on record: a token's
\* scope is fixed when it is made, and what a request learned of its operator when
\* it was accepted is still true when it acts.
THEOREM ScopesHold == Spec => []NoEscalation
<1>1. Core => NoEscalation
  BY DEF Core, NoEscalation, Known
<1> QED BY <1>1, CoreHolds, PTL

\* The runtime versions only become what a request under way asks for: one that
\* omits them does not write back what it read.
THEOREM OmissionsKeepVersions == Spec => OmittedVersionsSurvive
<1> DEFINE Asked == settings'.runtimes # settings.runtimes =>
              \E r \in Requests : ops[r].step = "runtimes" /\ settings'.runtimes = ops[r].ask.runtimes
<1>1. Core /\ [Next]_vars => [Asked]_vars
  <2> SUFFICES ASSUME Core, Next, settings'.runtimes # settings.runtimes
               PROVE  \E r \in Requests : ops[r].step = "runtimes" /\ settings'.runtimes = ops[r].ask.runtimes
    BY DEF vars
  <2>0. settings \in Settings
    BY DEF Core, Shapes
  <2>1. \/ \E r \in Requests : putSidecarVersion(r) \/ putRuntimeVersions(r)
        \/ UNCHANGED settings
    BY DEF Next, tables, refuse, allow, accept, use, createOperatorToken, listOperatorTokens, operatorTokenRouter,
       RevokeOperatorToken, serverSettings, createRolloutTemplate, rolloutTemplateRouter,
       createEventTicket, auditEvents, audit, fail, authorizeEventStream, PruneAuditEvents, restart, tick
  <2>2. PICK r \in Requests : putSidecarVersion(r) \/ putRuntimeVersions(r)
    BY <2>1
  <2>3. CASE putSidecarVersion(r)
    BY <2>0, <2>3 DEF putSidecarVersion, SetExpectedSidecarVersion, Settings
  <2>4. CASE putRuntimeVersions(r)
    <3>1. ops[r].step = "runtimes" /\ settings' = [settings EXCEPT !.runtimes = ops[r].answer]
      BY <2>4 DEF putRuntimeVersions, SetExpectedRuntimeVersions, Step
    <3>2. ops[r].ask.runtimes = ops[r].answer
      BY <3>1, CoreOp DEF KnowsStep
    <3>3. settings'.runtimes = ops[r].answer
      BY <2>0, <3>1 DEF Settings
    <3> QED BY <3>1, <3>2, <3>3
  <2> QED BY <2>2, <2>3, <2>4
<1> QED BY <1>1, CoreHolds, PTL DEF Spec, OmittedVersionsSurvive
-----------------------------------------------------------------------------
(* Revocation *)

\* A request about to mark a token has read its time while the token was accepted.
RevokeInv ==
  /\ \A t \in TokenIDs : /\ tokens[t].revoked <= now
                         /\ tokens[t].status = "revoked" => tokens[t].revoked <= tokens[t].ended
  /\ \A r \in Requests : ops[r].step = "revoke" =>
       /\ ops[r].at <= now
       /\ tokens[ops[r].ask.token].status = "revoked" => ops[r].at <= tokens[ops[r].ask.token].ended

\* Only the router makes a request one that is about to mark a token.
LEMMA RevokeSteps ==
  ASSUME Core, [Next]_vars
  PROVE  \A r \in Requests : ops'[r].step = "revoke" => ops'[r] = ops[r] \/ operatorTokenRouter(r)
<1> DEFINE Ok == \A r \in Requests : ops'[r].step = "revoke" => ops'[r] = ops[r] \/ operatorTokenRouter(r)
<1>0. ops \in [Requests -> Operation \cup {Idle}] /\ Idle.step # "revoke"
  BY DEF Core, Shapes, Idle
<1>1. ASSUME NEW q \in Requests, NEW op, Become(q, op), op.step # "revoke" PROVE Ok
  BY <1>0, <1>1 DEF Become
<1>2. ASSUME NEW q \in Requests, Become(q, Idle) PROVE Ok
  BY <1>0, <1>1, <1>2
<1>3. ASSUME NEW q \in Requests, ops[q].step \notin {"idle", "use"}, Become(q, Audited(ops[q])) PROVE Ok
  <2>1. Audited(ops[q]).step = "audit"
    BY <1>3, AuditedKnows
  <2> QED BY <1>1, <1>3, <2>1
<1>4. ASSUME NEW q \in Requests, NEW cred \in Credentials, NEW ask \in Asks, accept(q, cred, ask) PROVE Ok
  <2> DEFINE op == [step |-> "use", who |-> AuthorizeIdentity(cred), ask |-> ask,
                    req |-> accepted + 1, at |-> now, answer |-> Unset]
  <2>1. Become(q, IF AuthorizeIdentity(cred).id \in TokenIDs THEN op ELSE authorizeOperator(op))
    BY <1>4 DEF accept
  <2>2. op.step # "revoke" /\ authorizeOperator(op).step # "revoke"
    BY <1>0 DEF authorizeOperator
  <2> HIDE DEF op
  <2> QED BY <1>1, <2>1, <2>2
<1>5. ASSUME NEW q \in Requests, use(q) PROVE Ok
  <2>1. ops[q].step = "use" /\ Become(q, authorizeOperator(ops[q]))
    BY <1>5 DEF use
  <2>2. ops[q] \in Operation
    BY <2>1, CoreOp
  <2>3. authorizeOperator(ops[q]).step # "revoke"
    BY <1>0, <2>2 DEF authorizeOperator, Operation
  <2> QED BY <1>1, <2>1, <2>3
<1>6. ASSUME NEW q \in Requests, operatorTokenRouter(q) PROVE Ok
  BY <1>0, <1>6 DEF operatorTokenRouter, Become
<1>7. ASSUME NEW q \in Requests, serverSettings(q) PROVE Ok
  <2>1. ops[q] \in Operation
    BY <1>7, CoreOp DEF serverSettings, Step
  <2>2. \/ Become(q, Idle)
        \/ \E v : Become(q, [ops[q] EXCEPT !.step = "sidecar", !.answer = v])
    BY <1>7 DEF serverSettings
  <2>3. \A v : [ops[q] EXCEPT !.step = "sidecar", !.answer = v].step # "revoke"
    BY <2>1 DEF Operation
  <2> QED BY <1>1, <1>2, <2>2, <2>3
<1>8. ASSUME NEW q \in Requests, RevokeOperatorToken(q) \/ putSidecarVersion(q) \/ putRuntimeVersions(q) PROVE Ok
  <2>1. /\ ops[q].step \notin {"idle", "use"}
        /\ \/ Become(q, [ops[q] EXCEPT !.step = "audit"])
           \/ Become(q, [ops[q] EXCEPT !.step = "runtimes"])
           \/ Become(q, Audited(ops[q]))
    BY <1>8 DEF RevokeOperatorToken, putSidecarVersion, putRuntimeVersions, Step
  <2>2. ops[q] \in Operation
    BY <2>1, CoreOp
  <2>3. /\ [ops[q] EXCEPT !.step = "audit"].step # "revoke"
        /\ [ops[q] EXCEPT !.step = "runtimes"].step # "revoke"
    BY <2>2 DEF Operation
  <2> QED BY <1>1, <1>3, <2>1, <2>3
<1>9. ASSUME NEW q \in Requests,
             \/ createOperatorToken(q) \/ listOperatorTokens(q) \/ createRolloutTemplate(q)
             \/ rolloutTemplateRouter(q)
      PROVE  Ok
  <2>1. ops[q].step \notin {"idle", "use"} /\ (Become(q, Idle) \/ Become(q, Audited(ops[q])))
    BY <1>9 DEF createOperatorToken, listOperatorTokens, createRolloutTemplate, rolloutTemplateRouter, Step
  <2> QED BY <1>2, <1>3, <2>1
<1>10. ASSUME NEW q \in Requests, createEventTicket(q) \/ auditEvents(q) \/ audit(q) \/ fail(q) PROVE Ok
  BY <1>2, <1>10 DEF createEventTicket, auditEvents, audit, fail
<1>11. restart => Ok
  BY <1>0 DEF restart
<1>12. ops' = ops => Ok
  OBVIOUS
<1>13. ASSUME NEW g \in Callers, NEW c \in Clients, NEW cred \in Credentials, refuse(g, c, cred) PROVE ops' = ops
  BY <1>13 DEF refuse
<1>14. ASSUME NEW w \in waiting, allow(w) PROVE ops' = ops
  BY <1>14 DEF allow
<1>15. ASSUME NEW t \in Tickets, NEW cred \in Credentials, authorizeEventStream(t, cred) PROVE ops' = ops
  BY <1>15 DEF authorizeEventStream
<1>16. PruneAuditEvents \/ tick \/ UNCHANGED vars => ops' = ops
  BY DEF PruneAuditEvents, tick, vars
<1> HIDE DEF Ok
<1>17. Next => Ok
  BY <1>4, <1>5, <1>6, <1>7, <1>8, <1>9, <1>10, <1>11, <1>12, <1>13, <1>14, <1>15, <1>16 DEF Next
<1>18. Ok
  BY <1>12, <1>16, <1>17
<1> QED BY <1>18 DEF Ok

\* Which steps write token rows.
LEMMA TokenSteps ==
  ASSUME [Next]_vars
  PROVE  \/ \E r \in Requests : use(r) \/ createOperatorToken(r) \/ RevokeOperatorToken(r)
         \/ UNCHANGED tokens
BY DEF Next, vars, tables, refuse, allow, accept, listOperatorTokens, operatorTokenRouter, serverSettings,
   putSidecarVersion, putRuntimeVersions, createRolloutTemplate, rolloutTemplateRouter,
   createEventTicket, auditEvents, audit, fail, authorizeEventStream, PruneAuditEvents, restart, tick

LEMMA TimeSteps ==
  ASSUME Core, [Next]_vars
  PROVE  now \in Nat /\ now' \in Nat /\ now <= now'
<1>1. now \in Nat
  BY DEF Core, Shapes
<1>2. now' = now \/ now' = now + 1
  BY DEF Next, vars, refuse, allow, accept, use, createOperatorToken, RevokeOperatorToken, listOperatorTokens,
     operatorTokenRouter, serverSettings, putSidecarVersion, putRuntimeVersions, createRolloutTemplate,
     rolloutTemplateRouter, createEventTicket, auditEvents, audit, fail, authorizeEventStream,
     PruneAuditEvents, restart, tick
<1> QED BY <1>1, <1>2

\* What a step does to one row: it marks it, makes it, notes its use or leaves it alone.
LEMMA RowSteps ==
  ASSUME Core, RevokeInv, [Next]_vars, NEW t \in TokenIDs
  PROVE  \/ /\ tokens[t].status = "absent" /\ tokens'[t].revoked = 0 /\ tokens'[t].status = "active"
         \/ /\ tokens[t].status = "active" /\ tokens'[t].status = "active" /\ tokens'[t].revoked = tokens[t].revoked
         \/ /\ tokens'[t].status = "revoked" /\ tokens'[t].revoked <= now
            /\ tokens[t].status # "revoked" => tokens'[t].ended = now
            /\ tokens[t].status = "revoked" => /\ tokens'[t] = [tokens[t] EXCEPT !.revoked = tokens'[t].revoked]
                                               /\ tokens'[t].ended = tokens[t].ended
                                               /\ tokens'[t].revoked <= tokens[t].ended
         \/ tokens'[t] = tokens[t]
<1>0. tokens \in [TokenIDs -> Token] /\ tokens[t] \in Token /\ now \in Nat
  BY DEF Core, Shapes
<1>1. ASSUME NEW r \in Requests, use(r)
      PROVE  \/ tokens'[t] = tokens[t]
             \/ /\ tokens[t].status = "active" /\ tokens'[t].status = "active"
                /\ tokens'[t].revoked = tokens[t].revoked
  <2>1. tokens' = [tokens EXCEPT ![ops[r].who.id].used =
                     IF VerifyOperatorToken(ops[r].who.id) THEN now ELSE @]
    BY <1>1 DEF use, UpdateOperatorTokenLastUsed
  <2> QED BY <2>1, <1>0 DEF VerifyOperatorToken, Token
<1>2. ASSUME NEW r \in Requests, createOperatorToken(r)
      PROVE  \/ tokens'[t] = tokens[t]
             \/ tokens[t].status = "absent" /\ tokens'[t].revoked = 0 /\ tokens'[t].status = "active"
  <2>1. PICK u \in TokenIDs \ ListOperatorTokens :
          tokens' = [tokens EXCEPT ![u] = [NoToken EXCEPT !.status = "active", !.scope = ops[r].ask.scope,
                                                   !.by = ops[r].who.id, !.req = ops[r].req]]
    BY <1>2 DEF createOperatorToken, CreateOperatorToken
  <2>2. tokens[u].status = "absent"
    BY <2>1 DEF ListOperatorTokens
  <2> QED BY <2>1, <2>2, <1>0 DEF NoToken
<1>3. ASSUME NEW r \in Requests, RevokeOperatorToken(r)
      PROVE  \/ tokens'[t] = tokens[t]
             \/ /\ tokens'[t].status = "revoked" /\ tokens'[t].revoked <= now
                /\ tokens[t].status # "revoked" => tokens'[t].ended = now
                /\ tokens[t].status = "revoked" => /\ tokens'[t] = [tokens[t] EXCEPT !.revoked = tokens'[t].revoked]
                                                   /\ tokens'[t].ended = tokens[t].ended
                                                   /\ tokens'[t].revoked <= tokens[t].ended
  <2> DEFINE u == ops[r].ask.token  at == ops[r].at
  <2>1. /\ tokens' = [tokens EXCEPT ![u].status = "revoked", ![u].revoked = at,
                                    ![u].ended = IF VerifyOperatorToken(u) THEN now ELSE @]
        /\ ops[r].step = "revoke" /\ ops[r].ask.do = "revokeToken"
    BY <1>3 DEF RevokeOperatorToken, Step
  <2>2. ops[r] \in Operation /\ KnowsStep(ops[r])
    BY <2>1, CoreOp
  <2>3. u \in TokenIDs /\ at \in Nat /\ tokens[u].status # "absent"
    BY <2>1, <2>2 DEF KnowsStep, Operation, Asks
  <2>4. at <= now /\ (tokens[u].status = "revoked" => at <= tokens[u].ended)
    BY <2>1 DEF RevokeInv
  <2>5. tokens[u] \in Token
    BY <2>3, <1>0
  <2> HIDE DEF u, at
  <2>6. /\ tokens[u].status = "revoked" => tokens'[u] = [tokens[u] EXCEPT !.revoked = at]
        /\ tokens'[u].status = "revoked" /\ tokens'[u].revoked = at
        /\ tokens'[u].ended = IF VerifyOperatorToken(u) THEN now ELSE tokens[u].ended
        /\ \A s \in TokenIDs \ {u} : tokens'[s] = tokens[s]
    <3>1. PICK x \in TokenIDs : x = u
      BY <2>3
    <3>2. PICK y \in Nat : y = at
      BY <2>3
    <3>3. tokens' = [tokens EXCEPT ![x].status = "revoked", ![x].revoked = y,
                                   ![x].ended = IF VerifyOperatorToken(x) THEN now ELSE @]
      BY <2>1, <3>1, <3>2
    <3>4. tokens \in [TokenIDs -> Token] /\ now \in Nat
      BY <1>0
    <3> DEFINE row == [tokens[x] EXCEPT !.status = "revoked", !.revoked = y,
                                        !.ended = IF VerifyOperatorToken(x) THEN now ELSE @]
    <3>5. tokens[x].status = "revoked" => row = [tokens[x] EXCEPT !.revoked = y]
      BY <3>4 DEF Token, VerifyOperatorToken
    <3>6. /\ row.status = "revoked" /\ row.revoked = y
          /\ row.ended = IF VerifyOperatorToken(x) THEN now ELSE tokens[x].ended
      BY <3>4 DEF Token
    <3>7. tokens' = [tokens EXCEPT ![x] = row]
      BY <3>3
    <3> HIDE DEF row
    <3>8. tokens'[x] = row /\ \A s \in TokenIDs \ {x} : tokens'[s] = tokens[s]
      BY <3>4, <3>7
    <3> QED BY <3>1, <3>2, <3>5, <3>6, <3>8
  <2>7. CASE t # u
    BY <2>6, <2>7
  <2>8. CASE t = u /\ tokens[u].status = "revoked"
    <3>1. tokens'[u] = [tokens[u] EXCEPT !.revoked = at]
      BY <2>6, <2>8
    <3> QED BY <2>4, <2>6, <2>8, <3>1 DEF VerifyOperatorToken
  <2>9. CASE t = u /\ tokens[u].status # "revoked"
    <3>1. VerifyOperatorToken(u)
      BY <2>3, <2>5, <2>9 DEF VerifyOperatorToken, Token
    <3> QED BY <2>4, <2>6, <2>9, <3>1
  <2> QED BY <2>7, <2>8, <2>9
<1> QED BY <1>1, <1>2, <1>3, TokenSteps

LEMMA RevokeNext ==
  ASSUME Core, RevokeInv, [Next]_vars
  PROVE  RevokeInv'
<1>0. now \in Nat /\ now' \in Nat /\ now <= now' /\ tokens \in [TokenIDs -> Token] /\ tokens' \in [TokenIDs -> Token]
  BY TimeSteps, CoreNext DEF Core, Shapes
<1>1. ASSUME NEW t \in TokenIDs
      PROVE  /\ tokens'[t].revoked <= now'
             /\ tokens'[t].status = "revoked" => tokens'[t].revoked <= tokens'[t].ended
  <2>1. tokens[t].revoked <= now /\ tokens[t].revoked \in Nat /\ tokens'[t].revoked \in Nat
    BY <1>0 DEF RevokeInv, Token
  <2>2. tokens'[t].revoked \in {0, tokens[t].revoked} \/ tokens'[t].revoked <= now
    BY RowSteps
  <2>3. tokens'[t].status = "revoked" => tokens'[t].revoked <= tokens'[t].ended
    BY RowSteps DEF RevokeInv
  <2> QED BY <1>0, <2>1, <2>2, <2>3
<1>2. ASSUME NEW r \in Requests, ops'[r].step = "revoke"
      PROVE  /\ ops'[r].at <= now'
             /\ tokens'[ops'[r].ask.token].status = "revoked" => ops'[r].at <= tokens'[ops'[r].ask.token].ended
  <2>1. CASE operatorTokenRouter(r)
    <3>1. /\ ops[r].step = "act" /\ ops[r].ask.do = "revokeToken" /\ now' = now /\ UNCHANGED tokens
      BY <2>1 DEF operatorTokenRouter, Step, tables
    <3>2. ops[r] \in Operation /\ ops[r].ask.token \in TokenIDs
      BY <3>1, CoreOp DEF Operation, Asks
    <3>3. tokens[ops[r].ask.token].status \in {"absent", "active", "revoked"}
      BY <1>0, <3>2 DEF Token
    <3>4. Audited(ops[r]).step = "audit" /\ Idle.step # "revoke"
      BY <3>1, AuditedKnows DEF Idle
    <3>5. ops' = [ops EXCEPT ![r] =
              CASE tokens[ops[r].ask.token].status = "absent"  -> Idle
                [] tokens[ops[r].ask.token].status = "revoked" -> Audited(ops[r])
                [] tokens[ops[r].ask.token].status = "active"  -> [ops[r] EXCEPT !.step = "revoke", !.at = now]]
      BY <2>1 DEF operatorTokenRouter, Become, loadOperatorToken
    <3>6. ops \in [Requests -> Operation \cup {Idle}]
      BY DEF Core, Shapes
    <3>7. tokens[ops[r].ask.token].status = "active" /\ ops'[r] = [ops[r] EXCEPT !.step = "revoke", !.at = now]
      BY <1>2, <3>3, <3>4, <3>5, <3>6
    <3>8. ops'[r].at = now /\ ops'[r].ask = ops[r].ask
      BY <3>2, <3>7 DEF Operation
    <3> QED BY <1>0, <3>1, <3>7, <3>8
  <2>2. CASE ops'[r] = ops[r]
    <3>1. ops[r].step = "revoke"
      BY <1>2, <2>2
    <3>2. ops[r] \in Operation /\ KnowsStep(ops[r])
      BY <3>1, CoreOp
    <3>3. PICK t : t = ops[r].ask.token
      OBVIOUS
    <3>4. t \in TokenIDs /\ ops[r].at \in Nat /\ tokens[t].status # "absent"
      BY <3>1, <3>2, <3>3 DEF KnowsStep, Operation, Asks
    <3>5. ops[r].at <= now /\ (tokens[t].status = "revoked" => ops[r].at <= tokens[t].ended)
      BY <3>1, <3>3 DEF RevokeInv
    <3>6. tokens'[t].status = "revoked" => ops[r].at <= tokens'[t].ended
      BY <3>4, <3>5, RowSteps
    <3>7. ops[r].at <= now'
      BY <1>0, <3>4, <3>5
    <3> QED BY <2>2, <3>3, <3>6, <3>7
  <2> QED BY <1>2, <2>1, <2>2, RevokeSteps
<1> QED BY <1>1, <1>2 DEF RevokeInv

LEMMA RevokeHolds == Spec => []RevokeInv
<1>1. Init => RevokeInv
  BY DEF Init, RevokeInv, NoToken, Idle
<1>2. Core /\ RevokeInv /\ [Next]_vars => RevokeInv'
  BY RevokeNext
<1> QED BY <1>1, <1>2, CoreHolds, PTL DEF Spec

\* A revoked token stays as it was, also under requests accepted before; only its
\* revoked_at may be written again, and never to a time at which it was not accepted any more.
THEOREM RevocationFreezes == Spec => FrozenAfterRevocation
<1> DEFINE Frozen == \A t \in TokenIDs : tokens[t].status = "revoked" =>
                       /\ tokens'[t] = [tokens[t] EXCEPT !.revoked = tokens'[t].revoked]
                       /\ tokens'[t].revoked <= tokens[t].ended
<1>1. Core /\ RevokeInv /\ [Next]_vars => [Frozen]_vars
  <2> SUFFICES ASSUME Core, RevokeInv, Next, NEW t \in TokenIDs, tokens[t].status = "revoked"
               PROVE  /\ tokens'[t] = [tokens[t] EXCEPT !.revoked = tokens'[t].revoked]
                      /\ tokens'[t].revoked <= tokens[t].ended
    BY DEF vars
  <2>1. tokens[t] \in Token
    BY DEF Core, Shapes
  <2>2. CASE tokens'[t] = tokens[t]
    BY <2>1, <2>2 DEF Token, RevokeInv
  <2> QED BY <2>2, RowSteps
<1> QED BY <1>1, CoreHolds, RevokeHolds, PTL DEF Spec, FrozenAfterRevocation

-----------------------------------------------------------------------------
(* Event tickets *)

\* A ticket in memory has opened nothing yet, and none opens anything before it is
\* made or again after it was looked at.
TicketsInv ==
  /\ tickets \subseteq DOMAIN history.expires
  /\ \A t \in tickets : history.streams[t] = <<>>
  /\ \A t \in Tickets \ DOMAIN history.expires : history.streams[t] = <<>>
  /\ TicketBuysOneStream

\* Only three kinds of steps concern the tickets.
LEMMA TicketSteps ==
  ASSUME Core, [Next]_vars
  PROVE  \/ \E r \in Requests : createEventTicket(r)
         \/ \E t \in Tickets, cred \in Credentials : authorizeEventStream(t, cred)
         \/ restart
         \/ /\ tickets' = tickets /\ history'.expires = history.expires
            /\ history'.streams = history.streams
<1>1. ASSUME NEW w \in waiting, allow(w)
      PROVE  tickets' = tickets /\ history'.expires = history.expires /\ history'.streams = history.streams
  BY <1>1, AllowNotes DEF allow
<1>7. ASSUME NEW g \in Callers, NEW c \in Clients, NEW cred \in Credentials, refuse(g, c, cred)
      PROVE  UNCHANGED <<tickets, history>>
  BY <1>7 DEF refuse
<1>2. ASSUME NEW r \in Requests, createRolloutTemplate(r) \/ audit(r) \/ fail(r)
      PROVE  tickets' = tickets /\ history'.expires = history.expires /\ history'.streams = history.streams
  BY <1>2, TemplateNotes, AuditNotes, FailNotes DEF createRolloutTemplate, audit, fail, memory, limiter
<1>3. ASSUME UNCHANGED <<tickets, history>>
      PROVE  tickets' = tickets /\ history'.expires = history.expires /\ history'.streams = history.streams
  BY <1>3
<1>4. ASSUME NEW r \in Requests, NEW cred \in Credentials, NEW ask \in Asks, accept(r, cred, ask)
      PROVE  UNCHANGED <<tickets, history>>
  BY <1>4 DEF accept, memory, limiter
<1>5. ASSUME NEW r \in Requests,
             \/ use(r) \/ createOperatorToken(r) \/ listOperatorTokens(r)
             \/ operatorTokenRouter(r) \/ RevokeOperatorToken(r)
             \/ serverSettings(r) \/ putSidecarVersion(r) \/ putRuntimeVersions(r)
             \/ rolloutTemplateRouter(r) \/ auditEvents(r)
      PROVE  UNCHANGED <<tickets, history>>
  BY <1>5 DEF memory, limiter, use, createOperatorToken, listOperatorTokens, operatorTokenRouter, RevokeOperatorToken,
     serverSettings, putSidecarVersion, putRuntimeVersions, rolloutTemplateRouter, auditEvents
<1>6. ASSUME PruneAuditEvents \/ tick \/ UNCHANGED vars
      PROVE  UNCHANGED <<tickets, history>>
  BY <1>6 DEF PruneAuditEvents, tick, vars, memory, limiter
<1> QED BY <1>1, <1>2, <1>3, <1>4, <1>5, <1>6, <1>7 DEF Next

LEMMA TicketsInit == Init => TicketsInv
<1> SUFFICES ASSUME Init PROVE TicketsInv
  OBVIOUS
<1>1. tickets = {} /\ history.streams = [t \in Tickets |-> <<>>]
  BY DEF Init, HInit
<1>2. Len(<<>>) = 0 /\ DOMAIN <<>> = {}
  BY EmptySeq
<1> QED BY <1>1, <1>2 DEF TicketsInv, TicketBuysOneStream

LEMMA TicketsNext ==
  ASSUME Core, TicketsInv, [Next]_vars
  PROVE  TicketsInv'
<1>0. /\ history \in History /\ now \in Nat
      /\ history.streams \in [Tickets -> Seq(Nat)]
      /\ DOMAIN history.expires \subseteq Tickets
      /\ \A t \in DOMAIN history.expires : history.expires[t] \in Nat
  BY DEF Core, Shapes, History
<1>1. ASSUME NEW r \in Requests, createEventTicket(r) PROVE TicketsInv'
  <2>1. PICK t \in Tickets \ DOMAIN history.expires :
          /\ tickets' = prune \cup {t}
          /\ history'.expires = [u \in DOMAIN history.expires \cup {t} |->
                                   IF u = t THEN now + TicketTTL ELSE history.expires[u]]
    BY <1>1, TicketNotes
  <2>2. history'.streams = history.streams
    BY <1>1, TicketNotes
  <2>3. history.streams[t] = <<>>
    BY DEF TicketsInv
  <2>4. /\ DOMAIN history'.expires = DOMAIN history.expires \cup {t}
        /\ \A u \in DOMAIN history.expires : history'.expires[u] = history.expires[u]
    BY <2>1
  <2>5. tickets' \subseteq DOMAIN history'.expires /\ \A u \in tickets' : history'.streams[u] = <<>>
    BY <2>1, <2>2, <2>3, <2>4 DEF TicketsInv, prune
  <2>6. \A u \in Tickets \ DOMAIN history'.expires : history'.streams[u] = <<>>
    BY <2>2, <2>4 DEF TicketsInv
  <2>7. TicketBuysOneStream'
    <3> SUFFICES ASSUME NEW u \in Tickets
                 PROVE  /\ Len(history'.streams[u]) <= 1
                        /\ \A i \in DOMAIN history'.streams[u] :
                             history'.streams[u][i] < history'.expires[u]
      BY DEF TicketBuysOneStream
    <3>1. CASE u \in DOMAIN history.expires
      BY <3>1, <2>2, <2>4 DEF TicketsInv, TicketBuysOneStream
    <3>2. CASE u \notin DOMAIN history.expires
      <4>1. history'.streams[u] = <<>>
        BY <3>2, <2>2 DEF TicketsInv
      <4>2. Len(<<>>) = 0 /\ DOMAIN <<>> = {}
        BY EmptySeq
      <4> QED BY <4>1, <4>2
    <3> QED BY <3>1, <3>2
  <2> QED BY <2>5, <2>6, <2>7 DEF TicketsInv
<1>2. ASSUME NEW t \in Tickets, NEW cred \in Credentials, authorizeEventStream(t, cred) PROVE TicketsInv'
  <2>1. t \in tickets /\ tickets' = prune \ {t}
    BY <1>2 DEF authorizeEventStream, verify
  <2>2. /\ history'.expires = history.expires
        /\ history'.streams = [history.streams EXCEPT ![t] = IF Valid(t) THEN Append(@, now) ELSE @]
    BY <1>2, StreamNotes
  <2>3. /\ \A u \in Tickets \ {t} : history'.streams[u] = history.streams[u]
        /\ history'.streams[t] = IF Valid(t) THEN Append(<<>>, now) ELSE <<>>
    BY <2>1, <2>2, <1>0 DEF TicketsInv
  <2>4. t \in DOMAIN history.expires
    BY <2>1 DEF TicketsInv
  <2>5. tickets' \subseteq DOMAIN history'.expires /\ \A u \in tickets' : history'.streams[u] = <<>>
    BY <2>1, <2>2, <2>3, <1>0 DEF TicketsInv, prune
  <2>6. \A u \in Tickets \ DOMAIN history'.expires : history'.streams[u] = <<>>
    BY <2>2, <2>3, <2>4 DEF TicketsInv
  <2>7. TicketBuysOneStream'
    <3> SUFFICES ASSUME NEW u \in Tickets
                 PROVE  /\ Len(history'.streams[u]) <= 1
                        /\ \A i \in DOMAIN history'.streams[u] :
                             history'.streams[u][i] < history'.expires[u]
      BY DEF TicketBuysOneStream
    <3>1. CASE u # t
      BY <3>1, <2>2, <2>3 DEF TicketsInv, TicketBuysOneStream
    <3>2. CASE u = t /\ Valid(t)
      <4>1. history'.streams[u] = <<now>>
        BY <3>2, <2>3
      <4>2. now < history'.expires[u]
        BY <3>2, <2>2 DEF Valid
      <4> QED BY <4>1, <4>2
    <3>3. CASE u = t /\ ~Valid(t)
      <4>1. history'.streams[u] = <<>>
        BY <3>3, <2>3
      <4>2. Len(<<>>) = 0 /\ DOMAIN <<>> = {}
        BY EmptySeq
      <4> QED BY <4>1, <4>2
    <3> QED BY <3>1, <3>2, <3>3
  <2> QED BY <2>5, <2>6, <2>7 DEF TicketsInv
<1>3. CASE restart
  <2>1. tickets' = {}
    BY <1>3 DEF restart
  <2>2. history'.expires = history.expires /\ history'.streams = history.streams
    BY <1>3, RestartNotes
  <2> QED BY <2>1, <2>2 DEF TicketsInv, TicketBuysOneStream
<1>4. CASE /\ tickets' = tickets /\ history'.expires = history.expires
           /\ history'.streams = history.streams
  BY <1>4 DEF TicketsInv, TicketBuysOneStream
<1> QED BY <1>1, <1>2, <1>3, <1>4, TicketSteps

\* A ticket opens at most one stream, and only before it expires, however many
\* requests present it and whenever the server restarts.
THEOREM TicketsOpenOnce == Spec => []TicketBuysOneStream
<1>1. Core /\ TicketsInv /\ [Next]_vars => TicketsInv'
  BY TicketsNext
<1>2. TicketsInv => TicketBuysOneStream
  BY DEF TicketsInv
<1> QED BY <1>1, <1>2, TicketsInit, CoreHolds, PTL DEF Spec
-----------------------------------------------------------------------------
(* The limiter *)

Counter == [start : Nat, count : 1..Limit, seen : Nat]
Attempt == [by : Callers, client : Clients, read : Nat]

\* A window that opened at time o is closed at o + Gap at the earliest: it began LockWait
\* before that, if the attempt that opened it had to wait as long as that.
Gap == Window - LockWait

\* The attempts s are of three windows at most: the first p of one that has lost its first
\* attempt, those up to q of the next, opened at b, and at most k of the last, opened at o.
Split(s, k, o, p, q, b) ==
  /\ p <= q /\ q <= Len(s) /\ p < Limit /\ q - p <= Limit /\ Len(s) - q <= k
  /\ b + Gap <= o
  /\ \A i \in 1..Len(s) : (i <= p => s[i] <= b) /\ (i <= q => s[i] <= o)
  /\ q - p = Limit => s[p + 1] <= b
  /\ Len(s) - q = k => s[q + 1] <= o

Three(s, k, o) == \E p, q \in Nat, b \in Int : Split(s, k, o, p, q, b)

\* What is known of a client's attempts s at time n: of one with entry e ...
Counted(s, e, n) == \E o \in Int : o <= n /\ o <= e.start + LockWait /\ Three(s, e.count, o)

\* ... and of one without.
Uncounted(s, n) == \E o \in Int, k \in 1..Limit : o + Gap <= n /\ Three(s, k, o)

LimiterInv ==
  /\ waiting \subseteq Attempt /\ \A w \in waiting : w.read <= now /\ now <= w.read + LockWait
  /\ DOMAIN entries \subseteq Clients /\ IsFiniteSet(DOMAIN entries)
  /\ Cardinality(DOMAIN entries) <= MaxKeys
  /\ \A c \in DOMAIN entries :
       /\ entries[c] \in Counter
       /\ entries[c].start <= now /\ entries[c].seen <= now
       /\ Counted(history.through[c], entries[c], now)
  /\ \A c \in Clients \ DOMAIN entries : Uncounted(history.through[c], now)
  /\ \A c \in Clients : \A i \in 1..Len(history.through[c]) : history.through[c][i] <= now

-----------------------------------------------------------------------------
(* The audit entries *)

\* A token's request is the one that made it: it was cut short, has its entry, or
\* is about to write it.
CreationKnown(t) ==
  /\ tokens[t].req \in 1..accepted
  /\ \/ tokens[t].req \in history.cut
     \/ \E r \in Requests : ops[r] # Idle /\ ops[r].req = tokens[t].req
     \/ \E e \in history.audited : e.req = tokens[t].req /\ e.name = tokens[t].by
  /\ \A r \in Requests :
       ops[r] # Idle /\ ops[r].req = tokens[t].req =>
         ops[r].step = "audit" /\ ops[r].who.id = tokens[t].by

\* Request r has deleted a template and not yet said so.
Deleting(r) == ops[r].step = "audit" /\ ops[r].ask.do = "deleteTemplate"

RequestsNumbered ==
  /\ \A r \in Requests : ops[r] # Idle => ops[r].req \in 1..accepted
  /\ \A q, r \in Requests : ops[q] # Idle /\ ops[r] # Idle /\ ops[q].req = ops[r].req => q = r

CreationsKnown == \A t \in TokenIDs : tokens[t].status # "absent" => CreationKnown(t)

\* Only what is past its retention is missing from the log.
EntriesKept ==
  /\ log \subseteq history.audited
  /\ \A e \in history.audited : (AuditRetention > 0 /\ e.at < now - AuditRetention) \/ e \in log

\* A deletion on record, or about to be, is of a template that is gone for good, and
\* is the only one.
DeletionsInv ==
  /\ templates \subseteq history.used
  /\ DeletedOnce
  /\ \A e \in history.audited : e.ask.do = "deleteTemplate" => e.ask.template \in history.used
  /\ \A r \in Requests : Deleting(r) =>
       /\ ops[r].ask.template \in history.used \ templates
       /\ \A e \in history.audited : e.ask # ops[r].ask
       /\ \A q \in Requests : Deleting(q) /\ ops[q].ask = ops[r].ask => q = r

AuditInv == RequestsNumbered /\ CreationsKnown /\ EntriesKept /\ DeletionsInv

-----------------------------------------------------------------------------
(* The limiter's invariant is inductive *)

LEMMA LimiterBounds ==
  /\ Limit \in Nat /\ Limit > 0 /\ Window \in Nat /\ LockWait \in Nat /\ MaxKeys \in Nat
  /\ Gap \in Nat /\ Window <= Gap + Gap /\ Gap = Window - LockWait
BY AccessBounds DEF Gap

\* Cutting off what is older than t leaves three windows.
LEMMA CutThree ==
  ASSUME NEW s \in Seq(Nat), NEW t \in Int, NEW k \in 1..Limit, NEW o \in Int, Three(s, k, o)
  PROVE  Three(After(s, t), k, o)
<1> DEFINE u == After(s, t)
<1>0. /\ Limit \in Nat /\ Limit > 0 /\ Len(s) \in Nat /\ \A i \in 1..Len(s) : s[i] \in Nat
      /\ k \in Nat /\ k > 0
  BY LimiterBounds, LenProperties, ElementOfSeq
<1>1. PICK cut \in 0..Len(s) : Len(u) = Len(s) - cut /\ \A i \in 1..Len(s) - cut : u[i] = s[cut + i]
  BY AfterCuts
<1>2. PICK p \in Nat, q \in Nat, b \in Int : Split(s, k, o, p, q, b)
  BY DEF Three
<1> HIDE DEF u
<1>3. PICK x \in Nat : x = IF p <= cut THEN 0 ELSE p - cut
  <2>1. (IF p <= cut THEN 0 ELSE p - cut) \in Nat
    BY <1>0
  <2> QED BY <2>1
<1>4. PICK y \in Nat : y = IF q <= cut THEN 0 ELSE q - cut
  <2>1. (IF q <= cut THEN 0 ELSE q - cut) \in Nat
    BY <1>0
  <2> QED BY <2>1
<1>5. /\ p <= q /\ q <= Len(s) /\ p < Limit /\ q - p <= Limit /\ Len(s) - q <= k /\ b + Gap <= o
      /\ \A i \in 1..Len(s) : (i <= p => s[i] <= b) /\ (i <= q => s[i] <= o)
      /\ q - p = Limit => s[p + 1] <= b
      /\ Len(s) - q = k => s[q + 1] <= o
  BY <1>2 DEF Split
<1>6. x <= y /\ y <= Len(u) /\ x < Limit /\ y - x <= Limit /\ Len(u) - y <= k
  BY <1>0, <1>1, <1>3, <1>4, <1>5
<1>7. ASSUME NEW i \in 1..Len(u) PROVE (i <= x => u[i] <= b) /\ (i <= y => u[i] <= o)
  <2>1. cut + i \in 1..Len(s) /\ u[i] = s[cut + i]
    BY <1>0, <1>1
  <2>2. (i <= x => cut + i <= p) /\ (i <= y => cut + i <= q)
    BY <1>0, <1>3, <1>4
  <2> QED BY <2>1, <2>2, <1>5
<1>8. ASSUME y - x = Limit PROVE u[x + 1] <= b
  <2>1. q - p = Limit /\ x = p - cut /\ x + 1 \in 1..Len(s) - cut /\ cut + (x + 1) = p + 1
    BY <1>0, <1>1, <1>3, <1>4, <1>5, <1>6, <1>8
  <2> QED BY <2>1, <1>1, <1>5
<1>9. ASSUME Len(u) - y = k PROVE u[y + 1] <= o
  <2>1. q <= Len(s) /\ Len(s) - q <= k /\ Len(u) = Len(s) - cut /\ cut \in Nat
    BY <1>0, <1>1, <1>5
  <2>2. cut <= q
    <3> SUFFICES ASSUME q < cut PROVE FALSE
      BY <2>1
    <3>1. y = 0 /\ Len(s) - cut = k
      BY <1>4, <1>9, <2>1
    <3> QED BY <1>0, <2>1, <3>1
  <2>4. y = q - cut
    BY <1>4, <2>1, <2>2
  <2>3. Len(s) - q = k /\ y + 1 \in 1..Len(s) - cut /\ cut + (y + 1) = q + 1
    <3>1. Len(s) \in Nat /\ k \in Nat /\ k > 0 /\ Len(s) - cut - (q - cut) = k
      BY <1>0, <1>9, <2>1, <2>4
    <3> QED BY <2>1, <2>2, <2>4, <3>1
  <2> QED BY <2>3, <1>1, <1>5
<1>10. Split(u, k, o, x, y, b)
  BY <1>5, <1>6, <1>7, <1>8, <1>9 DEF Split
<1> QED BY <1>10 DEF Three, u

\* An attempt counted in the last window.
LEMMA CountThree ==
  ASSUME NEW s \in Seq(Nat), NEW n \in Nat, NEW k \in 1..Limit, NEW o \in Int, Three(s, k, o)
  PROVE  Three(Append(s, n), k + 1, o)
<1> DEFINE u == Append(s, n)
<1>0. Limit \in Nat /\ Len(s) \in Nat /\ k \in Nat /\ k > 0 /\ \A i \in 1..Len(s) : s[i] \in Nat
  BY LimiterBounds, LenProperties, ElementOfSeq
<1>1. Len(u) = Len(s) + 1 /\ \A i \in 1..Len(s) : u[i] = s[i]
  BY AppendProperties
<1>2. PICK p \in Nat, q \in Nat, b \in Int : Split(s, k, o, p, q, b)
  BY DEF Three
<1> HIDE DEF u
<1>3. /\ p <= q /\ q <= Len(s) /\ p < Limit /\ q - p <= Limit /\ Len(s) - q <= k /\ b + Gap <= o
      /\ \A i \in 1..Len(s) : (i <= p => s[i] <= b) /\ (i <= q => s[i] <= o)
      /\ q - p = Limit => s[p + 1] <= b
      /\ Len(s) - q = k => s[q + 1] <= o
  BY <1>2 DEF Split
<1>4. q <= Len(u) /\ Len(u) - q <= k + 1
  BY <1>0, <1>1, <1>3
<1>5. ASSUME NEW i \in 1..Len(u) PROVE (i <= p => u[i] <= b) /\ (i <= q => u[i] <= o)
  <2>1. i <= q => i \in 1..Len(s)
    BY <1>0, <1>1, <1>3
  <2>2. i <= p => i <= q
    BY <1>3
  <2> QED BY <2>1, <2>2, <1>1, <1>3
<1>6. ASSUME q - p = Limit PROVE u[p + 1] <= b
  <2>1. p + 1 \in 1..Len(s)
    BY <1>0, <1>3, <1>6
  <2> QED BY <2>1, <1>1, <1>3, <1>6
<1>7. ASSUME Len(u) - q = k + 1 PROVE u[q + 1] <= o
  <2>1. Len(s) - q = k /\ q + 1 \in 1..Len(s)
    BY <1>0, <1>1, <1>3, <1>7
  <2> QED BY <2>1, <1>1, <1>3
<1>8. Split(u, k + 1, o, p, q, b)
  BY <1>3, <1>4, <1>5, <1>6, <1>7 DEF Split
<1> QED BY <1>8 DEF Three, u

\* An attempt that opens a window: what is young enough is of the two windows before, and the
\* first of them has lost its first attempt.
LEMMA OpenThree ==
  ASSUME NEW s \in Seq(Nat), NEW n \in Nat, Uncounted(s, n),
         \A i \in 1..Len(s) : s[i] <= n /\ s[i] > n - Window
  PROVE  Three(Append(s, n), 1, n)
<1> DEFINE u == Append(s, n)
<1>0. /\ Limit \in Nat /\ Limit > 0 /\ Window \in Nat /\ Gap \in Nat /\ Window <= Gap + Gap
      /\ Len(s) \in Nat /\ \A i \in 1..Len(s) : s[i] \in Nat
  BY LimiterBounds, LenProperties, ElementOfSeq
<1>1. Len(u) = Len(s) + 1 /\ u[Len(s) + 1] = n /\ \A i \in 1..Len(s) : u[i] = s[i]
  BY AppendProperties
<1>2. PICK o \in Int, k \in 1..Limit : o + Gap <= n /\ Three(s, k, o)
  BY DEF Uncounted
<1>3. PICK p \in Nat, q \in Nat, b \in Int : Split(s, k, o, p, q, b)
  BY <1>2 DEF Three
<1> HIDE DEF u
<1>4. /\ p <= q /\ q <= Len(s) /\ p < Limit /\ q - p <= Limit /\ Len(s) - q <= k /\ b + Gap <= o
      /\ \A i \in 1..Len(s) : (i <= p => s[i] <= b) /\ (i <= q => s[i] <= o)
      /\ q - p = Limit => s[p + 1] <= b
      /\ Len(s) - q = k => s[q + 1] <= o
  BY <1>3 DEF Split
<1>5. b <= n - Window
  BY <1>0, <1>2, <1>4
<1>6. \A i \in 1..Len(s) : ~(s[i] <= b)
  BY <1>0, <1>5
<1>7. p = 0
  <2> SUFFICES ASSUME p # 0 PROVE FALSE
    OBVIOUS
  <2>1. 1 \in 1..Len(s) /\ 1 <= p
    BY <1>0, <1>4
  <2> QED BY <2>1, <1>4, <1>6
<1>8. q < Limit
  <2> SUFFICES ASSUME q = Limit PROVE FALSE
    BY <1>0, <1>4, <1>7
  <2>1. q - p = Limit /\ p + 1 \in 1..Len(s)
    BY <1>0, <1>4, <1>7
  <2> QED BY <2>1, <1>4, <1>6
<1>9. k \in Nat /\ k <= Limit
  BY <1>0
<1>10. q <= Len(s) /\ Len(s) <= Len(u) /\ Len(s) - q <= Limit /\ Len(u) - Len(s) <= 1
  BY <1>0, <1>1, <1>4, <1>9
<1>11. ASSUME NEW i \in 1..Len(u) PROVE (i <= q => u[i] <= o) /\ (i <= Len(s) => u[i] <= n)
  <2>1. i <= Len(s) => i \in 1..Len(s)
    BY <1>0, <1>1
  <2>2. i <= q => i <= Len(s)
    BY <1>0, <1>4
  <2> QED BY <2>1, <2>2, <1>1, <1>4
<1>12. ASSUME Len(s) - q = Limit PROVE u[q + 1] <= o
  <2>1. Len(s) - q = k /\ q + 1 \in 1..Len(s)
    BY <1>0, <1>4, <1>9, <1>12
  <2> QED BY <2>1, <1>1, <1>4
<1>13. u[Len(s) + 1] <= n
  BY <1>1
<1>14. Split(u, 1, n, q, Len(s), o)
  BY <1>2, <1>8, <1>10, <1>11, <1>12, <1>13 DEF Split
<1> QED BY <1>0, <1>14 DEF Three, u

\* A client of whom nothing is remembered.
LEMMA NoneThree ==
  ASSUME NEW n \in Int
  PROVE  Uncounted(<<>>, n)
<1>0. Limit \in Nat /\ Limit > 0 /\ Gap \in Nat /\ Len(<<>>) = 0
  BY LimiterBounds, EmptySeq
<1>1. PICK o \in Int : o = n - Gap
  BY <1>0
<1>2. PICK b \in Int : b = o - Gap
  BY <1>0
<1>3. 1..Len(<<>>) = {} /\ 0 <= Len(<<>>) /\ 0 < Limit /\ 0 - 0 <= Limit /\ Len(<<>>) - 0 <= 1
      /\ 0 - 0 # Limit /\ Len(<<>>) - 0 # 1 /\ b + Gap <= o /\ o + Gap <= n /\ 1 \in 1..Limit /\ 0 \in Nat
  BY <1>0, <1>1, <1>2
<1>4. Split(<<>>, 1, o, 0, 0, b)
  BY <1>3 DEF Split
<1>5. Three(<<>>, 1, o)
  BY <1>3, <1>4 DEF Three
<1> QED BY <1>3, <1>5 DEF Uncounted

\* There are fewer than three times the limit.
LEMMA ThreeBounds ==
  ASSUME NEW s \in Seq(Nat), NEW k \in 1..Limit, NEW o \in Int, Three(s, k, o)
  PROVE  Len(s) < 3 * Limit
<1>0. Limit \in Nat /\ Len(s) \in Nat
  BY LimiterBounds, LenProperties
<1>1. PICK p \in Nat, q \in Nat, b \in Int : p < Limit /\ q - p <= Limit /\ Len(s) - q <= k
  BY DEF Three, Split
<1> QED BY <1>0, <1>1

\* What allow leaves of the entries: those still open and the client's, but perhaps
\* for one; and never more than there may be.
LEMMA AllowEntries ==
  ASSUME LimiterInv, NEW c \in Clients, NEW next, NEW Open \in SUBSET DOMAIN entries,
         DOMAIN next = Open \cup {c},
         entries' \in IF c \notin Open THEN enforceMaxKeys(next) ELSE {next}
  PROVE  /\ DOMAIN entries' \subseteq DOMAIN next /\ IsFiniteSet(DOMAIN entries')
         /\ Cardinality(DOMAIN entries') <= MaxKeys
         /\ \A d \in DOMAIN entries' : entries'[d] = next[d]
<1>1. /\ IsFiniteSet(Open) /\ Cardinality(Open) <= Cardinality(DOMAIN entries)
      /\ Cardinality(DOMAIN entries) \in Nat /\ Cardinality(Open) \in Nat
  BY FS_Subset, FS_CardinalityType DEF LimiterInv
<1>2. MaxKeys \in Nat /\ Cardinality(Open) <= MaxKeys
  <2>1. MaxKeys \in Nat /\ Cardinality(DOMAIN entries) <= MaxKeys
    BY AccessBounds DEF LimiterInv
  <2> QED BY <2>1, <1>1
<1>3. /\ IsFiniteSet(Open \cup {c})
      /\ Cardinality(Open \cup {c}) = IF c \in Open THEN Cardinality(Open) ELSE Cardinality(Open) + 1
  BY <1>1, FS_AddElement
<1>4. CASE entries' = next /\ Cardinality(DOMAIN next) <= MaxKeys
  BY <1>3, <1>4
<1>5. CASE c \in Open /\ entries' = next
  BY <1>2, <1>3, <1>5
<1>6. ASSUME NEW victim \in DOMAIN next, entries' = [d \in DOMAIN next \ {victim} |-> next[d]]
      PROVE  /\ DOMAIN entries' \subseteq DOMAIN next /\ IsFiniteSet(DOMAIN entries')
             /\ Cardinality(DOMAIN entries') <= MaxKeys
             /\ \A d \in DOMAIN entries' : entries'[d] = next[d]
  <2>1. /\ IsFiniteSet((Open \cup {c}) \ {victim})
        /\ Cardinality((Open \cup {c}) \ {victim}) = Cardinality(Open \cup {c}) - 1
    BY <1>3, <1>6, FS_RemoveElement
  <2>2. Cardinality((Open \cup {c}) \ {victim}) <= MaxKeys
    BY <1>1, <1>2, <1>3, <2>1
  <2>3. DOMAIN entries' = (Open \cup {c}) \ {victim}
    BY <1>6
  <2> QED BY <1>6, <2>1, <2>2, <2>3
<1>7. \/ entries' = next /\ Cardinality(DOMAIN next) <= MaxKeys
      \/ c \in Open /\ entries' = next
      \/ \E victim \in DOMAIN next : entries' = [d \in DOMAIN next \ {victim} |-> next[d]]
  BY DEF enforceMaxKeys
<1> QED BY <1>4, <1>5, <1>6, <1>7

\* What the attempt leaves of a client's attempts and of its entry.
LEMMA LimiterAllow ==
  ASSUME Core, LimiterInv, NEW c \in Clients, NEW read \in Nat, read <= now, now <= read + LockWait,
         allowLocked(c, read), UNCHANGED now, waiting' \subseteq waiting
  PROVE  LimiterInv'
<1> DEFINE live == pruneExpired(read)
           Open == {d \in DOMAIN entries : ~Expired(entries[d], read)}
           new  == c \notin DOMAIN live
           full == ~new /\ Full(live[c])
           e    == IF new THEN [start |-> read, count |-> 1, seen |-> read]
                   ELSE [live[c] EXCEPT !.seen = read, !.count = IF full THEN @ ELSE @ + 1]
           next == [d \in DOMAIN live \cup {c} |-> IF d = c THEN e ELSE live[d]]
           t == now - Window
           old(d) == history.through[d]
           young(d) == After(old(d), t)
           gone == DOMAIN next \ DOMAIN entries'
           v == [d \in Clients |->
                   IF d \in gone THEN <<>>
                   ELSE IF d = c /\ ~full THEN Append(young(d), now)
                   ELSE young(d)]
<1>0. /\ now \in Nat /\ t \in Int /\ \A d \in Clients : old(d) \in Seq(Nat)
  BY LimiterBounds DEF Core, Shapes, History
<1>1. /\ DOMAIN live = Open /\ Open \subseteq DOMAIN entries
      /\ \A d \in Open : live[d] = entries[d]
  BY DEF pruneExpired
<1>2. \A d \in DOMAIN entries :
        /\ d \in Clients /\ entries[d] \in Counter /\ entries[d].start <= now /\ entries[d].seen <= now
        /\ Counted(old(d), entries[d], now)
  BY DEF LimiterInv
<1>3. ASSUME NEW d \in Clients
      PROVE  /\ young(d) \in Seq(Nat)
             /\ \A i \in 1..Len(young(d)) : young(d)[i] <= now /\ young(d)[i] > t
             /\ \A k \in 1..Limit : \A o \in Int : Three(old(d), k, o) => Three(young(d), k, o)
  <2>1. old(d) \in Seq(Nat) /\ Len(old(d)) \in Nat /\ \A i \in 1..Len(old(d)) : old(d)[i] <= now
    BY <1>0, LenProperties DEF LimiterInv
  <2> HIDE DEF old, t
  <2>2. /\ young(d) \in Seq(Nat)
        /\ \E k \in 0..Len(old(d)) :
             /\ \A i \in k + 1..Len(old(d)) : old(d)[i] > t
             /\ Len(young(d)) = Len(old(d)) - k
             /\ \A i \in 1..Len(old(d)) - k : young(d)[i] = old(d)[k + i]
    BY <1>0, <2>1, AfterCuts
  <2>3. PICK k \in 0..Len(old(d)) :
          /\ \A i \in k + 1..Len(old(d)) : old(d)[i] > t
          /\ Len(young(d)) = Len(old(d)) - k
          /\ \A i \in 1..Len(old(d)) - k : young(d)[i] = old(d)[k + i]
    BY <2>2
  <2>4. ASSUME NEW i \in 1..Len(young(d)) PROVE young(d)[i] <= now /\ young(d)[i] > t
    <3> HIDE DEF young
    <3>1. k + i \in k + 1..Len(old(d)) /\ k + i \in 1..Len(old(d)) /\ i \in 1..Len(old(d)) - k
      BY <2>1, <2>3
    <3> QED BY <3>1, <2>1, <2>3
  <2>5. ASSUME NEW j \in 1..Limit, NEW o \in Int, Three(old(d), j, o) PROVE Three(young(d), j, o)
    BY <1>0, <2>1, <2>5, CutThree
  <2> QED BY <2>2, <2>4, <2>5
<1>4. ASSUME NEW d \in Clients \ Open PROVE Uncounted(young(d), now)
  <2>1. CASE d \in DOMAIN entries
    <3>1. PICK o \in Int : o <= entries[d].start + LockWait /\ Three(old(d), entries[d].count, o)
      BY <2>1, <1>2 DEF Counted
    <3>2. entries[d].start \in Nat /\ entries[d].count \in 1..Limit
      BY <2>1, <1>2 DEF Counter
    <3>3. read >= entries[d].start + Window
      BY <2>1 DEF Expired
    <3>4. o + Gap <= now
      <4> HIDE DEF Open, t, old
      <4> QED BY <1>0, <3>1, <3>2, <3>3, LimiterBounds
    <3>5. Three(young(d), entries[d].count, o)
      <4> HIDE DEF Open, t, old, young
      <4> QED BY <1>3, <3>1, <3>2
    <3> HIDE DEF young
    <3> QED BY <3>2, <3>4, <3>5 DEF Uncounted
  <2>2. CASE d \notin DOMAIN entries
    <3>1. Uncounted(old(d), now)
      BY <2>2 DEF LimiterInv
    <3>2. PICK o \in Int, k \in 1..Limit : o + Gap <= now /\ Three(old(d), k, o)
      BY <3>1 DEF Uncounted
    <3>3. Three(young(d), k, o)
      <4> HIDE DEF Open, t, old, young
      <4> QED BY <1>3, <3>2
    <3> HIDE DEF young
    <3> QED BY <3>2, <3>3 DEF Uncounted
  <2> QED BY <2>1, <2>2
<1>5. \A d \in Open : Counted(young(d), entries[d], now)
  <2> TAKE d \in Open
  <2>1. d \in Clients /\ entries[d].count \in 1..Limit /\ Counted(old(d), entries[d], now)
    BY <1>1, <1>2 DEF Counter
  <2>2. PICK o \in Int : /\ o <= now /\ o <= entries[d].start + LockWait
                         /\ Three(old(d), entries[d].count, o)
    BY <2>1 DEF Counted
  <2>3. Three(young(d), entries[d].count, o)
    <3> HIDE DEF Open, t, old, young
    <3> QED BY <1>3, <2>1, <2>2
  <2> HIDE DEF young
  <2> QED BY <2>2, <2>3 DEF Counted
<1>6. /\ e \in Counter /\ e.start <= now /\ e.seen <= now
      /\ new => e.start = read /\ e.count = 1
      /\ ~new => /\ e.start = entries[c].start
                 /\ e.count = IF full THEN entries[c].count ELSE entries[c].count + 1
  <2>1. CASE new
    <3> HIDE DEF new, full
    <3> QED BY <2>1, <1>0, LimiterBounds DEF Counter
  <2>2. CASE ~new
    <3>1. /\ live[c] = entries[c] /\ live[c] \in Counter /\ live[c].start <= now
      BY <2>2, <1>1, <1>2
    <3>2. live[c].count \in 1..Limit /\ (~full => live[c].count + 1 \in 1..Limit)
      <4>1. live[c].count \in 1..Limit /\ Limit \in Nat
        BY <3>1, LimiterBounds DEF Counter
      <4> HIDE DEF new, live
      <4> QED BY <4>1, <2>2 DEF Full
    <3>3. CASE full
      <4>1. e = [live[c] EXCEPT !.seen = read]
        <5> HIDE DEF new, live, full
        <5> QED BY <2>2, <3>1, <3>3 DEF Counter
      <4> HIDE DEF new, live, full, e
      <4> QED BY <2>2, <3>1, <3>3, <4>1 DEF Counter
    <3>4. CASE ~full
      <4>1. e = [live[c] EXCEPT !.seen = read, !.count = live[c].count + 1]
        <5> HIDE DEF new, live, full
        <5> QED BY <2>2, <3>1, <3>4 DEF Counter
      <4> HIDE DEF new, live, full, e
      <4> QED BY <2>2, <3>1, <3>2, <3>4, <4>1 DEF Counter
    <3> QED BY <3>3, <3>4
  <2> QED BY <2>1, <2>2
<1>7. entries' \in IF c \notin Open THEN enforceMaxKeys(next) ELSE {next}
  BY <1>1 DEF allowLocked
<1>8. DOMAIN next = Open \cup {c} /\ next[c] = e /\ \A d \in Open \ {c} : next[d] = entries[d]
  <2> HIDE DEF e, live, Open
  <2> QED BY <1>1
<1>9. /\ DOMAIN entries' \subseteq DOMAIN next /\ IsFiniteSet(DOMAIN entries')
      /\ Cardinality(DOMAIN entries') <= MaxKeys
      /\ \A d \in DOMAIN entries' : entries'[d] = next[d]
  <2> HIDE DEF next, Open, e, live
  <2> QED BY <1>1, <1>7, <1>8, AllowEntries
<1>10. \A d \in Clients : Append(young(d), now) \in Seq(Nat)
  <2> HIDE DEF young
  <2> QED BY <1>0, <1>3, AppendProperties
<1>11. history'.through = v
  <2>1. v \in [Clients -> Seq(Nat)]
    <3> SUFFICES ASSUME NEW d \in Clients PROVE v[d] \in Seq(Nat)
      OBVIOUS
    <3>1. young(d) \in Seq(Nat) /\ <<>> \in Seq(Nat)
      BY <1>3
    <3> HIDE DEF gone, full, young
    <3> QED BY <3>1, <1>10
  <2>2. Note("through", v)
    BY DEF allowLocked
  <2>3. history \in History
    BY DEF Core, Shapes
  <2> HIDE DEF v
  <2> QED BY <2>1, <2>2, <2>3, NoteThrough
\* The client's own count.
<1>12. c \in DOMAIN entries' => Counted(history'.through[c], entries'[c], now)
  <2> SUFFICES ASSUME c \in DOMAIN entries' PROVE Counted(history'.through[c], e, now)
    BY <1>8, <1>9
  <2>1. history'.through[c] = IF ~full THEN Append(young(c), now) ELSE young(c)
    <3>1. c \notin gone
      OBVIOUS
    <3> HIDE DEF gone, full, young
    <3> QED BY <1>11, <3>1
  <2>2. CASE new
    <3>1. ~full /\ Uncounted(young(c), now)
      BY <2>2, <1>1, <1>4
    <3>2. \A i \in 1..Len(young(c)) : young(c)[i] <= now /\ young(c)[i] > now - Window
      BY <1>3
    <3>3. young(c) \in Seq(Nat)
      BY <1>3
    <3> HIDE DEF new, full, young, e, t
    <3>4. Three(Append(young(c), now), 1, now)
      BY <1>0, <3>1, <3>2, <3>3, OpenThree
    <3>5. e.start = read /\ e.count = 1 /\ now \in Int /\ now <= e.start + LockWait /\ now <= now
      BY <2>2, <1>0, <1>6
    <3> QED BY <2>1, <3>1, <3>4, <3>5 DEF Counted
  <2>3. CASE ~new
    <3>1. c \in Open
      BY <2>3, <1>1
    <3>2. entries[c].count \in 1..Limit
      BY <3>1, <1>1, <1>2 DEF Counter
    <3>3. PICK o \in Int : /\ o <= now /\ o <= entries[c].start + LockWait
                           /\ Three(young(c), entries[c].count, o)
      BY <3>1, <1>5 DEF Counted
    <3>4. young(c) \in Seq(Nat)
      BY <1>3
    <3> HIDE DEF new, full, young, e, t, Open
    <3>5. CASE full
      <4>1. e.start = entries[c].start /\ e.count = entries[c].count
        BY <2>3, <3>5, <1>6
      <4> QED BY <2>1, <3>3, <3>5, <4>1 DEF Counted
    <3>6. CASE ~full
      <4>1. e.start = entries[c].start /\ e.count = entries[c].count + 1
        BY <2>3, <3>6, <1>6
      <4>2. Three(Append(young(c), now), entries[c].count + 1, o)
        BY <1>0, <3>2, <3>3, <3>4, CountThree
      <4> QED BY <2>1, <3>3, <3>6, <4>1, <4>2 DEF Counted
    <3> QED BY <3>5, <3>6
  <2> QED BY <2>2, <2>3
\* The other clients'.
<1>13. ASSUME NEW d \in DOMAIN entries', d # c
       PROVE  /\ entries'[d] = entries[d] /\ d \in Open /\ d \in Clients
              /\ Counted(history'.through[d], entries'[d], now)
  <2>1. d \in Open /\ entries'[d] = entries[d]
    <3> HIDE DEF Open, next, e
    <3> QED BY <1>8, <1>9, <1>13
  <2>2. d \in Clients
    BY <2>1, <1>1, <1>2
  <2>3. history'.through[d] = young(d)
    <3>1. d \notin gone
      OBVIOUS
    <3> HIDE DEF gone, full, young
    <3> QED BY <1>11, <1>13, <2>2, <3>1
  <2> HIDE DEF young, Open
  <2> QED BY <2>1, <2>2, <2>3, <1>5
<1>14. \A d \in DOMAIN entries' :
         /\ entries'[d] \in Counter /\ entries'[d].start <= now' /\ entries'[d].seen <= now'
         /\ Counted(history'.through[d], entries'[d], now')
  <2> TAKE d \in DOMAIN entries'
  <2>1. CASE d = c
    <3>1. entries'[d] = e
      BY <2>1, <1>8, <1>9
    <3> HIDE DEF e
    <3> QED BY <2>1, <3>1, <1>6, <1>12
  <2>2. CASE d # c
    <3>1. entries'[d] = entries[d] /\ d \in DOMAIN entries
      BY <2>2, <1>13
    <3> QED BY <2>2, <3>1, <1>2, <1>13
  <2> QED BY <2>1, <2>2
<1>15. ASSUME NEW d \in Clients \ DOMAIN entries' PROVE Uncounted(history'.through[d], now')
  <2>1. CASE d \in gone
    <3>1. history'.through[d] = <<>>
      <4> HIDE DEF gone
      <4> QED BY <2>1, <1>11
    <3> QED BY <3>1, <1>0, NoneThree
  <2>2. CASE d \notin gone
    <3>1. d \notin Open /\ d # c
      BY <2>2, <1>8, <1>15
    <3>2. history'.through[d] = young(d)
      <4> HIDE DEF gone, full, young
      <4> QED BY <2>2, <3>1, <1>11
    <3> QED BY <3>1, <3>2, <1>4
  <2> QED BY <2>1, <2>2
<1>16. ASSUME NEW d \in Clients
       PROVE  \A i \in 1..Len(history'.through[d]) : history'.through[d][i] <= now'
  <2>1. young(d) \in Seq(Nat) /\ Len(young(d)) \in Nat /\ \A i \in 1..Len(young(d)) : young(d)[i] <= now
    BY <1>3, LenProperties
  <2>2. /\ Len(Append(young(d), now)) = Len(young(d)) + 1 /\ Append(young(d), now)[Len(young(d)) + 1] = now
        /\ \A i \in 1..Len(young(d)) : Append(young(d), now)[i] = young(d)[i]
    <3> HIDE DEF young
    <3> QED BY <2>1, <1>0, AppendProperties
  <2>3. \A i \in 1..Len(Append(young(d), now)) : Append(young(d), now)[i] <= now
    <3> HIDE DEF young
    <3> TAKE i \in 1..Len(Append(young(d), now))
    <3>1. i \in 1..Len(young(d)) \/ i = Len(young(d)) + 1
      BY <2>1, <2>2
    <3> QED BY <3>1, <2>1, <2>2, <1>0
  <2>4. 1..Len(<<>>) = {}
    BY EmptySeq
  <2>5. history'.through[d] \in {<<>>, Append(young(d), now), young(d)}
    <3> HIDE DEF gone, full, young
    <3> QED BY <1>11
  <2> HIDE DEF young
  <2> QED BY <2>1, <2>3, <2>4, <2>5
<1>17. DOMAIN entries' \subseteq Clients
  BY <1>13
<1>18. waiting' \subseteq Attempt /\ \A w \in waiting' : w.read <= now' /\ now' <= w.read + LockWait
  BY DEF LimiterInv
<1> HIDE DEF v, gone, next, e, full, new, live, Open, old, young, t
<1> QED BY <1>9, <1>14, <1>15, <1>16, <1>17, <1>18 DEF LimiterInv

\* What the steps do to the limiter.
LEMMA LimiterSteps ==
  ASSUME Core, [Next]_vars
  PROVE  \/ \E w \in waiting : allow(w)
         \/ restart
         \/ /\ entries' = entries /\ history'.through = history.through /\ now' = now
            /\ waiting' = waiting \/ \E g \in Callers, c \in Clients :
                 waiting' = waiting \cup {[by |-> g, client |-> c, read |-> now]}
         \/ /\ UNCHANGED <<entries, waiting>> /\ history'.through = history.through /\ now' = now + 1
            /\ \A w \in waiting : now < w.read + LockWait
<1> DEFINE Same == UNCHANGED <<entries, waiting>> /\ history'.through = history.through /\ now' = now
<1>1. ASSUME NEW r \in Requests, createRolloutTemplate(r) \/ audit(r) \/ fail(r) \/ createEventTicket(r)
      PROVE  Same
  BY <1>1, TemplateNotes, AuditNotes, FailNotes, TicketNotes
     DEF createRolloutTemplate, audit, fail, memory, limiter, createEventTicket
<1>2. ASSUME NEW t \in Tickets, NEW cred \in Credentials, authorizeEventStream(t, cred)
      PROVE  Same
  BY <1>2, StreamNotes DEF authorizeEventStream, limiter
<1>3. ASSUME NEW r \in Requests, NEW cred \in Credentials, NEW ask \in Asks, accept(r, cred, ask)
      PROVE  Same
  BY <1>3 DEF accept, memory, limiter
<1>4. ASSUME NEW r \in Requests,
             \/ use(r) \/ createOperatorToken(r) \/ listOperatorTokens(r)
             \/ operatorTokenRouter(r) \/ RevokeOperatorToken(r)
             \/ serverSettings(r) \/ putSidecarVersion(r) \/ putRuntimeVersions(r)
             \/ rolloutTemplateRouter(r) \/ auditEvents(r)
      PROVE  Same
  BY <1>4 DEF memory, limiter, use, createOperatorToken, listOperatorTokens, operatorTokenRouter, RevokeOperatorToken,
     serverSettings, putSidecarVersion, putRuntimeVersions, rolloutTemplateRouter, auditEvents
<1>5. PruneAuditEvents \/ UNCHANGED vars => Same
  BY DEF PruneAuditEvents, vars, memory, limiter
<1>6. tick => /\ UNCHANGED <<entries, waiting>> /\ history'.through = history.through /\ now' = now + 1
              /\ \A w \in waiting : now < w.read + LockWait
  BY DEF tick, memory, limiter
<1>7. ASSUME NEW g \in Callers, NEW c \in Clients, NEW cred \in Credentials, refuse(g, c, cred)
      PROVE  /\ entries' = entries /\ history'.through = history.through /\ now' = now
             /\ waiting' = waiting \cup {[by |-> g, client |-> c, read |-> now]}
  BY <1>7 DEF refuse
<1> QED BY <1>1, <1>2, <1>3, <1>4, <1>5, <1>6, <1>7 DEF Next

\* Without entries, and with nobody waiting, nothing is remembered.
LEMMA LimiterEmpty ==
  ASSUME now \in Nat, DOMAIN entries = {}, waiting = {}, history.through = [c \in Clients |-> <<>>]
  PROVE  LimiterInv
<1>1. 1..Len(<<>>) = {} /\ \A c \in Clients : history.through[c] = <<>>
  BY EmptySeq
<1>2. Uncounted(<<>>, now)
  BY NoneThree
<1>3. IsFiniteSet(DOMAIN entries) /\ Cardinality(DOMAIN entries) <= MaxKeys
  BY FS_EmptySet, LimiterBounds
<1> QED BY <1>1, <1>2, <1>3 DEF LimiterInv

LEMMA LimiterInit == Init => LimiterInv
<1> SUFFICES ASSUME Init PROVE LimiterInv
  OBVIOUS
<1>1. now \in Nat /\ DOMAIN entries = {} /\ waiting = {} /\ history.through = [c \in Clients |-> <<>>]
  BY DEF Init, HInit
<1> QED BY <1>1, LimiterEmpty

\* Time passes, or another attempt waits.
LEMMA LimiterWait ==
  ASSUME Core, LimiterInv, entries' = entries, history'.through = history.through,
         now' \in Nat, now <= now',
         waiting' \subseteq Attempt, \A w \in waiting' : w.read <= now' /\ now' <= w.read + LockWait
  PROVE  LimiterInv'
<1>0. now \in Nat /\ \A c \in Clients : history.through[c] \in Seq(Nat)
  BY DEF Core, Shapes, History
<1>1. ASSUME NEW c \in DOMAIN entries
      PROVE  /\ entries[c].start <= now' /\ entries[c].seen <= now'
             /\ Counted(history.through[c], entries[c], now')
  <2>1. /\ entries[c].start \in Nat /\ entries[c].start <= now /\ entries[c].seen \in Nat /\ entries[c].seen <= now
        /\ Counted(history.through[c], entries[c], now)
    BY DEF LimiterInv, Counter
  <2>2. PICK o \in Int : /\ o <= now /\ o <= entries[c].start + LockWait
                         /\ Three(history.through[c], entries[c].count, o)
    BY <2>1 DEF Counted
  <2>3. o <= now' /\ entries[c].start <= now' /\ entries[c].seen <= now'
    BY <1>0, <2>1, <2>2
  <2> QED BY <2>2, <2>3 DEF Counted
<1>2. ASSUME NEW c \in Clients \ DOMAIN entries PROVE Uncounted(history.through[c], now')
  <2>1. PICK o \in Int, k \in 1..Limit : o + Gap <= now /\ Three(history.through[c], k, o)
    BY DEF LimiterInv, Uncounted
  <2>2. o + Gap <= now'
    BY <1>0, <2>1, LimiterBounds
  <2> QED BY <2>1, <2>2 DEF Uncounted
<1>3. ASSUME NEW c \in Clients, NEW i \in 1..Len(history.through[c])
      PROVE  history.through[c][i] <= now'
  <2>1. history.through[c][i] \in Nat /\ history.through[c][i] <= now
    BY <1>0, ElementOfSeq DEF LimiterInv
  <2> QED BY <2>1, <1>0
<1>4. \A c \in DOMAIN entries : entries[c] \in Counter
  BY DEF LimiterInv
<1>5. DOMAIN entries \subseteq Clients /\ IsFiniteSet(DOMAIN entries) /\ Cardinality(DOMAIN entries) <= MaxKeys
  BY DEF LimiterInv
<1> QED BY <1>1, <1>2, <1>3, <1>4, <1>5 DEF LimiterInv

LEMMA LimiterNext ==
  ASSUME Core, LimiterInv, [Next]_vars
  PROVE  LimiterInv'
<1>0. /\ now \in Nat /\ LockWait \in Nat /\ waiting \subseteq Attempt
      /\ \A w \in waiting : w.read \in Nat /\ w.read <= now /\ now <= w.read + LockWait
  BY LimiterBounds DEF Core, Shapes, LimiterInv, Attempt
<1>1. ASSUME NEW w \in waiting, allow(w) PROVE LimiterInv'
  <2>1. allowLocked(w.client, w.read) /\ waiting' \subseteq waiting /\ UNCHANGED now
    BY <1>1 DEF allow
  <2>2. w.client \in Clients /\ w.read \in Nat /\ w.read <= now /\ now <= w.read + LockWait
    BY <1>0 DEF Attempt
  <2> QED BY <2>1, <2>2, LimiterAllow
<1>2. CASE restart
  <2>1. DOMAIN entries' = {} /\ waiting' = {} /\ now' \in Nat
    BY <1>0, <1>2 DEF restart
  <2>2. history'.through = [c \in Clients |-> <<>>]
    BY <1>2, RestartNotes
  <2>3. 1..Len(<<>>) = {} /\ \A c \in Clients : history'.through[c] = <<>>
    BY <2>2, EmptySeq
  <2>4. Uncounted(<<>>, now')
    BY <2>1, NoneThree
  <2>5. IsFiniteSet(DOMAIN entries') /\ Cardinality(DOMAIN entries') <= MaxKeys
    BY <2>1, FS_EmptySet, LimiterBounds
  <2> QED BY <2>1, <2>3, <2>4, <2>5 DEF LimiterInv
<1>3. CASE /\ entries' = entries /\ history'.through = history.through /\ now' = now
           /\ waiting' = waiting \/ \E g \in Callers, c \in Clients :
                waiting' = waiting \cup {[by |-> g, client |-> c, read |-> now]}
  <2>1. CASE waiting' = waiting
    <3>1. now' \in Nat /\ now <= now'
      BY <1>0, <1>3
    <3> QED BY <1>0, <1>3, <2>1, <3>1, LimiterWait
  <2>2. ASSUME NEW g \in Callers, NEW c \in Clients,
               waiting' = waiting \cup {[by |-> g, client |-> c, read |-> now]}
        PROVE  LimiterInv'
    <3>1. [by |-> g, client |-> c, read |-> now] \in Attempt /\ now' \in Nat /\ now <= now'
      BY <1>0, <1>3 DEF Attempt
    <3>2. \A w \in waiting' : w.read <= now' /\ now' <= w.read + LockWait
      BY <1>0, <1>3, <2>2
    <3>3. waiting' \subseteq Attempt
      BY <1>0, <2>2, <3>1
    <3> QED BY <1>3, <3>1, <3>2, <3>3, LimiterWait
  <2> QED BY <1>3, <2>1, <2>2
<1>4. CASE /\ UNCHANGED <<entries, waiting>> /\ history'.through = history.through /\ now' = now + 1
           /\ \A w \in waiting : now < w.read + LockWait
  <2>1. now' \in Nat /\ now <= now' /\ waiting' \subseteq Attempt
    BY <1>0, <1>4
  <2>2. \A w \in waiting' : w.read <= now' /\ now' <= w.read + LockWait
    BY <1>0, <1>4
  <2> QED BY <1>4, <2>1, <2>2, LimiterWait
<1> QED BY <1>1, <1>2, <1>3, <1>4, LimiterSteps
-----------------------------------------------------------------------------
(* The audit invariant is inductive *)

\* A request is accepted, with a number of its own.
Accepting(r) ==
  /\ ops[r] = Idle /\ accepted' = accepted + 1
  /\ \E op : /\ Become(r, op)
             /\ op # Idle => op \in Operation /\ op.req = accepted + 1 /\ op.step \in {"use", "act"}
  /\ UNCHANGED <<tokens, templates, log, now, history>>

\* A request goes on, or ends, having made no token in this step and with no entry
\* to write before it.
Moving(r) ==
  /\ ops[r] \in Operation /\ ops[r].step # "audit"
  /\ \E op : /\ Become(r, op)
             /\ op # Idle => /\ op \in Operation /\ op.req = ops[r].req
                             /\ op.who = ops[r].who /\ op.ask = ops[r].ask
  /\ \A t \in TokenIDs : /\ tokens'[t].status # "absent" => tokens[t].status # "absent"
                         /\ tokens'[t].req = tokens[t].req /\ tokens'[t].by = tokens[t].by
  /\ accepted' = accepted /\ now' = now /\ log' = log
  /\ history'.cut = history.cut /\ history'.audited = history.audited

\* No request takes part, and nothing is forgotten but entries past their retention.
Resting ==
  /\ UNCHANGED <<ops, tokens, templates, accepted>>
  /\ history'.cut = history.cut /\ history'.audited = history.audited /\ history'.used = history.used
  /\ \/ UNCHANGED <<log, now>>
     \/ PruneAuditEvents
     \/ log' = log /\ now' = now + 1

LEMMA AuditedFields ==
  ASSUME Core, NEW r \in Requests, ops[r].step \notin {"idle", "audit", "use"},
         UNCHANGED <<accepted, now, log>>,
         history'.cut = history.cut, history'.audited = history.audited,
         \A t \in TokenIDs : /\ tokens'[t].status # "absent" => tokens[t].status # "absent"
                             /\ tokens'[t].req = tokens[t].req /\ tokens'[t].by = tokens[t].by,
         Become(r, Audited(ops[r]))
  PROVE  Moving(r)
<1>1. ops[r] \in Operation /\ ops[r].step # "audit"
  BY CoreOp
<1>2. /\ Audited(ops[r]) \in Operation /\ Audited(ops[r]).req = ops[r].req
      /\ Audited(ops[r]).who = ops[r].who /\ Audited(ops[r]).ask = ops[r].ask
  BY AuditedKnows
<1> DEFINE op == Audited(ops[r])
<1>3. Become(r, op) /\ op \in Operation /\ op.req = ops[r].req /\ op.who = ops[r].who /\ op.ask = ops[r].ask
  BY <1>2
<1> HIDE DEF op
<1> QED BY <1>1, <1>3 DEF Moving

LEMMA PlainMoves ==
  ASSUME Core, NEW r \in Requests,
         \/ listOperatorTokens(r) \/ operatorTokenRouter(r) \/ serverSettings(r)
         \/ createRolloutTemplate(r) \/ rolloutTemplateRouter(r)
         \/ createEventTicket(r) \/ auditEvents(r)
  PROVE  Moving(r)
<1> DEFINE Still == \A t \in TokenIDs : /\ tokens'[t].status # "absent" => tokens[t].status # "absent"
                                        /\ tokens'[t].req = tokens[t].req /\ tokens'[t].by = tokens[t].by
<1>1. /\ ops[r].step = "act" /\ UNCHANGED <<tokens, accepted, now, log>>
      /\ history'.cut = history.cut /\ history'.audited = history.audited
  <2>1. CASE createRolloutTemplate(r)
    BY <2>1, TemplateNotes DEF createRolloutTemplate, Step
  <2>2. CASE createEventTicket(r)
    BY <2>2, TicketNotes DEF createEventTicket, Step, tables
  <2>3. CASE \/ listOperatorTokens(r) \/ operatorTokenRouter(r) \/ serverSettings(r)
             \/ rolloutTemplateRouter(r) \/ auditEvents(r)
    BY <2>3 DEF listOperatorTokens, operatorTokenRouter, serverSettings, rolloutTemplateRouter, auditEvents,
       Step, tables
  <2> QED BY <2>1, <2>2, <2>3
<1>2. ops[r] \in Operation
  BY <1>1, CoreOp
<1>3. Still
  BY <1>1
<1>4. CASE Become(r, Audited(ops[r]))
  BY <1>1, <1>4, AuditedFields
<1>5. CASE Become(r, Idle)
  BY <1>1, <1>2, <1>3, <1>5 DEF Moving
<1>6. CASE Become(r, [ops[r] EXCEPT !.step = "revoke", !.at = now])
  <2> DEFINE op == [ops[r] EXCEPT !.step = "revoke", !.at = now]
  <2>1. now \in Nat
    BY DEF Core, Shapes
  <2>2. op \in Operation /\ op.req = ops[r].req /\ op.who = ops[r].who /\ op.ask = ops[r].ask
    BY <1>2, <2>1 DEF Operation
  <2>3. Become(r, op)
    BY <1>6
  <2> HIDE DEF op
  <2> QED BY <1>1, <1>2, <1>3, <2>2, <2>3 DEF Moving
<1>7. ASSUME NEW v \in Versions \cup {Unset}, Become(r, [ops[r] EXCEPT !.step = "sidecar", !.answer = v])
      PROVE  Moving(r)
  <2> DEFINE op == [ops[r] EXCEPT !.step = "sidecar", !.answer = v]
  <2>1. op \in Operation /\ op.req = ops[r].req /\ op.who = ops[r].who /\ op.ask = ops[r].ask
    BY <1>2 DEF Operation
  <2>2. Become(r, op)
    BY <1>7
  <2> HIDE DEF op
  <2> QED BY <1>1, <1>2, <1>3, <2>1, <2>2 DEF Moving
<1>8. CASE operatorTokenRouter(r)
  <2>1. ops[r].ask.token \in TokenIDs
    BY <1>2, <1>8 DEF operatorTokenRouter, Step, Operation, Asks
  <2>2. loadOperatorToken(ops[r].ask.token) \in {"absent", "active", "revoked"}
    BY <2>1 DEF loadOperatorToken, Core, Shapes, Token
  <2>3. \/ Become(r, Idle) \/ Become(r, Audited(ops[r]))
        \/ Become(r, [ops[r] EXCEPT !.step = "revoke", !.at = now])
    BY <1>8, <2>2 DEF operatorTokenRouter
  <2> QED BY <2>3, <1>4, <1>5, <1>6
<1>9. CASE serverSettings(r)
  <2>1. settings \in Settings /\ ops[r].ask.runtimes \in Versions \cup {Omitted, Unsupported}
    BY <1>2, <1>9 DEF serverSettings, Step, Operation, Asks, Core, Shapes
  <2>2. \/ Become(r, Idle)
        \/ \E v : /\ v \in (IF ops[r].ask.runtimes = Omitted THEN {settings.runtimes}
                            ELSE {ops[r].ask.runtimes} \ {Unsupported})
                  /\ Become(r, [ops[r] EXCEPT !.step = "sidecar", !.answer = v])
    BY <1>9 DEF serverSettings, GetServerSettings, normalizeExpectedRuntimeVersions
  <2>3. \/ Become(r, Idle)
        \/ \E v \in Versions \cup {Unset} : Become(r, [ops[r] EXCEPT !.step = "sidecar", !.answer = v])
    BY <2>1, <2>2 DEF Settings
  <2> QED BY <2>3, <1>5, <1>7
<1>10. CASE \/ listOperatorTokens(r) \/ createRolloutTemplate(r) \/ rolloutTemplateRouter(r)
            \/ createEventTicket(r) \/ auditEvents(r)
  <2>1. Become(r, Idle) \/ Become(r, Audited(ops[r]))
    BY <1>10 DEF listOperatorTokens, createRolloutTemplate, rolloutTemplateRouter, createEventTicket, auditEvents
  <2> QED BY <2>1, <1>4, <1>5
<1> QED BY <1>8, <1>9, <1>10

LEMMA OtherMoves ==
  ASSUME Core, NEW r \in Requests,
         use(r) \/ RevokeOperatorToken(r) \/ putSidecarVersion(r) \/ putRuntimeVersions(r)
  PROVE  Moving(r)
<1>1. /\ ops[r].step \notin {"idle", "audit"} /\ UNCHANGED <<accepted, now, log>>
      /\ history'.cut = history.cut /\ history'.audited = history.audited
  BY DEF use, RevokeOperatorToken, putSidecarVersion, putRuntimeVersions, Step
<1>2. ops[r] \in Operation /\ KnowsStep(ops[r]) /\ KnowsOperator(ops[r]) /\ tokens \in [TokenIDs -> Token]
  BY <1>1, CoreOp DEF Core, Shapes
<1>3. \A t \in TokenIDs : /\ tokens'[t].status # "absent" => tokens[t].status # "absent"
                          /\ tokens'[t].req = tokens[t].req /\ tokens'[t].by = tokens[t].by
  <2>1. CASE use(r)
    BY <2>1, <1>2 DEF use, UpdateOperatorTokenLastUsed, Token
  <2>2. CASE RevokeOperatorToken(r)
    <3> DEFINE u == ops[r].ask.token  at == ops[r].at
    <3>1. /\ tokens' = [tokens EXCEPT ![u].status = "revoked", ![u].revoked = at,
                                      ![u].ended = IF VerifyOperatorToken(u) THEN now ELSE @]
          /\ ops[r].step = "revoke" /\ ops[r].ask.do = "revokeToken"
      BY <2>2 DEF RevokeOperatorToken, Step
    <3>2. tokens[u].status # "absent" /\ u \in TokenIDs /\ at \in Nat /\ now \in Nat
      BY <3>1, <1>2 DEF KnowsStep, Operation, Asks, Core, Shapes
    <3> HIDE DEF u, at
    <3> QED BY <3>1, <3>2, <1>2, Revoked
  <2>3. CASE putSidecarVersion(r) \/ putRuntimeVersions(r)
    BY <2>3 DEF putSidecarVersion, putRuntimeVersions
  <2> QED BY <2>1, <2>2, <2>3
<1>4. CASE use(r)
  <2> DEFINE op == authorizeOperator(ops[r])
  <2>1. Become(r, op)
    BY <1>4 DEF use
  <2>2. op # Idle => op \in Operation /\ op.req = ops[r].req /\ op.who = ops[r].who /\ op.ask = ops[r].ask
    BY <1>2 DEF authorizeOperator, Operation
  <2> HIDE DEF op
  <2> QED BY <1>1, <1>2, <1>3, <2>1, <2>2 DEF Moving
<1>5. CASE RevokeOperatorToken(r)
  <2> DEFINE op == [ops[r] EXCEPT !.step = "audit"]
  <2>1. Become(r, op)
    BY <1>5 DEF RevokeOperatorToken
  <2>2. op \in Operation /\ op.req = ops[r].req /\ op.who = ops[r].who /\ op.ask = ops[r].ask
    BY <1>2 DEF Operation
  <2> HIDE DEF op
  <2> QED BY <1>1, <1>2, <1>3, <2>1, <2>2 DEF Moving
<1>6. CASE putSidecarVersion(r) \/ putRuntimeVersions(r)
  <2>1. ops[r].step # "use"
    BY <1>6 DEF putSidecarVersion, putRuntimeVersions, Step
  <2>2. CASE Become(r, Audited(ops[r]))
    BY <1>1, <1>3, <2>1, <2>2, AuditedFields
  <2>3. CASE Become(r, [ops[r] EXCEPT !.step = "runtimes"])
    <3> DEFINE op == [ops[r] EXCEPT !.step = "runtimes"]
    <3>1. op \in Operation /\ op.req = ops[r].req /\ op.who = ops[r].who /\ op.ask = ops[r].ask
      BY <1>2 DEF Operation
    <3>2. Become(r, op)
      BY <2>3
    <3> HIDE DEF op
    <3> QED BY <1>1, <1>2, <1>3, <3>1, <3>2 DEF Moving
  <2>4. Become(r, Audited(ops[r])) \/ Become(r, [ops[r] EXCEPT !.step = "runtimes"])
    BY <1>6 DEF putSidecarVersion, putRuntimeVersions
  <2> QED BY <2>2, <2>3, <2>4
<1> QED BY <1>4, <1>5, <1>6

LEMMA AcceptMoves ==
  ASSUME Core, NEW r \in Requests, NEW cred \in Credentials, NEW ask \in Asks, accept(r, cred, ask)
  PROVE  Accepting(r)
<1> DEFINE who == AuthorizeIdentity(cred)
           op == [step |-> "use", who |-> who, ask |-> ask, req |-> accepted + 1, at |-> now, answer |-> Unset]
           next == IF who.id \in TokenIDs THEN op ELSE authorizeOperator(op)
<1>1. who \in Who /\ now \in Nat /\ accepted \in Nat
  BY IdentityKnown DEF accept, Core, Shapes
<1>2. op \in Operation /\ op.req = accepted + 1 /\ op.step = "use"
  <2> HIDE DEF who
  <2> QED BY <1>1 DEF Operation
<1>3. next # Idle => next \in Operation /\ next.req = accepted + 1 /\ next.step \in {"use", "act"}
  <2> HIDE DEF who, op
  <2> QED BY <1>2 DEF authorizeOperator, Operation
<1>4. /\ ops[r] = Idle /\ accepted' = accepted + 1 /\ Become(r, next)
      /\ UNCHANGED <<tokens, templates, log, now, history>>
  BY DEF accept, tables
<1> HIDE DEF next
<1> QED BY <1>3, <1>4 DEF Accepting

LEMMA Steps ==
  ASSUME Core, [Next]_vars
  PROVE  \/ \E r \in Requests : \/ Accepting(r) \/ Moving(r)
                                \/ createOperatorToken(r) \/ audit(r) \/ fail(r)
         \/ restart
         \/ Resting
<1>8. ASSUME NEW g \in Callers, NEW c \in Clients, NEW cred \in Credentials, refuse(g, c, cred) PROVE Resting
  BY <1>8 DEF refuse, tables, Resting
<1>1. ASSUME NEW w \in waiting, allow(w) PROVE Resting
  <2>1. allowLocked(w.client, w.read) /\ UNCHANGED <<ops, tokens, templates, accepted, log, now>>
    BY <1>1 DEF allow, tables
  <2> QED BY <2>1, AllowNotes DEF Resting
<1>2. ASSUME NEW t \in Tickets, NEW cred \in Credentials, authorizeEventStream(t, cred) PROVE Resting
  <2>1. UNCHANGED <<ops, tokens, templates, accepted, log, now>>
    BY <1>2 DEF authorizeEventStream, tables
  <2> QED BY <1>2, <2>1, StreamNotes DEF Resting
<1>3. CASE PruneAuditEvents
  BY <1>3 DEF PruneAuditEvents, Resting
<1>4. CASE tick
  BY <1>4 DEF tick, tables, Resting
<1>5. CASE UNCHANGED vars
  BY <1>5 DEF vars, Resting
<1>6. ASSUME NEW r \in Requests, NEW cred \in Credentials, NEW ask \in Asks, accept(r, cred, ask)
      PROVE  Accepting(r)
  BY <1>6, AcceptMoves
<1>7. ASSUME NEW r \in Requests,
             \/ use(r) \/ createOperatorToken(r) \/ listOperatorTokens(r)
             \/ operatorTokenRouter(r) \/ RevokeOperatorToken(r)
             \/ serverSettings(r) \/ putSidecarVersion(r) \/ putRuntimeVersions(r)
             \/ createRolloutTemplate(r) \/ rolloutTemplateRouter(r)
             \/ createEventTicket(r) \/ auditEvents(r) \/ audit(r) \/ fail(r)
      PROVE  Moving(r) \/ createOperatorToken(r) \/ audit(r) \/ fail(r)
  BY <1>7, PlainMoves, OtherMoves
<1> QED BY <1>1, <1>2, <1>3, <1>4, <1>5, <1>6, <1>7, <1>8 DEF Next

-----------------------------------------------------------------------------
(* Numbers of requests, and who made a token *)

\* What the steps of one request do to it, seen from the numbers.
LEMMA NumbersStep ==
  ASSUME Core, RequestsNumbered, NEW r \in Requests, NEW op, Become(r, op), accepted' \in Nat,
         accepted <= accepted',
         op # Idle => \/ ops[r] # Idle /\ op.req = ops[r].req
                      \/ op.req = accepted + 1 /\ accepted' = accepted + 1
  PROVE  RequestsNumbered'
<1>1. accepted \in Nat /\ ops \in [Requests -> Operation \cup {Idle}]
  BY DEF Core, Shapes
<1>2. ops'[r] = op /\ \A q \in Requests \ {r} : ops'[q] = ops[q]
  BY <1>1 DEF Become
<1>3. ASSUME NEW q \in Requests, ops'[q] # Idle PROVE ops'[q].req \in 1..accepted'
  <2>1. CASE q = r /\ ~(ops[r] # Idle /\ op.req = ops[r].req)
    BY <2>1, <1>1, <1>2, <1>3
  <2>2. CASE q # r \/ (ops[r] # Idle /\ op.req = ops[r].req)
    <3>1. ops'[q].req = ops[q].req /\ ops[q] # Idle
      BY <2>2, <1>2, <1>3
    <3>2. ops[q].req \in 1..accepted
      BY <3>1 DEF RequestsNumbered
    <3> QED BY <3>1, <3>2, <1>1
  <2> QED BY <2>1, <2>2
<1>4. ASSUME NEW q \in Requests \ {r}, ops'[q] # Idle, op # Idle PROVE ops'[q].req # op.req
  <2>1. ops'[q] = ops[q] /\ ops[q].req \in 1..accepted
    BY <1>2, <1>4 DEF RequestsNumbered
  <2>2. CASE ops[r] # Idle /\ op.req = ops[r].req
    BY <2>1, <2>2, <1>4 DEF RequestsNumbered
  <2>3. CASE op.req = accepted + 1
    BY <2>1, <2>3, <1>1
  <2> QED BY <2>2, <2>3, <1>4
<1>5. ASSUME NEW p \in Requests, NEW q \in Requests, ops'[p] # Idle, ops'[q] # Idle,
             ops'[p].req = ops'[q].req
      PROVE  p = q
  <2>1. CASE p = r \/ q = r
    BY <2>1, <1>2, <1>4, <1>5
  <2>2. CASE p # r /\ q # r
    BY <2>2, <1>2, <1>5 DEF RequestsNumbered
  <2> QED BY <2>1, <2>2
<1> QED BY <1>3, <1>5 DEF RequestsNumbered

LEMMA NumbersNext ==
  ASSUME Core, RequestsNumbered, [Next]_vars
  PROVE  RequestsNumbered'
<1>0. accepted \in Nat
  BY DEF Core, Shapes
<1>1. ASSUME NEW r \in Requests, Accepting(r) PROVE RequestsNumbered'
  <2>1. PICK op : /\ Become(r, op)
                  /\ op # Idle => op \in Operation /\ op.req = accepted + 1 /\ op.step \in {"use", "act"}
    BY <1>1 DEF Accepting
  <2>2. accepted' = accepted + 1
    BY <1>1 DEF Accepting
  <2> QED BY <1>0, <2>1, <2>2, NumbersStep
<1>2. ASSUME NEW r \in Requests, Moving(r) PROVE RequestsNumbered'
  <2>1. PICK op : /\ Become(r, op)
                  /\ op # Idle => op.req = ops[r].req
    BY <1>2 DEF Moving
  <2>2. accepted' = accepted /\ ops[r] # Idle
    BY <1>2 DEF Moving, Operation, Idle
  <2> QED BY <1>0, <2>1, <2>2, NumbersStep
<1>3. ASSUME NEW r \in Requests, createOperatorToken(r) PROVE RequestsNumbered'
  <2>1. ops[r].step = "act" /\ Become(r, Audited(ops[r])) /\ accepted' = accepted
    BY <1>3 DEF createOperatorToken, Step
  <2>2. ops[r] # Idle /\ Audited(ops[r]).req = ops[r].req
    BY <2>1, CoreOp, AuditedKnows
  <2> QED BY <1>0, <2>1, <2>2, NumbersStep
<1>4. ASSUME NEW r \in Requests, audit(r) \/ fail(r) PROVE RequestsNumbered'
  <2>1. Become(r, Idle) /\ accepted' = accepted
    BY <1>4 DEF audit, fail
  <2> QED BY <1>0, <2>1, NumbersStep
<1>5. CASE restart
  BY <1>5 DEF restart, RequestsNumbered
<1>6. CASE Resting
  BY <1>6 DEF Resting, RequestsNumbered
<1> QED BY <1>1, <1>2, <1>3, <1>4, <1>5, <1>6, Steps

\* A token's creation stays known in the steps of requests that did not make it.
LEMMA CreationKept ==
  ASSUME Core, NEW t \in TokenIDs, CreationKnown(t), NEW r \in Requests,
         tokens'[t].req = tokens[t].req, tokens'[t].by = tokens[t].by,
         accepted' \in Nat, accepted <= accepted',
         \A q \in Requests \ {r} : ops'[q] = ops[q],
         ops[r] # Idle => ops[r].req # tokens[t].req,
         ops'[r] # Idle => ops'[r].req # tokens[t].req,
         history.cut \subseteq history'.cut, history.audited \subseteq history'.audited
  PROVE  CreationKnown(t)'
<1>1. tokens[t].req \in 1..accepted /\ accepted \in Nat
  BY DEF CreationKnown, Core, Shapes
<1>2. tokens'[t].req \in 1..accepted'
  BY <1>1
<1>3. \/ tokens'[t].req \in history'.cut
      \/ \E q \in Requests : ops'[q] # Idle /\ ops'[q].req = tokens'[t].req
      \/ \E e \in history'.audited : e.req = tokens'[t].req /\ e.name = tokens'[t].by
  <2>1. CASE tokens[t].req \in history.cut
    BY <2>1
  <2>2. ASSUME NEW q \in Requests, ops[q] # Idle, ops[q].req = tokens[t].req
        PROVE  ops'[q] # Idle /\ ops'[q].req = tokens'[t].req
    BY <2>2
  <2>3. CASE \E e \in history.audited : e.req = tokens[t].req /\ e.name = tokens[t].by
    BY <2>3
  <2> QED BY <2>1, <2>2, <2>3 DEF CreationKnown
<1>4. \A q \in Requests : ops'[q] # Idle /\ ops'[q].req = tokens'[t].req =>
        ops'[q].step = "audit" /\ ops'[q].who.id = tokens'[t].by
  BY DEF CreationKnown
<1> QED BY <1>2, <1>3, <1>4 DEF CreationKnown

LEMMA CreationsNext ==
  ASSUME Core, RequestsNumbered, CreationsKnown, [Next]_vars
  PROVE  CreationsKnown'
<1>0. accepted \in Nat /\ ops \in [Requests -> Operation \cup {Idle}] /\ tokens \in [TokenIDs -> Token]
  BY DEF Core, Shapes
<1>1. ASSUME NEW r \in Requests, Accepting(r) PROVE CreationsKnown'
  <2> SUFFICES ASSUME NEW t \in TokenIDs, tokens'[t].status # "absent" PROVE CreationKnown(t)'
    BY DEF CreationsKnown
  <2>1. CreationKnown(t) /\ UNCHANGED <<tokens, history>> /\ accepted' = accepted + 1 /\ ops[r] = Idle
    BY <1>1 DEF CreationsKnown, Accepting
  <2>2. ops'[r] # Idle => ops'[r].req = accepted + 1
    BY <1>0, <1>1 DEF Accepting, Become
  <2>3. \A q \in Requests \ {r} : ops'[q] = ops[q]
    BY <1>0, <1>1 DEF Accepting, Become
  <2>4. tokens[t].req # accepted + 1
    BY <1>0, <2>1 DEF CreationKnown
  <2>5. accepted' \in Nat /\ accepted <= accepted'
    BY <1>0, <2>1
  <2> QED BY <2>1, <2>2, <2>3, <2>4, <2>5, CreationKept
<1>2. ASSUME NEW r \in Requests, Moving(r) PROVE CreationsKnown'
  <2> SUFFICES ASSUME NEW t \in TokenIDs, tokens'[t].status # "absent" PROVE CreationKnown(t)'
    BY DEF CreationsKnown
  <2>1. CreationKnown(t) /\ tokens'[t].req = tokens[t].req /\ tokens'[t].by = tokens[t].by
        /\ accepted' = accepted /\ history'.cut = history.cut /\ history'.audited = history.audited
    BY <1>2 DEF CreationsKnown, Moving
  <2>2. ops[r] # Idle /\ ops[r].req # tokens[t].req
    BY <1>2, <2>1 DEF Moving, CreationKnown, Operation, Idle
  <2>3. ops'[r] # Idle => ops'[r].req = ops[r].req
    BY <1>0, <1>2 DEF Moving, Become
  <2>4. \A q \in Requests \ {r} : ops'[q] = ops[q]
    BY <1>0, <1>2 DEF Moving, Become
  <2>5. accepted' \in Nat /\ accepted <= accepted'
    BY <1>0, <2>1
  <2> QED BY <2>1, <2>2, <2>3, <2>4, <2>5, CreationKept
<1>3. ASSUME NEW r \in Requests, createOperatorToken(r) PROVE CreationsKnown'
  <2> DEFINE op == ops[r]
  <2>1. /\ op.step = "act" /\ UNCHANGED <<accepted, history>>
        /\ ops' = [ops EXCEPT ![r] = Audited(op)]
    BY <1>3 DEF createOperatorToken, Step, Become
  <2>2. PICK t0 \in TokenIDs :
          /\ tokens[t0].status = "absent"
          /\ tokens' = [tokens EXCEPT ![t0] = [NoToken EXCEPT !.status = "active", !.scope = op.ask.scope,
                                                       !.by = op.who.id, !.req = op.req]]
    BY <1>3 DEF createOperatorToken, CreateOperatorToken, ListOperatorTokens
  <2>3. op # Idle /\ op \in Operation /\ Audited(op) \in Operation /\ Audited(op).step = "audit"
        /\ Audited(op).req = op.req /\ Audited(op).who = op.who
    BY <2>1, CoreOp, AuditedKnows
  <2>4. Audited(op) # Idle
    BY <2>3 DEF Idle
  <2>5. ops'[r] = Audited(op) /\ \A q \in Requests \ {r} : ops'[q] = ops[q]
    BY <1>0, <2>1
  <2>6. CreationKnown(t0)'
    <3>1. tokens'[t0].req = op.req /\ tokens'[t0].by = op.who.id
      BY <1>0, <2>2 DEF NoToken
    <3>2. op.req \in 1..accepted'
      BY <2>1, <2>3 DEF RequestsNumbered
    <3>3. ops'[r] # Idle /\ ops'[r].req = tokens'[t0].req
      BY <2>3, <2>4, <2>5, <3>1
    <3>4. ASSUME NEW q \in Requests, ops'[q] # Idle, ops'[q].req = tokens'[t0].req
          PROVE  ops'[q].step = "audit" /\ ops'[q].who.id = tokens'[t0].by
      <4>1. q = r
        BY <2>3, <2>5, <3>1, <3>4 DEF RequestsNumbered
      <4> QED BY <4>1, <2>3, <2>5, <3>1
    <3> QED BY <3>1, <3>2, <3>3, <3>4 DEF CreationKnown
  <2>7. ASSUME NEW t \in TokenIDs, t # t0, tokens'[t].status # "absent" PROVE CreationKnown(t)'
    <3>1. tokens'[t] = tokens[t] /\ CreationKnown(t)
      BY <1>0, <2>2, <2>7 DEF CreationsKnown
    <3>2. op.req # tokens[t].req
      BY <2>1, <2>3, <3>1 DEF CreationKnown
    <3>3. accepted' \in Nat /\ accepted <= accepted'
      BY <1>0, <2>1
    <3>4. ops'[r].req # tokens[t].req
      BY <2>3, <2>5, <3>2
    <3> QED BY <2>1, <2>5, <3>1, <3>2, <3>3, <3>4, CreationKept
  <2> QED BY <2>6, <2>7 DEF CreationsKnown
<1>4. ASSUME NEW r \in Requests, audit(r) \/ fail(r) PROVE CreationsKnown'
  <2> SUFFICES ASSUME NEW t \in TokenIDs, tokens'[t].status # "absent" PROVE CreationKnown(t)'
    BY DEF CreationsKnown
  <2>1. /\ ops[r] # Idle /\ tokens' = tokens /\ accepted' = accepted
        /\ ops' = [ops EXCEPT ![r] = Idle]
    BY <1>4 DEF audit, fail, Become, tables, Idle
  <2>2. /\ ops'[r] = Idle /\ \A q \in Requests \ {r} : ops'[q] = ops[q]
        /\ accepted' \in Nat /\ accepted <= accepted' /\ CreationKnown(t)
    BY <1>0, <2>1 DEF CreationsKnown
  <2>3. history.cut \subseteq history'.cut /\ history.audited \subseteq history'.audited
    BY <1>4, AuditNotes, FailNotes
  <2>4. CASE ops[r].req # tokens[t].req
    BY <2>1, <2>2, <2>3, <2>4, CreationKept
  <2>5. CASE ops[r].req = tokens[t].req
    <3>1. ops[r].who.id = tokens[t].by
      BY <2>1, <2>2, <2>5 DEF CreationKnown
    <3>2. \/ tokens[t].req \in history'.cut
          \/ \E e \in history'.audited : e.req = tokens[t].req /\ e.name = tokens[t].by
      <4>1. CASE fail(r)
        BY <4>1, <2>5, FailNotes
      <4>2. CASE audit(r)
        <5> DEFINE entry == [req |-> ops[r].req, ask |-> ops[r].ask, name |-> ops[r].who.id, at |-> ops[r].at]
        <5>1. entry \in history'.audited
          BY <4>2, AuditNotes
        <5>2. entry.req = tokens[t].req /\ entry.name = tokens[t].by
          BY <2>5, <3>1
        <5> HIDE DEF entry
        <5> QED BY <5>1, <5>2
      <4> QED BY <1>4, <4>1, <4>2
    <3>3. ASSUME NEW q \in Requests, ops'[q] # Idle, ops'[q].req = tokens'[t].req
          PROVE  ops'[q].step = "audit" /\ ops'[q].who.id = tokens'[t].by
      BY <2>1, <2>2, <3>3 DEF CreationKnown
    <3>4. tokens'[t].req \in 1..accepted'
      BY <2>1, <2>2 DEF CreationKnown
    <3> QED BY <2>1, <3>2, <3>3, <3>4 DEF CreationKnown
  <2> QED BY <2>4, <2>5
<1>5. CASE restart
  <2> SUFFICES ASSUME NEW t \in TokenIDs, tokens'[t].status # "absent" PROVE CreationKnown(t)'
    BY DEF CreationsKnown
  <2>1. tokens' = tokens /\ accepted' = accepted /\ ops' = [r \in Requests |-> Idle]
    BY <1>5 DEF restart, tables
  <2>2. history'.cut = history.cut \cup InFlight /\ history'.audited = history.audited
    BY <1>5, RestartNotes
  <2>3. CreationKnown(t)
    BY <2>1 DEF CreationsKnown
  <2>4. \A q \in Requests : ops[q] # Idle => ops[q].req \in InFlight
    BY DEF InFlight
  <2> QED BY <2>1, <2>2, <2>3, <2>4 DEF CreationKnown
<1>6. CASE Resting
  BY <1>6 DEF Resting, CreationsKnown, CreationKnown
<1> QED BY <1>1, <1>2, <1>3, <1>4, <1>5, <1>6, Steps

-----------------------------------------------------------------------------
(* The log and the templates *)

LEMMA EntriesNext ==
  ASSUME Core, EntriesKept, [Next]_vars
  PROVE  EntriesKept'
<1>0. now \in Nat /\ AuditRetention \in Nat /\ \A e \in history.audited : e.at \in Nat
  BY AccessBounds DEF Core, Shapes, History, Entry
<1>1. CASE log' = log /\ history'.audited = history.audited /\ (now' = now \/ now' = now + 1)
  <2>1. \A e \in history.audited : e.at < now - AuditRetention => e.at < now' - AuditRetention
    BY <1>0, <1>1
  <2> QED BY <1>1, <2>1 DEF EntriesKept
<1>2. CASE PruneAuditEvents /\ history'.audited = history.audited
  <2>1. log' = {e \in log : e.at >= now - AuditRetention} /\ now' = now /\ AuditRetention > 0
    BY <1>2 DEF PruneAuditEvents
  <2>2. \A e \in history.audited : e.at >= now - AuditRetention \/ e.at < now - AuditRetention
    BY <1>0
  <2> QED BY <1>2, <2>1, <2>2 DEF EntriesKept
<1>3. ASSUME NEW r \in Requests, audit(r) PROVE EntriesKept'
  <2> DEFINE entry == [req |-> ops[r].req, ask |-> ops[r].ask, name |-> ops[r].who.id, at |-> ops[r].at]
  <2>1. log' = log \cup {entry} /\ history'.audited = history.audited \cup {entry}
    BY <1>3, AuditNotes
  <2>2. now' = now
    BY <1>3 DEF audit
  <2> HIDE DEF entry
  <2> QED BY <2>1, <2>2 DEF EntriesKept
<1>4. ASSUME NEW r \in Requests, Accepting(r) \/ Moving(r)
      PROVE  log' = log /\ history'.audited = history.audited /\ now' = now
  BY <1>4 DEF Accepting, Moving
<1>5. ASSUME NEW r \in Requests, createOperatorToken(r) \/ fail(r)
      PROVE  log' = log /\ history'.audited = history.audited /\ now' = now
  BY <1>5, FailNotes DEF createOperatorToken, fail, tables
<1>6. restart => log' = log /\ history'.audited = history.audited /\ now' = now
  BY RestartNotes DEF restart, tables
<1>7. Resting => \/ log' = log /\ history'.audited = history.audited /\ (now' = now \/ now' = now + 1)
                 \/ PruneAuditEvents /\ history'.audited = history.audited
  BY DEF Resting
<1> QED BY <1>1, <1>2, <1>3, <1>4, <1>5, <1>6, <1>7, Steps

\* Nothing changes of templates and deletions but that requests may have ended.
DeletionsStill ==
  /\ templates' = templates /\ history'.used = history.used /\ history'.audited = history.audited
  /\ \A r \in Requests : Deleting(r)' => Deleting(r) /\ ops'[r].ask = ops[r].ask

LEMMA DeletionsFrame ==
  ASSUME DeletionsInv, DeletionsStill
  PROVE  DeletionsInv'
<1>1. DeletedOnce'
  BY DEF DeletionsInv, DeletionsStill, DeletedOnce
<1>2. ASSUME NEW r \in Requests, Deleting(r)'
      PROVE  /\ ops'[r].ask.template \in history'.used \ templates'
             /\ \A e \in history'.audited : e.ask # ops'[r].ask
             /\ \A q \in Requests : Deleting(q)' /\ ops'[q].ask = ops'[r].ask => q = r
  BY <1>2 DEF DeletionsInv, DeletionsStill
<1> QED BY <1>1, <1>2 DEF DeletionsInv, DeletionsStill

\* A step of r after which it has no deletion to tell of, and nothing is deleted.
LEMMA DeletionsIdle ==
  ASSUME Core, NEW r \in Requests, NEW op, Become(r, op), op.step # "audit" \/ op.ask.do # "deleteTemplate",
         UNCHANGED templates, history'.used = history.used, history'.audited = history.audited
  PROVE  DeletionsStill
<1>1. ops'[r] = op /\ \A q \in Requests \ {r} : ops'[q] = ops[q]
  BY DEF Core, Shapes, Become
<1>2. ~Deleting(r)'
  BY <1>1 DEF Deleting
<1> QED BY <1>1, <1>2 DEF DeletionsStill, Deleting

LEMMA DeletionSteps ==
  ASSUME Core, [Next]_vars
  PROVE  \/ \E r \in Requests : createRolloutTemplate(r) \/ rolloutTemplateRouter(r) \/ audit(r)
         \/ DeletionsStill
<1>0. /\ history \in History /\ Idle.step # "audit"
      /\ \A r \in Requests : ops[r].step # "idle" => ops[r] \in Operation
  BY CoreOp DEF Core, Shapes, Idle
<1>1. CASE restart
  <2>1. templates' = templates /\ ops' = [r \in Requests |-> Idle]
    BY <1>1 DEF restart, tables
  <2>2. history'.used = history.used /\ history'.audited = history.audited
    BY <1>1, RestartNotes
  <2> QED BY <1>0, <2>1, <2>2 DEF DeletionsStill, Deleting
<1>2. ASSUME NEW r \in Requests, Accepting(r) PROVE DeletionsStill
  <2>1. PICK op : /\ Become(r, op)
                  /\ op # Idle => op.step \in {"use", "act"}
    BY <1>2 DEF Accepting
  <2>2. op.step # "audit" /\ UNCHANGED <<templates, history>>
    BY <1>0, <1>2, <2>1 DEF Accepting
  <2> QED BY <2>1, <2>2, DeletionsIdle
<1>3. ASSUME NEW r \in Requests, use(r) PROVE DeletionsStill
  <2>1. Become(r, authorizeOperator(ops[r])) /\ UNCHANGED <<templates, history>> /\ ops[r] \in Operation
    BY <1>0, <1>3 DEF use
  <2>2. authorizeOperator(ops[r]).step # "audit"
    BY <1>0, <2>1 DEF authorizeOperator, Operation
  <2> QED BY <2>1, <2>2, DeletionsIdle
<1>4. ASSUME NEW r \in Requests, listOperatorTokens(r) \/ createOperatorToken(r) PROVE DeletionsStill
  <2>1. /\ Become(r, Audited(ops[r])) /\ UNCHANGED <<templates, history>>
        /\ ops[r].step = "act" /\ ops[r].ask.do \in {"listTokens", "createToken"}
    BY <1>4 DEF listOperatorTokens, createOperatorToken, Step, tables
  <2>2. Audited(ops[r]).ask.do # "deleteTemplate"
    BY <2>1, AuditedKnows
  <2> QED BY <2>1, <2>2, DeletionsIdle
<1>5. ASSUME NEW r \in Requests, operatorTokenRouter(r) PROVE DeletionsStill
  <2>1. /\ UNCHANGED <<templates, history>> /\ ops[r].step = "act" /\ ops[r].ask.do = "revokeToken"
        /\ ops[r] \in Operation
    BY <1>0, <1>5 DEF operatorTokenRouter, Step, tables
  <2>2. ops[r].ask.token \in TokenIDs
    BY <2>1 DEF Operation, Asks
  <2>3. loadOperatorToken(ops[r].ask.token) \in {"absent", "active", "revoked"}
    BY <2>2 DEF loadOperatorToken, Core, Shapes, Token
  <2>4. \/ Become(r, Idle) \/ Become(r, Audited(ops[r]))
        \/ Become(r, [ops[r] EXCEPT !.step = "revoke", !.at = now])
    BY <1>5, <2>3 DEF operatorTokenRouter
  <2>5. Audited(ops[r]).ask.do # "deleteTemplate"
    BY <2>1, AuditedKnows
  <2>6. [ops[r] EXCEPT !.step = "revoke", !.at = now].step # "audit"
    BY <2>1 DEF Operation
  <2> QED BY <1>0, <2>1, <2>4, <2>5, <2>6, DeletionsIdle
<1>6. ASSUME NEW r \in Requests, RevokeOperatorToken(r) PROVE DeletionsStill
  <2>1. /\ Become(r, [ops[r] EXCEPT !.step = "audit"]) /\ UNCHANGED <<templates, history>>
        /\ ops[r].ask.do = "revokeToken" /\ ops[r] \in Operation
    BY <1>0, <1>6 DEF RevokeOperatorToken, Step
  <2>2. [ops[r] EXCEPT !.step = "audit"].ask.do # "deleteTemplate"
    BY <2>1 DEF Operation
  <2> QED BY <2>1, <2>2, DeletionsIdle
<1>7. ASSUME NEW r \in Requests, serverSettings(r) PROVE DeletionsStill
  <2>1. UNCHANGED <<templates, history>> /\ ops[r] \in Operation
    BY <1>0, <1>7 DEF serverSettings, Step, tables
  <2>2. \/ Become(r, Idle)
        \/ \E v : Become(r, [ops[r] EXCEPT !.step = "sidecar", !.answer = v])
    BY <1>7 DEF serverSettings
  <2>3. \A v : [ops[r] EXCEPT !.step = "sidecar", !.answer = v].step # "audit"
    BY <2>1 DEF Operation
  <2> QED BY <1>0, <2>1, <2>2, <2>3, DeletionsIdle
<1>8. ASSUME NEW r \in Requests, putSidecarVersion(r) \/ putRuntimeVersions(r) PROVE DeletionsStill
  <2>1. /\ UNCHANGED <<templates, history>> /\ ops[r].ask.do = "putSettings"
        /\ ops[r] \in Operation /\ ops[r].step \notin {"idle", "use"}
    BY <1>0, <1>8 DEF putSidecarVersion, putRuntimeVersions, Step
  <2>2. Become(r, Audited(ops[r])) \/ Become(r, [ops[r] EXCEPT !.step = "runtimes"])
    BY <1>8 DEF putSidecarVersion, putRuntimeVersions
  <2>3. Audited(ops[r]).ask.do # "deleteTemplate"
    BY <2>1, AuditedKnows
  <2>4. [ops[r] EXCEPT !.step = "runtimes"].step # "audit"
    BY <2>1 DEF Operation
  <2> QED BY <2>1, <2>2, <2>3, <2>4, DeletionsIdle
<1>9. ASSUME NEW r \in Requests, createEventTicket(r) \/ auditEvents(r) \/ fail(r) PROVE DeletionsStill
  <2>1. Become(r, Idle) /\ UNCHANGED templates
    BY <1>9 DEF createEventTicket, auditEvents, fail, tables
  <2>2. history'.used = history.used /\ history'.audited = history.audited
    BY <1>9, TicketNotes, FailNotes DEF auditEvents
  <2> QED BY <1>0, <2>1, <2>2, DeletionsIdle
<1>10. ASSUME NEW r \in Requests, NEW cred \in Credentials, NEW ask \in Asks, accept(r, cred, ask)
       PROVE  DeletionsStill
  BY <1>2, <1>10, AcceptMoves
<1>11. ASSUME NEW w \in waiting, allow(w) PROVE DeletionsStill
  <2>1. allowLocked(w.client, w.read) /\ UNCHANGED <<ops, templates>>
    BY <1>11 DEF allow, tables
  <2> QED BY <2>1, AllowNotes DEF DeletionsStill, Deleting
<1>14. ASSUME NEW g \in Callers, NEW c \in Clients, NEW cred \in Credentials, refuse(g, c, cred)
       PROVE  DeletionsStill
  BY <1>14 DEF refuse, tables, DeletionsStill, Deleting
<1>12. ASSUME NEW t \in Tickets, NEW cred \in Credentials, authorizeEventStream(t, cred) PROVE DeletionsStill
  <2>1. UNCHANGED <<ops, templates>>
    BY <1>12 DEF authorizeEventStream, tables
  <2> QED BY <1>12, <2>1, StreamNotes DEF DeletionsStill, Deleting
<1>13. CASE PruneAuditEvents \/ tick \/ UNCHANGED vars
  BY <1>13 DEF PruneAuditEvents, tick, vars, tables, DeletionsStill, Deleting
<1> QED BY <1>1, <1>3, <1>4, <1>5, <1>6, <1>7, <1>8, <1>9, <1>10, <1>11, <1>12, <1>13, <1>14 DEF Next

LEMMA DeletionsNext ==
  ASSUME Core, DeletionsInv, [Next]_vars
  PROVE  DeletionsInv'
<1>0. /\ ops \in [Requests -> Operation \cup {Idle}] /\ Idle.step # "audit"
      /\ \A r \in Requests : ops[r].step # "idle" => ops[r] \in Operation
  BY CoreOp DEF Core, Shapes, Idle
\* Identifiers of templates are new, so a deleted one does not come back.
<1>1. ASSUME NEW r \in Requests, createRolloutTemplate(r) PROVE DeletionsInv'
  <2>1. PICK t \in Templates \ history.used :
          templates' = templates \cup {t} /\ history'.used = history.used \cup {t}
    BY <1>1, TemplateNotes
  <2>2. history'.audited = history.audited
    BY <1>1, TemplateNotes
  <2>3. /\ Become(r, Audited(ops[r])) /\ ops[r].step = "act" /\ ops[r].ask.do = "createTemplate"
    BY <1>1 DEF createRolloutTemplate, Step
  <2>4. Audited(ops[r]).ask.do # "deleteTemplate"
    BY <2>3, AuditedKnows
  <2>5. ops'[r] = Audited(ops[r]) /\ \A q \in Requests \ {r} : ops'[q] = ops[q]
    BY <1>0, <2>3 DEF Become
  <2>6. \A q \in Requests : Deleting(q)' => Deleting(q) /\ ops'[q] = ops[q]
    BY <2>4, <2>5 DEF Deleting
  <2>7. DeletedOnce'
    BY <2>1, <2>2 DEF DeletionsInv, DeletedOnce
  <2>8. ASSUME NEW q \in Requests, Deleting(q)'
        PROVE  /\ ops'[q].ask.template \in history'.used \ templates'
               /\ \A e \in history'.audited : e.ask # ops'[q].ask
               /\ \A p \in Requests : Deleting(p)' /\ ops'[p].ask = ops'[q].ask => p = q
    <3>1. Deleting(q) /\ ops'[q] = ops[q]
      BY <2>6, <2>8
    <3>2. ops[q].ask.template \in history.used \ templates
      BY <3>1 DEF DeletionsInv
    <3> QED BY <2>1, <2>2, <2>6, <3>1, <3>2 DEF DeletionsInv
  <2>9. templates' \subseteq history'.used
    BY <2>1 DEF DeletionsInv
  <2>10. \A e \in history'.audited : e.ask.do = "deleteTemplate" => e.ask.template \in history'.used
    BY <2>1, <2>2 DEF DeletionsInv
  <2> QED BY <2>7, <2>8, <2>9, <2>10 DEF DeletionsInv
\* Only the request that finds the row goes on to tell.
<1>2. ASSUME NEW r \in Requests, rolloutTemplateRouter(r) PROVE DeletionsInv'
  <2> DEFINE t == ops[r].ask.template
  <2>1. /\ ops[r].step = "act" /\ ops[r].ask.do = "deleteTemplate" /\ UNCHANGED history
        /\ templates' = templates \ {t}
        /\ Become(r, IF t \in templates THEN Audited(ops[r]) ELSE Idle)
    BY <1>2 DEF rolloutTemplateRouter, Step, DeleteRolloutTemplate
  <2>2. ops'[r] = (IF t \in templates THEN Audited(ops[r]) ELSE Idle)
        /\ \A q \in Requests \ {r} : ops'[q] = ops[q]
    BY <1>0, <2>1 DEF Become
  <2>3. Audited(ops[r]).ask = ops[r].ask
    BY <2>1, AuditedKnows
  <2>4. \A q \in Requests \ {r} : Deleting(q)' => Deleting(q) /\ ops'[q] = ops[q]
    BY <2>2 DEF Deleting
  <2>5. Deleting(r)' => t \in templates /\ ops'[r].ask = ops[r].ask
    BY <1>0, <2>2, <2>3 DEF Deleting
  <2>6. DeletedOnce' /\ templates' \subseteq history'.used
    BY <2>1 DEF DeletionsInv, DeletedOnce
  <2>7. \A q \in Requests : Deleting(q) /\ t \in templates => ops[q].ask # ops[r].ask
    BY DEF DeletionsInv
  <2>8. t \in templates => \A e \in history.audited : e.ask # ops[r].ask
    BY <2>1 DEF DeletionsInv, DeletedOnce
  <2>9. ASSUME NEW q \in Requests, Deleting(q)'
        PROVE  /\ ops'[q].ask.template \in history'.used \ templates'
               /\ \A e \in history'.audited : e.ask # ops'[q].ask
               /\ \A p \in Requests : Deleting(p)' /\ ops'[p].ask = ops'[q].ask => p = q
    <3>1. CASE q = r
      <4>1. t \in templates /\ ops'[r].ask = ops[r].ask
        BY <2>5, <2>9, <3>1
      <4>2. t \in history.used
        BY <4>1 DEF DeletionsInv
      <4>3. ASSUME NEW p \in Requests, Deleting(p)', ops'[p].ask = ops'[r].ask PROVE p = r
        BY <2>4, <2>7, <4>1, <4>3
      <4> QED BY <2>1, <2>8, <3>1, <4>1, <4>2, <4>3
    <3>2. CASE q # r
      <4>1. Deleting(q) /\ ops'[q] = ops[q]
        BY <2>4, <2>9, <3>2
      <4>2. ASSUME NEW p \in Requests, Deleting(p)', ops'[p].ask = ops'[q].ask PROVE p = q
        <5>1. CASE p = r
          BY <2>5, <2>7, <4>1, <4>2, <5>1
        <5>2. CASE p # r
          BY <2>4, <4>1, <4>2, <5>2 DEF DeletionsInv
        <5> QED BY <5>1, <5>2
      <4>3. /\ ops[q].ask.template \in history.used \ templates
            /\ \A e \in history.audited : e.ask # ops[q].ask
        BY <4>1 DEF DeletionsInv
      <4> QED BY <2>1, <4>1, <4>2, <4>3
    <3> QED BY <3>1, <3>2
  <2>10. \A e \in history'.audited : e.ask.do = "deleteTemplate" => e.ask.template \in history'.used
    BY <2>1 DEF DeletionsInv
  <2> QED BY <2>6, <2>9, <2>10 DEF DeletionsInv
<1>3. ASSUME NEW r \in Requests, audit(r) PROVE DeletionsInv'
  <2> DEFINE entry == [req |-> ops[r].req, ask |-> ops[r].ask, name |-> ops[r].who.id, at |-> ops[r].at]
  <2>1. /\ history'.audited = history.audited \cup {entry} /\ history'.used = history.used
        /\ entry.ask = ops[r].ask
    BY <1>3, AuditNotes
  <2> HIDE DEF entry
  <2>2. ops[r].step = "audit" /\ Become(r, Idle) /\ UNCHANGED templates
    BY <1>3 DEF audit
  <2>3. ops'[r] = Idle /\ \A q \in Requests \ {r} : ops'[q] = ops[q]
    BY <1>0, <2>2 DEF Become
  <2>4. \A q \in Requests : Deleting(q)' => Deleting(q) /\ q # r /\ ops'[q] = ops[q]
    BY <1>0, <2>3 DEF Deleting
  <2>5. entry.ask.do = "deleteTemplate" =>
          /\ Deleting(r) /\ entry.ask.template \in history.used \ templates
          /\ \A e \in history.audited : e.ask # entry.ask
    BY <2>1, <2>2 DEF Deleting, DeletionsInv
  <2>6. DeletedOnce'
    <3> SUFFICES ASSUME NEW e \in history'.audited, e.ask.do = "deleteTemplate"
                 PROVE  /\ e.ask.template \notin templates'
                        /\ \A f \in history'.audited : f.ask = e.ask => f = e
      BY DEF DeletedOnce
    <3>1. CASE e = entry
      BY <2>1, <2>2, <2>5, <3>1
    <3>2. CASE e \in history.audited
      <4>1. e.ask # entry.ask
        BY <2>5, <3>2
      <4> QED BY <2>1, <2>2, <3>2, <4>1 DEF DeletionsInv, DeletedOnce
    <3> QED BY <2>1, <3>1, <3>2
  <2>7. ASSUME NEW q \in Requests, Deleting(q)'
        PROVE  /\ ops'[q].ask.template \in history'.used \ templates'
               /\ \A e \in history'.audited : e.ask # ops'[q].ask
               /\ \A p \in Requests : Deleting(p)' /\ ops'[p].ask = ops'[q].ask => p = q
    <3>1. Deleting(q) /\ q # r /\ ops'[q] = ops[q]
      BY <2>4, <2>7
    <3>2. entry.ask # ops[q].ask
      <4> SUFFICES ASSUME entry.ask = ops[q].ask PROVE FALSE
        OBVIOUS
      <4>1. Deleting(r)
        BY <2>5, <3>1 DEF Deleting
      <4> QED BY <2>1, <3>1, <4>1 DEF DeletionsInv
    <3> QED BY <2>1, <2>2, <2>4, <3>1, <3>2 DEF DeletionsInv
  <2>8. \A e \in history'.audited : e.ask.do = "deleteTemplate" => e.ask.template \in history'.used
    BY <2>1, <2>5 DEF DeletionsInv
  <2>9. templates' \subseteq history'.used
    BY <2>1, <2>2 DEF DeletionsInv
  <2> QED BY <2>6, <2>7, <2>8, <2>9 DEF DeletionsInv
<1>4. CASE DeletionsStill
  BY <1>4, DeletionsFrame
<1> QED BY <1>1, <1>2, <1>3, <1>4, DeletionSteps

LEMMA AuditInit == Init => AuditInv
<1> SUFFICES ASSUME Init PROVE AuditInv
  OBVIOUS
<1>1. /\ \A r \in Requests : ops[r] = Idle
      /\ \A t \in TokenIDs : tokens[t].status = "absent"
      /\ history.audited = {} /\ history.used = {} /\ log = {} /\ templates = {}
  BY DEF Init, HInit, NoToken
<1>2. Idle.step # "audit"
  BY DEF Idle
<1> QED BY <1>1, <1>2 DEF AuditInv, RequestsNumbered, CreationsKnown, EntriesKept, DeletionsInv, DeletedOnce, Deleting

LEMMA AuditHolds == Spec => []AuditInv
<1>1. Core /\ AuditInv /\ [Next]_vars => AuditInv'
  BY NumbersNext, CreationsNext, EntriesNext, DeletionsNext DEF AuditInv
<1> QED BY <1>1, AuditInit, CoreHolds, PTL DEF Spec

\* Every token that was made has an entry naming its maker unless its request was
\* cut short, entries last for their retention, and a template's deletion is on
\* record for one request only, however many asked for it at once.
THEOREM ChangesHaveAuthors == Spec => []ChangesAreAttributed
<1>1. Core /\ AuditInv => ChangesAreAttributed
  <2> SUFFICES ASSUME Core, AuditInv PROVE ChangesAreAttributed
    OBVIOUS
  <2>1. DeletedOnce
    BY DEF AuditInv, DeletionsInv
  <2>2. ASSUME NEW t \in TokenIDs, tokens[t].status # "absent",
               tokens[t].req \notin history.cut \cup InFlight
        PROVE  \E e \in history.audited :
                 /\ e.req = tokens[t].req /\ e.name = tokens[t].by
                 /\ (AuditRetention > 0 /\ e.at < now - AuditRetention) \/ e \in log
    <3>1. CreationKnown(t)
      BY <2>2 DEF AuditInv, CreationsKnown
    <3>2. PICK e \in history.audited : e.req = tokens[t].req /\ e.name = tokens[t].by
      BY <2>2, <3>1 DEF CreationKnown, InFlight
    <3>3. (AuditRetention > 0 /\ e.at < now - AuditRetention) \/ e \in log
      BY DEF AuditInv, EntriesKept
    <3> QED BY <3>2, <3>3
  <2> QED BY <2>1, <2>2 DEF ChangesAreAttributed
<1> QED BY <1>1, CoreHolds, AuditHolds, PTL

\* In no stretch of one window length are three times the limit attempts of one client let
\* through, wherever its windows begin and however late attempts act on the time they have
\* read, up to half a window; and the limiter keeps to its number of keys.
THEOREM GuessingIsBounded == Spec => []BoundedGuessing
<1>1. Core /\ LimiterInv /\ [Next]_vars => LimiterInv'
  BY LimiterNext
<1>2. Core /\ TicketsInv /\ [Next]_vars => TicketsInv'
  BY TicketsNext
<1>3. Core /\ RevokeInv /\ AuditInv /\ LimiterInv /\ TicketsInv => BoundedGuessing
  <2> SUFFICES ASSUME Core, RevokeInv, AuditInv, LimiterInv, TicketsInv PROVE BoundedGuessing
    OBVIOUS
  <2>1. AccessTypeOK
    <3>1. \A t \in TokenIDs :
            /\ tokens[t].status \in {"absent", "active", "revoked"}
            /\ tokens[t].scope \in {"admin", "readonly"} /\ tokens[t].used \in 0..now
            /\ tokens[t].revoked \in 0..now
      <4> TAKE t \in TokenIDs
      <4>1. tokens[t] \in Token /\ tokens[t].used <= now /\ tokens[t].revoked <= now /\ now \in Nat
        BY DEF Core, Shapes, RevokeInv
      <4> QED BY <4>1 DEF Token, Scopes
    <3>2. settings.sidecar \in Versions \cup {Unset} /\ settings.runtimes \in Versions \cup {Unset}
      BY DEF Core, Shapes, Settings
    <3>3. \A c \in DOMAIN entries : entries[c].count > 0 /\ {entries[c].start, entries[c].seen} \subseteq 0..now
      <4> TAKE c \in DOMAIN entries
      <4>1. entries[c] \in Counter /\ entries[c].start <= now /\ entries[c].seen <= now /\ Limit \in Nat /\ now \in Nat
        BY LimiterBounds DEF LimiterInv, Core, Shapes
      <4>2. entries[c].count > 0 /\ entries[c].start \in 0..now /\ entries[c].seen \in 0..now
        BY <4>1 DEF Counter
      <4> QED BY <4>2
    <3> QED BY <3>1, <3>2, <3>3
            DEF AccessTypeOK, Core, Shapes, AuditInv, DeletionsInv, EntriesKept, TicketsInv, LimiterInv
  <2>2. ASSUME NEW c \in Clients PROVE Len(history.through[c]) < 3 * Limit
    <3>1. history.through[c] \in Seq(Nat)
      BY DEF Core, Shapes, History
    <3>2. \E k \in 1..Limit, o \in Int : Three(history.through[c], k, o)
      BY DEF LimiterInv, Counter, Counted, Uncounted
    <3> QED BY <3>1, <3>2, ThreeBounds
  <2> QED BY <2>1, <2>2 DEF BoundedGuessing
<1> QED BY <1>1, <1>2, <1>3, TicketsInit, LimiterInit, CoreHolds, RevokeHolds, AuditHolds, PTL DEF Spec
=============================================================================
