------------------------------- MODULE Access -------------------------------
(***************************************************************************)
(* Who may do what to the server: operator tokens and scopes, the limiter    *)
(* that slows wrong credentials down, event tickets, and the small tables    *)
(* only operators change (tokens, settings, rollout templates) with the      *)
(* audit entries of those changes.                                           *)
(*                                                                         *)
(* A request takes several store calls: verify the token, note its use, do    *)
(* the work in one or more calls, look the operator's name up and append the  *)
(* audit entry.  Requests run side by side, every call may fail, and the      *)
(* server may be restarted in between: the tables stay, the limiter and the   *)
(* tickets are only in memory.                                               *)
(*                                                                         *)
(* Names of tokens are the tokens themselves; what a template or a version    *)
(* says does not matter here.                                               *)
(***************************************************************************)
EXTENDS Integers, FiniteSets, Sequences

CONSTANTS
  Deployments,    \* configurations: bootstrap token or open, limiter, and as a bound of
                  \* the model what its operators ask for and how often
  TokenIDs, Templates, Tickets,
  Versions,       \* expected versions, of sidecars and of runtimes
  Omitted,        \* a PUT of the settings that does not mention runtime versions
  Clients,        \* remote addresses
  Requests,       \* requests that may be in progress at the same time
  Callers,        \* requests that may be between the limiter's clock and its lock
  Limit, Window, MaxKeys,  \* of the rate limiter
  LockWait,                \* the longest that an attempt waits for the limiter's lock
  TicketTTL, AuditRetention,
  MaxNow                   \* bound of the model's time

Unset == "unset"
Unsupported == "unsupported"  \* runtime versions that name a runtime nobody knows
Root == [id |-> "bootstrap", scope |-> "admin"]
Denied == [id |-> "nobody", scope |-> "none"]

ASSUME AccessBounds ==
  /\ {Limit, Window, MaxKeys, TicketTTL} \subseteq Nat \ {0}
  /\ {AuditRetention, MaxNow, LockWait} \subseteq Nat
  /\ 2 * LockWait <= Window
  /\ Omitted \notin Versions
  /\ {Root.id, Denied.id, "unknown"} \cap TokenIDs = {}

VARIABLES
  deploy,     \* the configuration the server runs with
  tokens,     \* per token: status, scope, last use, revoked_at; as history, who created
              \* it and when it stopped being accepted
  settings,   \* expected sidecar version and expected runtime versions
  templates,  \* the rollout templates on record
  log,        \* audit_events
  tickets,    \* event tickets in the server's memory
  entries,    \* fixedWindowRateLimiter.entries
  waiting,    \* attempts that have read the limiter's clock and not got its lock
  ops,        \* per request slot: the handler in progress
  now,
  accepted,   \* number of requests accepted so far
  history     \* what happened, for the properties: see HInit

vars == <<deploy, tokens, settings, templates, log, tickets, entries, waiting, ops, now, accepted, history>>
tables == <<tokens, settings, templates, log>>
limiter == <<entries, waiting>>
memory == <<tickets, limiter>>

Idle == [step |-> "idle"]

\* What operators ask for; the first four are GETs.
Reads == {"listTokens", "listTemplates", "listAudit", "stream"}
Asks ==
  [do : {"listTokens", "listTemplates", "listAudit", "stream", "createTemplate", "createTicket"}]
  \cup [do : {"createToken"}, scope : {"admin", "readonly"}]
  \cup [do : {"revokeToken"}, token : TokenIDs]
  \cup [do : {"deleteTemplate"}, template : Templates]
  \cup [do : {"putSettings"}, sidecar : Versions, runtimes : Versions \cup {Omitted, Unsupported}]

\* audited: every entry ever appended; cut: requests that did not get to their
\* entry; used: templates ever created; expires: of every ticket ever made;
\* streams: when each ticket opened one; through: the attempts of each client
\* that were let through and are younger than the window.
HInit == [audited |-> {}, cut |-> {}, used |-> {}, expires |-> [t \in {} |-> 0],
          streams |-> [t \in Tickets |-> <<>>], through |-> [c \in Clients |-> <<>>]]

NoToken == [status |-> "absent", scope |-> "admin", used |-> 0, revoked |-> 0,
            by |-> Root.id, req |-> 0, ended |-> 0]

Init ==
  /\ deploy \in Deployments
  /\ tokens = [t \in TokenIDs |-> NoToken]
  /\ settings = [sidecar |-> Unset, runtimes |-> Unset]
  /\ templates = {} /\ log = {} /\ tickets = {} /\ entries = [c \in {} |-> 0]
  /\ waiting = {}
  /\ ops = [r \in Requests |-> Idle]
  /\ now = 0 /\ accepted = 0
  /\ history = HInit

Become(r, op) == ops' = [ops EXCEPT ![r] = op]
Step(r, do, step) == ops[r].step = step /\ ops[r].ask.do = do
Note(field, value) == history' = [history EXCEPT ![field] = value]

-----------------------------------------------------------------------------
(* Identities                                                                *)

VerifyOperatorToken(t) == tokens[t].status = "active"

\* Slip: a revoked token's last use goes on moving.
TouchAnyToken(t) == tokens' = [tokens EXCEPT ![t].used = now]

\* Best effort, and only for a token that is not revoked.
UpdateOperatorTokenLastUsed(t) ==
  tokens' = [tokens EXCEPT ![t].used = IF VerifyOperatorToken(t) THEN now ELSE @]

\* Without a bootstrap token an open server takes everybody for an admin and
\* looks at no credential.
AuthorizeIdentity(cred) ==
  CASE deploy.open -> Root
    [] cred = Root.id -> Root
    [] cred \in TokenIDs /\ VerifyOperatorToken(cred) -> [id |-> cred, scope |-> tokens[cred].scope]
    [] OTHER -> Denied

\* Slip: every identity may do everything.
AuthorizeAll(op) == [op EXCEPT !.step = "act"]

\* A readonly token gets no further with anything but a read.
authorizeOperator(op) ==
  IF op.who.scope = "readonly" /\ op.ask.do \notin Reads THEN Idle ELSE [op EXCEPT !.step = "act"]

-----------------------------------------------------------------------------
(* The limiter                                                               *)

Expired(e, time) == time >= e.start + Window
pruneExpired(time) == [c \in {d \in DOMAIN entries : ~Expired(entries[d], time)} |-> entries[c]]

\* At the key limit the entry seen longest ago goes; the map's order decides ties,
\* and the new entry may be among them.
enforceMaxKeys(es) ==
  IF Cardinality(DOMAIN es) <= MaxKeys THEN {es}
  ELSE LET oldest == {c \in DOMAIN es : \A d \in DOMAIN es : es[c].seen <= es[d].seen}
       IN  {[c \in DOMAIN es \ {victim} |-> es[c]] : victim \in oldest}

\* Slip: one attempt more than the limit.
FullAboveLimit(e) == e.count > Limit

Full(e) == e.count >= Limit

\* What is left of attempts in the order of their times: those after time t.
After(s, t) ==
  LET old == CHOOSE k \in 0..Len(s) :
               (k > 0 => s[k] <= t) /\ \A i \in k + 1..Len(s) : s[i] > t
  IN  SubSeq(s, old + 1, Len(s))

\* Under the lock: an attempt of client c, by the time it has read before.  A late attempt
\* may find a window that began after that time, and is counted in it.
allowLocked(c, read) ==
  LET live == pruneExpired(read)
      new  == c \notin DOMAIN live
      full == ~new /\ Full(live[c])
      e    == IF new THEN [start |-> read, count |-> 1, seen |-> read]
              ELSE [live[c] EXCEPT !.seen = read, !.count = IF full THEN @ ELSE @ + 1]
      next == [d \in DOMAIN live \cup {c} |-> IF d = c THEN e ELSE live[d]]
      Young(s) == After(s, now - Window)
  IN  /\ entries' \in IF new THEN enforceMaxKeys(next) ELSE {next}
      /\ Note("through", [d \in Clients |->
           IF d \in DOMAIN next \ DOMAIN entries' THEN <<>>
           ELSE IF d = c /\ ~full THEN Append(Young(history.through[d]), now)
           ELSE Young(history.through[d])])

\* A request with a credential that is not accepted: allow reads the clock ...
refuse(g, c, cred) ==
  /\ deploy.limited
  /\ AuthorizeIdentity(cred) = Denied
  /\ \A w \in waiting : w.by # g
  /\ waiting' = waiting \cup {[by |-> g, client |-> c, read |-> now]}
  /\ UNCHANGED <<deploy, tables, tickets, entries, ops, now, accepted, history>>

\* ... and takes the lock.  The answer is 401, or 429 at the limit.
allow(w) ==
  /\ allowLocked(w.client, w.read)
  /\ waiting' = waiting \ {w}
  /\ UNCHANGED <<deploy, tables, tickets, ops, now, accepted>>

\* A request whose credential is accepted, whatever the limiter says of its address.
accept(r, cred, ask) ==
  LET who == AuthorizeIdentity(cred)
      op  == [step |-> "use", who |-> who, ask |-> ask, req |-> accepted + 1, at |-> now, answer |-> Unset]
  IN
  /\ ops[r] = Idle
  /\ ask.do \in deploy.asks
  /\ accepted < deploy.requests
  /\ who # Denied
  /\ accepted' = accepted + 1
  /\ Become(r, IF who.id \in TokenIDs THEN op ELSE authorizeOperator(op))
  /\ UNCHANGED <<deploy, tables, memory, now, history>>

\* The token's use is noted, then its scope decides.
use(r) ==
  /\ ops[r].step = "use"
  /\ UpdateOperatorTokenLastUsed(ops[r].who.id)
  /\ Become(r, authorizeOperator(ops[r]))
  /\ UNCHANGED <<deploy, settings, templates, log, memory, now, accepted, history>>

-----------------------------------------------------------------------------
(* Tokens                                                                    *)

\* The work is done: what is left is the audit entry.
Audited(op) == [op EXCEPT !.step = "audit", !.at = now]

\* A token that has been made stays on record, revoked or not.
ListOperatorTokens == {t \in TokenIDs : tokens[t].status # "absent"}

CreateOperatorToken(op) ==
  \E t \in TokenIDs \ ListOperatorTokens :
    tokens' = [tokens EXCEPT ![t] = [NoToken EXCEPT !.status = "active", !.scope = op.ask.scope,
                                             !.by = op.who.id, !.req = op.req]]

createOperatorToken(r) ==
  /\ Step(r, "createToken", "act")
  /\ CreateOperatorToken(ops[r])
  /\ Become(r, Audited(ops[r]))
  /\ UNCHANGED <<deploy, settings, templates, log, memory, now, accepted, history>>

\* The listing itself is audited.
listOperatorTokens(r) ==
  /\ Step(r, "listTokens", "act")
  /\ Become(r, Audited(ops[r]))
  /\ UNCHANGED <<deploy, tables, memory, now, accepted, history>>

loadOperatorToken(t) == tokens[t].status

\* DELETE operator-tokens: RevokeOperatorToken loads the row.  One that is not there is answered with 404,
\* one that is revoked already is left alone ...
operatorTokenRouter(r) ==
  LET status == loadOperatorToken(ops[r].ask.token) IN
  /\ Step(r, "revokeToken", "act")
  /\ Become(r, CASE status = "absent"  -> Idle
                 [] status = "revoked" -> Audited(ops[r])
                 [] status = "active"  -> [ops[r] EXCEPT !.step = "revoke", !.at = now])
  /\ UNCHANGED <<deploy, tables, memory, now, accepted, history>>

\* ... and any other is marked, in a second statement that does not look at the row again:
\* the time of a revocation that came first is overwritten.
RevokeOperatorToken(r) ==
  LET t == ops[r].ask.token IN
  /\ Step(r, "revokeToken", "revoke")
  /\ tokens' = [tokens EXCEPT ![t].status = "revoked", ![t].revoked = ops[r].at,
                              ![t].ended = IF VerifyOperatorToken(t) THEN now ELSE @]
  /\ Become(r, [ops[r] EXCEPT !.step = "audit"])
  /\ UNCHANGED <<deploy, settings, templates, log, memory, now, accepted, history>>

-----------------------------------------------------------------------------
(* Settings and templates                                                    *)

\* Until the first write there is no row, and nothing is expected.
GetServerSettings == settings

\* The versions to write, or none where one of the runtimes is not supported.
normalizeExpectedRuntimeVersions(given) == {given} \ {Unsupported}

\* PUT settings: the answer starts from what is stored, and a request that is not
\* valid ends before anything is written ...
serverSettings(r) ==
  LET given == ops[r].ask.runtimes
      valid == IF given = Omitted THEN {GetServerSettings.runtimes}
               ELSE normalizeExpectedRuntimeVersions(given)
  IN
  /\ Step(r, "putSettings", "act")
  /\ \/ valid = {} /\ Become(r, Idle)
     \/ \E v \in valid : Become(r, [ops[r] EXCEPT !.step = "sidecar", !.answer = v])
  /\ UNCHANGED <<deploy, tables, memory, now, accepted, history>>

SetExpectedSidecarVersion(v) == settings' = [settings EXCEPT !.sidecar = v]
SetExpectedRuntimeVersions(v) == settings' = [settings EXCEPT !.runtimes = v]

\* Slip: the runtime versions of the answer are written whether asked for or not.
putAllVersions(r) ==
  /\ Step(r, "putSettings", "sidecar")
  /\ SetExpectedSidecarVersion(ops[r].ask.sidecar)
  /\ Become(r, [ops[r] EXCEPT !.step = "runtimes"])
  /\ UNCHANGED <<deploy, tokens, templates, log, memory, now, accepted, history>>

\* ... the sidecar version is always written ...
putSidecarVersion(r) ==
  /\ Step(r, "putSettings", "sidecar")
  /\ SetExpectedSidecarVersion(ops[r].ask.sidecar)
  /\ Become(r, IF ops[r].ask.runtimes = Omitted THEN Audited(ops[r])
               ELSE [ops[r] EXCEPT !.step = "runtimes"])
  /\ UNCHANGED <<deploy, tokens, templates, log, memory, now, accepted, history>>

\* ... and the runtime versions only where the request has them.
putRuntimeVersions(r) ==
  /\ Step(r, "putSettings", "runtimes")
  /\ SetExpectedRuntimeVersions(ops[r].answer)
  /\ Become(r, Audited(ops[r]))
  /\ UNCHANGED <<deploy, tokens, templates, log, memory, now, accepted, history>>

\* Identifiers are random: a template that is gone does not come back.
CreateRolloutTemplate ==
  \E t \in Templates \ history.used :
    templates' = templates \cup {t} /\ Note("used", history.used \cup {t})

createRolloutTemplate(r) ==
  /\ Step(r, "createTemplate", "act")
  /\ CreateRolloutTemplate
  /\ Become(r, Audited(ops[r]))
  /\ UNCHANGED <<deploy, tokens, settings, log, memory, now, accepted>>

\* Whether the statement hit the row, and what it leaves.
DeleteRolloutTemplate(t) == [ok |-> t \in templates, left |-> templates \ {t}]

rolloutTemplateRouter(r) ==
  LET done == DeleteRolloutTemplate(ops[r].ask.template) IN
  /\ Step(r, "deleteTemplate", "act")
  /\ templates' = done.left
  /\ Become(r, IF done.ok THEN Audited(ops[r]) ELSE Idle)
  /\ UNCHANGED <<deploy, tokens, settings, log, memory, now, accepted, history>>

-----------------------------------------------------------------------------
(* Event tickets                                                             *)

Valid(t) == now < history.expires[t]

prune == {u \in tickets : Valid(u)}

create ==
  \E t \in Tickets \ DOMAIN history.expires :
    /\ tickets' = prune \cup {t}
    /\ Note("expires", [u \in DOMAIN history.expires \cup {t} |->
                          IF u = t THEN now + TicketTTL ELSE history.expires[u]])

createEventTicket(r) ==
  /\ Step(r, "createTicket", "act")
  /\ create
  /\ Become(r, Idle)
  /\ UNCHANGED <<deploy, tables, limiter, now, accepted>>

\* Slip: the ticket stays where it is.
verifyKeeping(t) == tickets' = prune

\* A ticket is gone after it was looked at, valid or not.
verify(t) == tickets' = prune \ {t}

\* GET events with a ticket, tried where the header, if any, was not accepted.
authorizeEventStream(t, cred) ==
  /\ AuthorizeIdentity(cred) = Denied
  /\ t \in tickets
  /\ verify(t)
  /\ Note("streams", [history.streams EXCEPT ![t] = IF Valid(t) THEN Append(@, now) ELSE @])
  /\ UNCHANGED <<deploy, tables, limiter, ops, now, accepted>>

-----------------------------------------------------------------------------
(* Audit, failures, time                                                     *)

\* The other reads leave no trace; nor does a stream opened with a credential.
auditEvents(r) ==
  /\ \E do \in {"listTemplates", "listAudit", "stream"} : Step(r, do, "act")
  /\ Become(r, Idle)
  /\ UNCHANGED <<deploy, tables, memory, now, accepted, history>>

\* Slip: only active tokens are searched.
ActiveTokenName(id) == IF VerifyOperatorToken(id) THEN id ELSE "unknown"

\* The listing has revoked tokens too.
operatorTokenName(id) == IF id \in ListOperatorTokens THEN id ELSE "unknown"

operatorActorName(who) == IF who = Root THEN Root.id ELSE operatorTokenName(who.id)

AppendAuditEvent(entry) ==
  /\ log' = log \cup {entry}
  /\ Note("audited", history.audited \cup {entry})

audit(r) ==
  LET op == ops[r] IN
  /\ op.step = "audit"
  /\ AppendAuditEvent([req |-> op.req, ask |-> op.ask, name |-> operatorActorName(op.who), at |-> op.at])
  /\ Become(r, Idle)
  /\ UNCHANGED <<deploy, tokens, settings, templates, memory, now, accepted>>

\* The retention pruner; a retention of 0 means for ever.
PruneAuditEvents ==
  /\ AuditRetention > 0
  /\ log' = {e \in log : e.at >= now - AuditRetention}
  /\ UNCHANGED <<deploy, tokens, settings, templates, memory, ops, now, accepted, history>>

InFlight == {ops[r].req : r \in {q \in Requests : ops[q] # Idle}}

\* The content of a request is refused, or a store call fails: the request ends
\* there, and what it did stays.
fail(r) ==
  /\ ops[r] # Idle
  /\ Note("cut", history.cut \cup {ops[r].req})
  /\ Become(r, Idle)
  /\ UNCHANGED <<deploy, tables, memory, now, accepted>>

restart ==
  /\ tickets' = {}
  /\ entries' = [c \in {} |-> 0] /\ waiting' = {}
  /\ ops' = [r \in Requests |-> Idle]
  /\ history' = [history EXCEPT !.cut = @ \cup InFlight, !.through = HInit.through]
  /\ UNCHANGED <<deploy, tables, now, accepted>>

tick ==
  /\ now < MaxNow
  /\ \A w \in waiting : now < w.read + LockWait
  /\ now' = now + 1
  /\ UNCHANGED <<deploy, tables, memory, ops, accepted, history>>

Credentials == {Root.id, "wrong"} \cup TokenIDs

Next ==
  \/ \E g \in Callers, c \in Clients, cred \in Credentials : refuse(g, c, cred)
  \/ \E w \in waiting : allow(w)
  \/ \E r \in Requests :
       \/ \E cred \in Credentials, ask \in Asks : accept(r, cred, ask)
       \/ use(r) \/ createOperatorToken(r) \/ listOperatorTokens(r)
       \/ operatorTokenRouter(r) \/ RevokeOperatorToken(r)
       \/ serverSettings(r) \/ putSidecarVersion(r) \/ putRuntimeVersions(r)
       \/ createRolloutTemplate(r) \/ rolloutTemplateRouter(r)
       \/ createEventTicket(r) \/ auditEvents(r) \/ audit(r) \/ fail(r)
  \/ \E t \in Tickets, cred \in Credentials : authorizeEventStream(t, cred)
  \/ PruneAuditEvents \/ restart \/ tick

Spec == Init /\ [][Next]_vars

-----------------------------------------------------------------------------
(* Properties                                                                *)

\* Tables, limiter and requests hold what their columns and fields allow, and the
\* limiter never has more than MaxKeys entries (rate_limit.go).
AccessTypeOK ==
  /\ deploy \in Deployments
  /\ \A t \in TokenIDs :
       /\ tokens[t].status \in {"absent", "active", "revoked"}
       /\ tokens[t].scope \in {"admin", "readonly"} /\ tokens[t].used \in 0..now
       /\ tokens[t].revoked \in 0..now
  /\ settings.sidecar \in Versions \cup {Unset} /\ settings.runtimes \in Versions \cup {Unset}
  /\ templates \subseteq history.used /\ log \subseteq history.audited
  /\ tickets \subseteq DOMAIN history.expires
  /\ DOMAIN entries \subseteq Clients /\ Cardinality(DOMAIN entries) <= MaxKeys
  /\ \A c \in DOMAIN entries : entries[c].count > 0 /\ {entries[c].start, entries[c].seen} \subseteq 0..now

\* operatorTokens, authorizeOperator: whoever created a token, or is on record as
\* having changed anything, was the bootstrap operator or held an admin token: a
\* readonly token never leads to an admin one, over any chain of requests.
NoEscalation ==
  /\ \A t \in TokenIDs : tokens[t].by \in TokenIDs => tokens[tokens[t].by].scope = "admin"
  /\ \A e \in history.audited :
       e.ask.do \notin Reads /\ e.name \in TokenIDs => tokens[e.name].scope = "admin"

\* RevokeOperatorToken: a revocation is for good, and uses that were under way when it
\* came no longer move the token's last use.  Only revoked_at may still change, when several
\* requests have found the token active; but never to a time after the token's end, so
\* the row does not claim that the token was accepted when it was not.
FrozenAfterRevocation ==
  [][\A t \in TokenIDs : tokens[t].status = "revoked" =>
       /\ tokens'[t] = [tokens[t] EXCEPT !.revoked = tokens'[t].revoked]
       /\ tokens'[t].revoked <= tokens[t].ended]_vars

\* DeleteRolloutTemplate: of several deletions of one template only one is
\* answered and audited as done, and the template stays deleted.
DeletedOnce ==
  \A e \in history.audited : e.ask.do = "deleteTemplate" =>
    /\ e.ask.template \notin templates
    /\ \A f \in history.audited : f.ask = e.ask => f = e

\* audit, operatorActorName: unless its request was cut short, a token's creation
\* has an audit entry that names its creator, even one revoked before the entry
\* was written, and the entry is there for the whole retention; a template's
\* deletion is attributed to one request only.
ChangesAreAttributed ==
  /\ DeletedOnce
  /\ \A t \in TokenIDs :
       tokens[t].status # "absent" /\ tokens[t].req \notin history.cut \cup InFlight
       => \E e \in history.audited :
            /\ e.req = tokens[t].req /\ e.name = tokens[t].by
            /\ (AuditRetention > 0 /\ e.at < now - AuditRetention) \/ e \in log

\* rate_limit.go: in no stretch of one window length are as many as three times the limit
\* attempts of a client let through, wherever its windows begin, as long as its entry is not
\* evicted and the server not restarted.  (The limit holds per window; a stretch touches two
\* windows, and three when attempts act on a time they have read before they waited.)
\* And the limiter never holds more than its number of keys.
BoundedGuessing ==
  /\ AccessTypeOK
  /\ \A c \in Clients : Len(history.through[c]) < 3 * Limit

\* eventTicketStore: a ticket opens at most one stream, before it expires.
TicketBuysOneStream ==
  \A t \in Tickets :
    /\ Len(history.streams[t]) <= 1
    /\ \A i \in DOMAIN history.streams[t] : history.streams[t][i] < history.expires[t]

\* serverSettings: runtime versions change only to what a request in progress asks
\* for, so a PUT that omits them never undoes another one's.
OmittedVersionsSurvive ==
  [][settings'.runtimes # settings.runtimes =>
       \E r \in Requests : ops[r].step = "runtimes" /\ settings'.runtimes = ops[r].ask.runtimes]_vars
=============================================================================
