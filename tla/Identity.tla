------------------------------ MODULE Identity ------------------------------
(***************************************************************************)
(* Sign-in by GitHub and by email codes, links of both to one user, the    *)
(* rotation of GitHub tokens and the sessions that result.  Requests run   *)
(* concurrently; each D1 batch is atomic and compares the records it read  *)
(* earlier with those it finds.  A request may die between any two steps.  *)
(* Every request creates at most one record of a kind, so that a random    *)
(* identifier is the number of the request that drew it.                   *)
(***************************************************************************)
EXTENDS Integers, FiniteSets

CONSTANTS
    Githubs, Emails,    \* what a person can prove to own, numbered from 1
    SendInterval,       \* SEND_INTERVAL, in ticks of the clock
    CodeAge,            \* CODE_AGE
    MaxAttempts,        \* MAX_ATTEMPTS
    MaxRequests,        \* bound: requests of a behaviour
    MaxClock,           \* bound
    MaxWrites           \* bound: writes of other parts to one user

ASSUME IdentityAssumption ==
    /\ Githubs \subseteq Nat \ {0} /\ Emails \subseteq Nat \ {0}
    /\ SendInterval \in Nat /\ CodeAge \in Nat \ {0} /\ 2 * SendInterval <= CodeAge
    /\ MaxAttempts \in Nat \ {0}
    /\ {MaxRequests, MaxClock, MaxWrites} \subseteq Nat

VARIABLES
    app,        \* app_state: users, sessions, states, challenges, identities
    accounts,   \* users with a row in account_entitlement_authority
    req,        \* requests and what each has read
    world       \* the clock, GitHub, the mailbox, and what was admitted

vars == <<app, accounts, req, world>>

----------------------------------------------------------------------------
(* Records. 0 stands for a field or an identifier that is missing. *)

Requests == 1 .. MaxRequests
Past == MaxRequests + 1             \* a request before the behaviour starts
LegacyUser(g) == Past + g           \* "usr_github_" + id
UserIds == Requests \cup {Past} \cup {LegacyUser(g) : g \in Githubs}

NoUser == [github |-> 0, email |-> 0, grant |-> 0, claim |-> 0,
           repos |-> FALSE, writes |-> 0]
NoChallenge == [id |-> 0, session |-> 0, user |-> 0, attempts |-> 0, created |-> 0]
NewRequest == [pc |-> "new", now |-> 0, via |-> 0, kind |-> "login",
               session |-> 0, user |-> 0, target |-> 0, owner |-> 0,
               seen |-> NoUser, held |-> NoChallenge]

Has(u) == u \in DOMAIN app.users
UserOf(u) == IF Has(u) THEN app.users[u] ELSE NoUser
Live(s, u) == s \in DOMAIN app.sessions /\ app.sessions[s] = u
Put(f, k, v) == [x \in DOMAIN f \cup {k} |-> IF x = k THEN v ELSE f[x]]
Drop(f, k) == [x \in DOMAIN f \ {k} |-> f[x]]

\* A request is over; what it had read is forgotten.
Ended(p) == req' = [req EXCEPT ![p] = [NewRequest EXCEPT !.pc = "done"]]
Starts(p) == req[p].pc = "new" /\ \A q \in 1 .. p - 1 : req[q].pc # "new"
Spend(kind, id) == [world EXCEPT !.spent = @ \cup {[kind |-> kind, id |-> id]},
                                 !.twice = @ \/ [kind |-> kind, id |-> id] \in world.spent]
SpendCode(p) ==
    [Spend("code", req[p].via) EXCEPT
        !.used = @ \cup {[email |-> req[p].target, at |-> req[p].held.created]}]

----------------------------------------------------------------------------
(* GitHub: authorize, callback, account and session. *)

\* D1OAuthStates.issue: a new state under an identifier of its own.
WithState(p, state) == Put(app.states, p, state)

\* A state for a login (no session), for a link or for an installation. The
\* session is read before, which a revocation right after would not tell apart.
Authorize(p) ==
    /\ Starts(p)
    /\ \E kind \in {"login", "install"}, s \in {0} \cup DOMAIN app.sessions :
         LET u == IF s = 0 THEN 0 ELSE app.sessions[s]
         IN  /\ kind = "install" => s # 0 /\ UserOf(u).github # 0
             /\ app' = [app EXCEPT !.states = WithState(p, [kind |-> kind, session |-> s, user |-> u])]
    /\ Ended(p)
    /\ UNCHANGED <<accounts, world>>

\* D1OAuthStates.consume reads the state and deletes exactly what it read.
ReadState(p) ==
    /\ Starts(p)
    /\ \E c \in DOMAIN app.states :
         req' = [req EXCEPT ![p] = [@ EXCEPT !.pc = "consume", !.via = c,
                   !.kind = app.states[c].kind, !.session = app.states[c].session,
                   !.user = app.states[c].user]]
    /\ UNCHANGED <<app, accounts, world>>

\* A link or an installation goes on only in the session that asked for it.
AfterConsume(p) ==
    IF req[p].session # 0 /\ ~Live(req[p].session, req[p].user) THEN Ended(p)
    ELSE IF req[p].kind = "login" THEN req' = [req EXCEPT ![p].pc = "exchange"]
    ELSE IF UserOf(req[p].user).github = 0 THEN Ended(p)
    ELSE req' = [req EXCEPT ![p].pc = "install", ![p].seen = UserOf(req[p].user)]

Consume(p) ==
    /\ req[p].pc = "consume"
    /\ IF req[p].via \in DOMAIN app.states
       THEN /\ app' = [app EXCEPT !.states = Drop(@, req[p].via)]
            /\ AfterConsume(p)
       ELSE UNCHANGED app /\ Ended(p)
    /\ UNCHANGED <<accounts, world>>

\* _github_login_identity: the mapping decides, or the legacy identifier.
LoginOwner(g) == IF app.github[g] # 0 THEN app.github[g] ELSE LegacyUser(g)
Conflicting(g) == app.github[g] # 0 /\ UserOf(app.github[g]).github # g

\* GitHub answers with a profile and tokens; then the records are read.
Exchange(p) ==
    /\ req[p].pc = "exchange"
    /\ \E g \in Githubs :
         LET linking == req[p].session # 0
             u == IF linking THEN req[p].user ELSE LoginOwner(g)
         IN  IF (linking /\ ~Live(req[p].session, u)) \/ (~linking /\ Conflicting(g))
             THEN Ended(p)
             ELSE req' = [req EXCEPT ![p] = [@ EXCEPT !.target = g, !.user = u,
                            !.pc = IF linking THEN "link" ELSE "login",
                            !.owner = app.github[g], !.seen = UserOf(u)]]
    /\ UNCHANGED <<app, accounts, world>>

Granted(p) == [req[p].seen EXCEPT !.github = req[p].target, !.grant = p, !.claim = 0]

\* weakened: does not compare the mapping again.
LoginUnmapped(p) ==
    LET u == req[p].user
    IN  /\ req[p].pc = "login"
        /\ IF UserOf(u) = req[p].seen
           THEN /\ app' = [app EXCEPT !.users = Put(@, u, Granted(p))]
                /\ req' = [req EXCEPT ![p].pc = "account"]
           ELSE UNCHANGED app /\ Ended(p)
        /\ UNCHANGED <<accounts, world>>

\* _write_user: the user and the mapping must be those that were read.
Login(p) ==
    LET u == req[p].user  g == req[p].target
    IN  /\ req[p].pc = "login"
        /\ IF UserOf(u) = req[p].seen /\ app.github[g] = req[p].owner
           THEN /\ app' = [app EXCEPT !.users = Put(@, u, Granted(p))]
                /\ req' = [req EXCEPT ![p].pc = "account"]
           ELSE UNCHANGED app /\ Ended(p)
        /\ UNCHANGED <<accounts, world>>

\* weakened: a revoked session may still link.
LinkAllowedRevoked(p) ==
    LET u == req[p].user  g == req[p].target
    IN  /\ UserOf(u) = req[p].seen
        /\ app.github[g] \in {0, u} /\ req[p].seen.github \in {0, g}
        /\ LegacyUser(g) = u \/ ~Has(LegacyUser(g))

\* _write_linked_user's conditions, decided again by its batch.
LinkAllowed(p) ==
    LET u == req[p].user  g == req[p].target
    IN  /\ UserOf(u) = req[p].seen /\ Live(req[p].session, u)
        /\ app.github[g] \in {0, u} /\ req[p].seen.github \in {0, g}
        /\ LegacyUser(g) = u \/ ~Has(LegacyUser(g))

Link(p) ==
    /\ req[p].pc = "link"
    /\ IF LinkAllowed(p)
       THEN /\ app' = [app EXCEPT !.github[req[p].target] = req[p].user,
                                  !.users[req[p].user] = Granted(p)]
            /\ world' = Spend("state", req[p].via)
       ELSE UNCHANGED <<app, world>>
    /\ Ended(p)
    /\ UNCHANGED accounts

\* weakened: the session comes before the account.
OpenAccountLater(p) ==
    /\ req[p].pc = "account"
    /\ req' = [req EXCEPT ![p].pc = "session"]
    /\ UNCHANGED <<app, accounts, world>>

\* Only an account that another callback opened meanwhile excuses a failure.
OpenAccount(p) ==
    /\ req[p].pc = "account"
    /\ accounts' = accounts \cup {req[p].user}
    /\ req' = [req EXCEPT ![p].pc = "session"]
    /\ UNCHANGED <<app, world>>

IssueSession(p) ==
    /\ req[p].pc = "session"
    /\ app' = [app EXCEPT !.sessions = Put(@, p, req[p].user)]
    /\ world' = Spend("state", req[p].via)
    /\ Ended(p)
    /\ UNCHANGED accounts

\* The App's installations are read and saved with the user as read before.
Install(p) ==
    /\ req[p].pc = "install"
    /\ IF UserOf(req[p].user) = req[p].seen
       THEN /\ app' = [app EXCEPT !.users[req[p].user].repos = TRUE]
            /\ world' = Spend("state", req[p].via)
       ELSE UNCHANGED <<app, world>>
    /\ Ended(p)
    /\ UNCHANGED accounts

----------------------------------------------------------------------------
(* Email codes. *)

\* A request for a code: a link needs a session whose user has no other
\* verified email, and an email nobody else has. The interval is measured
\* from the challenge that is stored, by the clock of this request.
RequestCode(p) ==
    /\ Starts(p)
    /\ \E e \in Emails, s \in {0} \cup DOMAIN app.sessions :
         LET u == IF s = 0 THEN 0 ELSE app.sessions[s]
             c == app.challenge[e]
         IN  /\ s # 0 => UserOf(u).email \in {0, e} /\ app.email[e] \in {0, u}
             /\ c # NoChallenge => c.created + SendInterval <= world.clock
             /\ req' = [req EXCEPT ![p] = [@ EXCEPT !.pc = "code", !.target = e,
                          !.session = s, !.user = u, !.held = c, !.now = world.clock]]
    /\ UNCHANGED <<app, accounts, world>>

\* The challenge is stored, in the place of the one that was read, before the
\* mail is sent.
StoreCode(p) ==
    LET e == req[p].target
    IN  /\ req[p].pc = "code"
        /\ IF app.challenge[e] = req[p].held
           THEN /\ app' = [app EXCEPT !.challenge[e] =
                             [id |-> p, session |-> req[p].session, user |-> req[p].user,
                              attempts |-> 0, created |-> req[p].now]]
                /\ req' = [req EXCEPT ![p].pc = "mail"]
           ELSE UNCHANGED app /\ Ended(p)
        /\ UNCHANGED <<accounts, world>>

Mail(p) ==
    /\ req[p].pc = "mail"
    /\ world' = [world EXCEPT !.mails = @ \cup
                   {[id |-> p, email |-> req[p].target, at |-> req[p].now]}]
    /\ Ended(p)
    /\ UNCHANGED <<app, accounts>>

\* A request that issues records of another address removes expired ones.
Sweep(e) ==
    /\ app.challenge[e] # NoChallenge
    /\ app.challenge[e].created + CodeAge <= world.clock
    /\ app' = [app EXCEPT !.challenge[e] = NoChallenge]
    /\ UNCHANGED <<accounts, req, world>>

Answerable(c) ==
    c # NoChallenge /\ c.attempts < MaxAttempts /\ c.created + CodeAge > world.clock

\* A code arrives for the stored challenge: wrong ones are counted, a right
\* one leads to the user who has the email, the linking user, or a new one.
Verify(p) ==
    /\ Starts(p)
    /\ \E e \in Emails, right \in BOOLEAN :
         LET c == app.challenge[e]
             linking == c.session # 0
             owner == app.email[e]
             u == IF linking THEN c.user ELSE IF owner # 0 THEN owner ELSE p
             taken == linking /\ (UserOf(u).email \notin {0, e} \/ owner \notin {0, u})
         IN  /\ Answerable(c)
             /\ linking => Live(c.session, u)
             /\ right /\ ~taken /\ owner # 0 => UserOf(owner).email = e
             /\ req' = [req EXCEPT ![p] = [@ EXCEPT
                          !.pc = IF ~right THEN "wrong" ELSE IF taken THEN "taken" ELSE "enter",
                          !.target = e, !.session = c.session, !.user = u, !.owner = owner,
                          !.seen = UserOf(u), !.held = c, !.via = c.id]]
    /\ UNCHANGED <<app, accounts, world>>

\* The challenge that was read is gone, or has one attempt more.
Answered(p) ==
    /\ req[p].pc \in {"wrong", "taken"}
    /\ app' = IF app.challenge[req[p].target] # req[p].held THEN app
              ELSE IF req[p].pc = "taken"
              THEN [app EXCEPT !.challenge[req[p].target] = NoChallenge]
              ELSE [app EXCEPT !.challenge[req[p].target].attempts = @ + 1]
    /\ world' = IF req[p].pc = "taken" /\ app.challenge[req[p].target] = req[p].held
                THEN SpendCode(p) ELSE world
    /\ Ended(p)
    /\ UNCHANGED accounts

Verified(p) == [req[p].seen EXCEPT !.email = req[p].target]

\* weakened: does not ask that the challenge is the one that was read.
EnterAllowedAgain(p) ==
    /\ app.email[req[p].target] = req[p].owner
    /\ UserOf(req[p].user) = req[p].seen
    /\ req[p].session # 0 => Live(req[p].session, req[p].user)

\* The conditions of the batch: challenge, identity, user and session are
\* those that were read.
EnterAllowed(p) ==
    /\ app.challenge[req[p].target] = req[p].held
    /\ app.email[req[p].target] = req[p].owner
    /\ UserOf(req[p].user) = req[p].seen
    /\ req[p].session # 0 => Live(req[p].session, req[p].user)

\* One batch consumes the challenge, writes identity and user, opens the
\* account of a new user and, except for a link, the session.
Enter(p) ==
    LET u == req[p].user  e == req[p].target
    IN  /\ req[p].pc = "enter"
        /\ IF EnterAllowed(p)
           THEN /\ app' = [app EXCEPT !.challenge[e] = NoChallenge, !.email[e] = u,
                             !.users = Put(@, u, Verified(p)),
                             !.sessions = IF req[p].session # 0 THEN @ ELSE Put(@, p, u)]
                /\ accounts' = IF Has(u) THEN accounts ELSE accounts \cup {u}
                /\ world' = SpendCode(p)
           ELSE UNCHANGED <<app, accounts, world>>
        /\ Ended(p)

----------------------------------------------------------------------------
(* Rotation of the GitHub tokens, and the rest. A grant is the number of the *)
(* request that obtained it; GitHub accepts a refresh token once.            *)

Refresh(p) ==
    /\ Starts(p)
    /\ \E s \in DOMAIN app.sessions :
         LET u == UserOf(app.sessions[s])
         IN  /\ u.github # 0 /\ u.grant # 0 /\ u.claim = 0
             /\ req' = [req EXCEPT ![p] = [@ EXCEPT !.pc = "claim", !.session = s,
                          !.user = app.sessions[s], !.seen = u]]
    /\ UNCHANGED <<app, accounts, world>>

\* _publish_user: one update of the user as read, under a live session.
Publish(p, expected, next) ==
    IF UserOf(req[p].user) = expected /\ Live(req[p].session, req[p].user)
    THEN [app EXCEPT !.users[req[p].user] = next] ELSE app

\* weakened: a losing consumer goes on all the same.
ClaimUnfenced(p) ==
    /\ req[p].pc = "claim"
    /\ app' = Publish(p, req[p].seen, [req[p].seen EXCEPT !.claim = p])
    /\ req' = [req EXCEPT ![p].pc = "provider"]
    /\ UNCHANGED <<accounts, world>>

Claim(p) ==
    /\ req[p].pc = "claim"
    /\ app' = Publish(p, req[p].seen, [req[p].seen EXCEPT !.claim = p])
    /\ IF app' # app THEN req' = [req EXCEPT ![p].pc = "provider"] ELSE Ended(p)
    /\ UNCHANGED <<accounts, world>>

\* GitHub rotates the token, rejects the request, or its answer is lost.
Provider(p) ==
    /\ req[p].pc = "provider"
    /\ \/ /\ req[p].seen.grant \notin world.consumed
          /\ world' = [world EXCEPT !.consumed = @ \cup {req[p].seen.grant}]
          /\ req' = [req EXCEPT ![p].pc = "rotated"] \/ Ended(p)
       \/ /\ \E answer \in {"rejected", "reauthorize"} : req' = [req EXCEPT ![p].pc = answer]
          /\ UNCHANGED world
       \/ Ended(p) /\ UNCHANGED world
    /\ UNCHANGED <<app, accounts>>

\* _current_claim: the claim and the grant are still those of this request.
StillClaimed(p) ==
    LET u == UserOf(req[p].user)
    IN  u.claim = p /\ u.github = req[p].seen.github /\ u.grant = req[p].seen.grant

\* weakened: writes back the user as it was when the refresh began.
RotateStale(p) ==
    /\ req[p].pc \in {"rotated", "rejected", "reauthorize"}
    /\ LET next == CASE req[p].pc = "rotated" -> [req[p].seen EXCEPT !.grant = p, !.claim = 0]
                     [] req[p].pc = "rejected" -> [req[p].seen EXCEPT !.claim = 0]
                     [] OTHER -> [req[p].seen EXCEPT !.claim = 0, !.grant = 0]
       IN  app' = IF StillClaimed(p) THEN Publish(p, UserOf(req[p].user), next) ELSE app
    /\ Ended(p)
    /\ UNCHANGED <<accounts, world>>

\* What the answer changes in the user as it is by now; every other answer
\* leaves the claim, for ever.
Rotate(p) ==
    /\ req[p].pc \in {"rotated", "rejected", "reauthorize"}
    /\ LET u == UserOf(req[p].user)
           next == CASE req[p].pc = "rotated" -> [u EXCEPT !.grant = p, !.claim = 0]
                     [] req[p].pc = "rejected" -> [u EXCEPT !.claim = 0]
                     [] OTHER -> [u EXCEPT !.claim = 0, !.grant = 0]
       IN  app' = IF StillClaimed(p) THEN Publish(p, u, next) ELSE app
    /\ Ended(p)
    /\ UNCHANGED <<accounts, world>>

SignOut ==
    /\ \E s \in DOMAIN app.sessions :
         /\ app' = [app EXCEPT !.sessions = Drop(@, s)]
         /\ world' = [world EXCEPT !.left = @ \cup {s}]
    /\ UNCHANGED <<accounts, req>>

\* Billing and preferences write other fields of the user, by the same CAS.
WriteUser(u) ==
    /\ Has(u) /\ app.users[u].writes < MaxWrites
    /\ app' = [app EXCEPT !.users[u].writes = @ + 1]
    /\ UNCHANGED <<accounts, req, world>>

\* An exception, a time limit or an eviction between two steps.
Die(p) ==
    /\ req[p].pc \notin {"new", "done"}
    /\ Ended(p)
    /\ UNCHANGED <<app, accounts, world>>

\* Time is counted where something reads the clock: while a code is stored or
\* requested. A request that stores one is over before the next interval is.
Tick ==
    /\ world.clock < MaxClock
    /\ \/ \E e \in Emails : app.challenge[e] # NoChallenge
       \/ \E p \in Requests : req[p].pc = "code"
    /\ \A p \in Requests :
         req[p].pc \in {"code", "mail"} => world.clock < req[p].now + SendInterval
    /\ world' = [world EXCEPT !.clock = @ + 1]
    /\ UNCHANGED <<app, accounts, req>>

----------------------------------------------------------------------------
(* Initially there may be a user who came by email, perhaps with a GitHub    *)
(* identity linked, and a user who came by GitHub, both signed in. The user  *)
(* by email may have begun a login by GitHub, too.                           *)

Init ==
    \E mailUser, linked, gitUser, begun \in BOOLEAN, e \in Emails, g \in Githubs :
        LET byMail == [NoUser EXCEPT !.email = e, !.github = IF linked THEN g ELSE 0,
                         !.grant = IF linked THEN Past ELSE 0]
            byGit == [NoUser EXCEPT !.github = g, !.grant = Past]
            known == (IF mailUser THEN {Past} ELSE {}) \cup (IF gitUser THEN {LegacyUser(g)} ELSE {})
        IN  /\ linked => mailUser /\ ~gitUser
            /\ begun => mailUser /\ ~linked /\ ~gitUser
            /\ app = [users |-> [u \in known |-> IF u = Past THEN byMail ELSE byGit],
                      sessions |-> [u \in known |-> u],
                      states |-> [c \in (IF begun THEN {Past} ELSE {}) |->
                                    [kind |-> "login", session |-> 0, user |-> 0]],
                      challenge |-> [x \in Emails |-> NoChallenge],
                      github |-> [x \in Githubs |-> IF linked /\ x = g THEN Past ELSE 0],
                      email |-> [x \in Emails |-> IF mailUser /\ x = e THEN Past ELSE 0]]
            /\ accounts = DOMAIN app.users
            /\ req = [p \in Requests |-> NewRequest]
            /\ world = [clock |-> 0, consumed |-> {}, mails |-> {}, spent |-> {},
                        used |-> {}, twice |-> FALSE, left |-> {}]

Step(p) ==
    \/ Authorize(p) \/ ReadState(p) \/ Consume(p) \/ Exchange(p) \/ Login(p)
    \/ Link(p) \/ OpenAccount(p) \/ IssueSession(p) \/ Install(p)
    \/ RequestCode(p) \/ StoreCode(p) \/ Mail(p) \/ Verify(p) \/ Answered(p) \/ Enter(p)
    \/ Refresh(p) \/ Claim(p) \/ Provider(p) \/ Rotate(p) \/ Die(p)

Next ==
    \/ \E p \in Requests : Step(p)
    \/ \E e \in Emails : Sweep(e)
    \/ \E u \in UserIds : WriteUser(u)
    \/ SignOut \/ Tick

Spec == Init /\ [][Next]_vars

----------------------------------------------------------------------------
(* Properties. *)

UserType == [github : Githubs \cup {0}, email : Emails \cup {0},
             grant : Nat, claim : Nat, repos : BOOLEAN, writes : Nat]
ChallengeType == [id : Nat, session : Nat, user : UserIds \cup {0},
                  attempts : 0 .. MaxAttempts, created : Nat]

\* Every variable keeps its type; no challenge counts past its attempts.
TypeOK ==
    /\ DOMAIN app.users \subseteq UserIds /\ \A u \in DOMAIN app.users : app.users[u] \in UserType
    /\ \A s \in DOMAIN app.sessions : app.sessions[s] \in UserIds
    /\ app.challenge \in [Emails -> ChallengeType]
    /\ app.github \in [Githubs -> UserIds \cup {0}]
    /\ app.email \in [Emails -> UserIds \cup {0}]
    /\ accounts \subseteq UserIds
    /\ \A p \in Requests : req[p].seen \in UserType /\ req[p].held \in ChallengeType

Holders(field, i) == {u \in DOMAIN app.users : app.users[u][field] = i}

\* A GitHub identity and an email belong to one user at most, the one their
\* record names, although a login by GitHub without a record and a link that
\* writes one decide from records that are read at different times.
OneOwner ==
    /\ \A g \in Githubs : \A u, v \in Holders("github", g) : u = v
    /\ \A g \in Githubs : app.github[g] # 0 => app.github[g] \in Holders("github", g)
    /\ \A e \in Emails : Holders("email", e) = {app.email[e]} \ {0}

\* The records agree on who owns an identity.
Consistent == TypeOK /\ OneOwner

\* An OAuth state or a code admits once: to one session, one link, one
\* installation.
UsedOnce == ~world.twice

\* A refresh token that GitHub has already taken is never sent again, and a
\* user without a pending claim never holds one: a lost answer, a revoked
\* session or a concurrent login leaves the claim or a grant that still works.
GrantStillWorks ==
    /\ \A u \in DOMAIN app.users :
         app.users[u].grant # 0 /\ app.users[u].claim = 0
           => app.users[u].grant \notin world.consumed
    /\ \A p \in Requests : req[p].pc = "provider" => req[p].seen.grant \notin world.consumed

\* Nothing saved in a user is undone by a request that read it earlier:
\* identities, the repository grant and what billing wrote in between.
NothingLost ==
    [][\A u \in DOMAIN app.users :
         /\ u \in DOMAIN app'.users
         /\ app'.users[u].writes >= app.users[u].writes
         /\ app.users[u].repos => app'.users[u].repos
         /\ \A field \in {"github", "email"} :
              app.users[u][field] # 0 => app'.users[u][field] = app.users[u][field]]_vars

\* Two mails reach one address within the interval only when a code requested
\* about then was used: the place it left is taken by a request that was under
\* way, whatever that one had waited for.
MailSpacing ==
    \A m, n \in world.mails :
        m # n /\ m.email = n.email /\ m.at <= n.at /\ n.at < m.at + SendInterval
          => \E code \in world.used :
               code.email = m.email /\ m.at <= code.at /\ code.at <= n.at + SendInterval

\* A code is mailed no faster than the interval allows, and what was mailed or
\* issued is used once.
SentAndUsedOnce == UsedOnce /\ MailSpacing

\* A link or a rotation that a session began changes nothing once the session
\* is revoked, whatever it had already asked of GitHub.
RevokedStaysOut ==
    [][\A p \in Requests :
         req'[p] # req[p] /\ req[p].session # 0 /\ ~Live(req[p].session, req[p].user)
           /\ req[p].pc # "install"
         => UNCHANGED <<app.users, app.github, app.email>>]_vars

\* The records together implement the registry of identities.
GithubOwner(g) ==
    IF app.github[g] # 0 THEN app.github[g]
    ELSE IF UserOf(LegacyUser(g)).github = g THEN LegacyUser(g) ELSE 0

Registry == INSTANCE IdentityRegistry WITH
    Identities <- ({"github"} \X Githubs) \cup ({"email"} \X Emails),
    Users <- UserIds,
    owner <- [i \in ({"github"} \X Githubs) \cup ({"email"} \X Emails) |->
                IF i[1] = "github" THEN GithubOwner(i[2]) ELSE app.email[i[2]]],
    accounts <- accounts,
    sessions <- app.sessions,
    issued <- DOMAIN app.sessions \cup world.left

ImplementsRegistry == Registry!Spec
=============================================================================
