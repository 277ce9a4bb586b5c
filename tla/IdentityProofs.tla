--------------------------- MODULE IdentityProofs ---------------------------
(***************************************************************************)
(* Theorems about sign-in, for every set of identities, every number of     *)
(* requests, attempts and ticks, and every interval that fits twice into    *)
(* the age of a code. The inductive invariant relates what a request has    *)
(* read to what its batch will find: who may own an identity, which state,  *)
(* code or grant it holds alone, and what became of a code that was sent.   *)
(***************************************************************************)
EXTENDS Identity, TLAPS

(* Shapes.                                                                   *)

Pcs == {"new", "consume", "exchange", "login", "link", "account", "session", "install",
        "code", "mail", "wrong", "taken", "enter", "claim", "provider",
        "rotated", "rejected", "reauthorize", "done"}
ReqType == [pc : Pcs, now : Nat, via : Nat, kind : {"login", "install"}, session : Nat,
            user : UserIds \cup {0}, target : Nat, owner : UserIds \cup {0},
            seen : UserType, held : ChallengeType]
StateType == [kind : {"login", "install"}, session : Nat, user : UserIds \cup {0}]
WorldType == [clock : Nat, consumed : SUBSET Nat, mails : SUBSET [id : Nat, email : Emails, at : Nat],
              spent : SUBSET [kind : {"state", "code"}, id : Nat],
              used : SUBSET [email : Emails, at : Nat], twice : BOOLEAN, left : SUBSET UserIds]

Shape ==
    /\ app = [users |-> app.users, sessions |-> app.sessions, states |-> app.states,
              challenge |-> app.challenge, github |-> app.github, email |-> app.email]
    /\ app.users = [u \in DOMAIN app.users |-> app.users[u]]
    /\ app.sessions = [s \in DOMAIN app.sessions |-> app.sessions[s]]
    /\ DOMAIN app.sessions \subseteq UserIds
    /\ DOMAIN app.states \subseteq UserIds
    /\ \A c \in DOMAIN app.states : app.states[c] \in StateType
    /\ req \in [Requests -> ReqType] /\ world \in WorldType

(* Who owns an identity, and who has an account.                             *)
Owners ==
    /\ \A u \in DOMAIN app.users : app.users[u].github # 0 => GithubOwner(app.users[u].github) = u
    /\ \A g \in Githubs : app.github[g] # 0 =>
         Has(app.github[g]) /\ app.users[app.github[g]].github = g
    /\ \A g \in Githubs : Has(LegacyUser(g)) => app.users[LegacyUser(g)].github = g
    /\ \A u \in DOMAIN app.users : app.users[u].email # 0 => app.email[app.users[u].email] = u
    /\ \A e \in Emails : app.email[e] # 0 => Has(app.email[e]) /\ app.users[app.email[e]].email = e

Signed ==
    /\ accounts \subseteq DOMAIN app.users
    /\ \A s \in DOMAIN app.sessions : app.sessions[s] \in accounts
    /\ \A u \in DOMAIN app.users : app.users[u].email # 0 => u \in accounts

(* Random identifiers are new: their request is over when they are seen.     *)
Over(p) == p \in Requests => req[p].pc = "done"
Fresh ==
    /\ \A u \in DOMAIN app.users : Over(u)
    /\ \A s \in DOMAIN app.sessions \cup world.left : Over(s)
    /\ \A c \in DOMAIN app.states : Over(c)

(* What a request has read, by what it is about to do.                       *)
Reads(p, r) ==
    /\ r.pc = "login" =>
         /\ r.session = 0 /\ r.target \in Githubs
         /\ r.user = IF r.owner # 0 THEN r.owner ELSE LegacyUser(r.target)
    /\ r.pc = "link" => r.session # 0 /\ r.target \in Githubs
    /\ r.pc \in {"account", "session"} =>
         /\ r.session = 0 /\ r.target \in Githubs
         /\ Has(r.user) /\ app.users[r.user].github = r.target
    /\ r.pc = "session" => r.user \in accounts
    /\ r.pc = "install" => r.seen.github # 0
    /\ r.pc \in {"code", "mail", "wrong", "taken", "enter"} => r.target \in Emails
    /\ r.pc \in {"wrong", "taken", "enter"} => r.held # NoChallenge /\ r.via = r.held.id
    /\ r.pc = "wrong" => r.held.attempts < MaxAttempts
    /\ r.pc = "enter" =>
         /\ r.seen.email \in {0, r.target}
         /\ r.session # 0 => r.owner \in {0, r.user}
         /\ r.session = 0 => r.user = IF r.owner # 0 THEN r.owner ELSE p
    /\ r.pc \in {"claim", "provider", "rotated", "rejected", "reauthorize"} =>
         r.seen.github # 0 /\ r.seen.grant # 0 /\ r.seen.claim = 0 /\ r.session # 0
    /\ r.pc = "code" => r.held = NoChallenge \/ r.held.created + SendInterval <= r.now
    /\ r.pc \in {"code", "mail"} => r.now <= world.clock /\ world.clock <= r.now + SendInterval

AllRead == \A p \in Requests : Reads(p, req[p])

(* An OAuth state is held by one request once it is consumed.                *)
HoldsState == {"exchange", "login", "link", "account", "session", "install"}
StatesOnce ==
    /\ \A c \in DOMAIN app.states : [kind |-> "state", id |-> c] \notin world.spent
    /\ \A p \in Requests : req[p].pc \in HoldsState =>
         /\ req[p].via \in UserIds /\ Over(req[p].via)
         /\ req[p].via \notin DOMAIN app.states
         /\ [kind |-> "state", id |-> req[p].via] \notin world.spent
         /\ \A q \in Requests \ {p} : req[q].pc \in HoldsState => req[q].via # req[p].via
    /\ \A x \in world.spent : x.kind = "state" => Over(x.id)

(* A code is stored by one request, for one address.                         *)
Coded(id) == id \in Requests => req[id].pc \notin {"new", "code"}
CodesOnce ==
    /\ \A e \in Emails : app.challenge[e] # NoChallenge =>
         /\ [kind |-> "code", id |-> app.challenge[e].id] \notin world.spent
         /\ Coded(app.challenge[e].id)
         /\ \A f \in Emails \ {e} : app.challenge[f] # NoChallenge =>
              app.challenge[f].id # app.challenge[e].id
    /\ \A x \in world.spent : x.kind = "code" => Coded(x.id)

(* What became of a code that was sent: it or its successor stands, a code   *)
(* that came after was used, or it expired.                                  *)
Trail(e, at) ==
    \/ app.challenge[e] # NoChallenge /\ at <= app.challenge[e].created
    \/ \E code \in world.used : code.email = e /\ at <= code.at
    \/ at + CodeAge <= world.clock
Sent == world.mails \cup {[id |-> p, email |-> req[p].target, at |-> req[p].now] :
                            p \in {q \in Requests : req[q].pc = "mail"}}
Apart(m, n) ==
    m.email = n.email /\ m.at <= n.at /\ n.at < m.at + SendInterval
      => \E code \in world.used :
           code.email = m.email /\ m.at <= code.at /\ code.at <= n.at + SendInterval
Spaced ==
    /\ \A m \in Sent : Trail(m.email, m.at) /\ m.at <= world.clock
    /\ \A m, n \in Sent : m # n => Apart(m, n)
    /\ \A code \in world.used : code.at <= world.clock
    /\ \A e \in Emails : app.challenge[e].created <= world.clock
    /\ \A m \in Sent : Coded(m.id)

(* A grant is obtained by one request for one user, and sent by one.         *)
Obtained(g) == g \in Requests => req[g].pc \in {"account", "session", "done"}
Sends == {"provider", "rejected"}
Grants ==
    /\ \A u \in DOMAIN app.users : Obtained(app.users[u].grant)
    /\ \A u, v \in DOMAIN app.users :
         app.users[u].grant # 0 /\ app.users[u].grant = app.users[v].grant => u = v
    /\ \A g \in world.consumed : Obtained(g)
    /\ \A u \in DOMAIN app.users :
         app.users[u].grant # 0 /\ app.users[u].claim = 0
           => app.users[u].grant \notin world.consumed
    /\ \A p \in Requests : req[p].pc \in Sends =>
         /\ Obtained(req[p].seen.grant) /\ req[p].seen.grant \notin world.consumed
         /\ \A u \in DOMAIN app.users : app.users[u].grant = req[p].seen.grant
              => u = req[p].user /\ app.users[u].claim = p
         /\ \A q \in Requests \ {p} : req[q].pc \in Sends
              => req[q].seen.grant # req[p].seen.grant

IdentityInv ==
    /\ TypeOK /\ Shape /\ Owners /\ Signed /\ Fresh /\ AllRead
    /\ StatesOnce /\ CodesOnce /\ Spaced /\ Grants /\ ~world.twice

-----------------------------------------------------------------------------
(* Identifiers and records.                                                  *)

LEMMA IdFacts ==
    /\ Past \in Nat /\ 0 \notin UserIds /\ UserIds \subseteq Nat
    /\ Requests \subseteq UserIds /\ Past \in UserIds /\ Past \notin Requests
    /\ \A g \in Githubs : /\ LegacyUser(g) \in UserIds /\ LegacyUser(g) \notin Requests
                          /\ LegacyUser(g) # Past /\ LegacyUser(g) # 0
    /\ \A g, k \in Githubs : LegacyUser(g) = LegacyUser(k) => g = k
    /\ 0 \notin Githubs /\ 0 \notin Emails /\ Githubs \subseteq Nat /\ Emails \subseteq Nat
BY IdentityAssumption DEF Past, UserIds, Requests, LegacyUser

LEMMA PutFacts ==
    ASSUME NEW f, NEW k, NEW v
    PROVE  /\ DOMAIN Put(f, k, v) = DOMAIN f \cup {k} /\ Put(f, k, v)[k] = v
           /\ Put(f, k, v) = [x \in DOMAIN Put(f, k, v) |-> Put(f, k, v)[x]]
           /\ \A x \in DOMAIN f : x # k => Put(f, k, v)[x] = f[x]
BY DEF Put

LEMMA DropFacts ==
    ASSUME NEW f, NEW k
    PROVE  /\ DOMAIN Drop(f, k) = DOMAIN f \ {k}
           /\ Drop(f, k) = [x \in DOMAIN Drop(f, k) |-> Drop(f, k)[x]]
           /\ \A x \in DOMAIN f : x # k => Drop(f, k)[x] = f[x]
BY DEF Drop

LEMMA NoUserType == NoUser \in UserType
BY IdFacts DEF NoUser, UserType

LEMMA NoChallengeType == NoChallenge \in ChallengeType
BY IdentityAssumption DEF NoChallenge, ChallengeType

Finished == [NewRequest EXCEPT !.pc = "done"]

LEMMA FinishedType ==
    /\ Finished \in ReqType /\ Finished.pc = "done"
    /\ NewRequest \in ReqType
<1>1. NewRequest \in ReqType
    BY NoUserType, NoChallengeType DEF NewRequest, ReqType, Pcs
<1> QED BY <1>1 DEF Finished, ReqType, Pcs, NewRequest

LEMMA ReqFields ==
    ASSUME NEW r \in ReqType
    PROVE  /\ r.pc \in Pcs /\ r.now \in Nat /\ r.via \in Nat /\ r.kind \in {"login", "install"}
           /\ r.session \in Nat /\ r.user \in UserIds \cup {0} /\ r.target \in Nat
           /\ r.owner \in UserIds \cup {0} /\ r.seen \in UserType /\ r.held \in ChallengeType
BY DEF ReqType

LEMMA UserFields ==
    ASSUME NEW x \in UserType
    PROVE  /\ x.github \in Githubs \cup {0} /\ x.email \in Emails \cup {0}
           /\ x.grant \in Nat /\ x.claim \in Nat /\ x.repos \in BOOLEAN /\ x.writes \in Nat
BY DEF UserType

LEMMA UserOfType ==
    ASSUME TypeOK, NEW u
    PROVE  UserOf(u) \in UserType /\ (Has(u) => UserOf(u) = app.users[u])
           /\ (~Has(u) => UserOf(u) = NoUser)
BY NoUserType DEF TypeOK, UserOf, Has

(* The registry of identities, as the records implement it.                  *)
Ids == ({"github"} \X Githubs) \cup ({"email"} \X Emails)
Owner == [i \in Ids |-> IF i[1] = "github" THEN GithubOwner(i[2]) ELSE app.email[i[2]]]
Issued == DOMAIN app.sessions \cup world.left
Refines == Registry!Next \/ UNCHANGED Registry!registry
Binds(i, u) == Owner[i] \in {0, u} /\ Owner' = [Owner EXCEPT ![i] = u]

LEMMA NothingNew ==
    ASSUME Owner' = Owner, accounts' = accounts, app'.sessions = app.sessions, Issued' = Issued
    PROVE  Refines
BY DEF Refines, Registry!registry, Owner, Ids, Issued

LEMMA NextOwner ==
    /\ \A i \in Ids, u \in UserIds : Registry!Learn(i, u) => Refines
    /\ \A u \in UserIds : Registry!Open(u) => Refines
    /\ \A s, u \in UserIds : Registry!Enter(s, u) => Refines
    /\ \A i \in Ids, u, s \in UserIds : Registry!Arrive(i, u, s) => Refines
    /\ \A s \in DOMAIN app.sessions : Registry!Leave(s) => Refines
BY DEF Refines, Registry!Next, Ids

\* An identity comes to a user, or is the user's already.
LEMMA LearnsAtMost ==
    ASSUME NEW i \in Ids, NEW u \in UserIds, Binds(i, u), accounts' = accounts,
           app'.sessions = app.sessions, Issued' = Issued
    PROVE  Refines
<1>1. CASE Owner[i] = 0
    <2>1. Registry!Learn(i, u)
        BY <1>1 DEF Registry!Learn, Registry!Bind, Binds, Owner, Ids, Issued
    <2> QED BY <2>1, NextOwner
<1>2. CASE Owner[i] = u
    <2>1. Owner' = Owner
        BY <1>2 DEF Binds, Owner
    <2> QED BY <2>1, NothingNew
<1> QED BY <1>1, <1>2 DEF Binds

\* A request that gives up, or reads.
LEMMA OnlyReads ==
    ASSUME UNCHANGED <<app, accounts, world>>
    PROVE  Refines
<1>1. Owner' = Owner
    BY DEF Owner, GithubOwner, UserOf, Has
<1> QED BY <1>1, NothingNew DEF Issued

(* A request that goes on, and never back.                                   *)
Moves(p, r) == req' = [req EXCEPT ![p] = r]
Forward(p, r) ==
    /\ req[p].pc # "done"
    /\ req[p].pc \notin {"new", "code"} => r.pc \notin {"new", "code"}
    /\ req[p].pc \in {"account", "session"} => r.pc \in {"account", "session", "done"}

LEMMA EndedMoves ==
    ASSUME NEW p \in Requests, req \in [Requests -> ReqType], Ended(p), req[p].pc # "done"
    PROVE  Moves(p, Finished) /\ Forward(p, Finished)
BY FinishedType DEF Ended, Moves, Finished, Forward

LEMMA MovesFacts ==
    ASSUME NEW p \in Requests, NEW r \in ReqType, req \in [Requests -> ReqType], Moves(p, r)
    PROVE  /\ req' \in [Requests -> ReqType] /\ req'[p] = r
           /\ \A q \in Requests : q # p => req'[q] = req[q]
BY DEF Moves

LEMMA StillOver ==
    ASSUME NEW p \in Requests, NEW r \in ReqType, req \in [Requests -> ReqType],
           Moves(p, r), Forward(p, r), NEW x
    PROVE  /\ Over(x) => Over(x)' /\ x # p
           /\ Coded(x) => Coded(x)'
           /\ Obtained(x) => Obtained(x)'
BY MovesFacts DEF Over, Coded, Obtained, Forward

-----------------------------------------------------------------------------
(* What a step keeps when it leaves the records of a part alone.             *)

(* Users are only added to.                                                  *)
UsersGrow ==
    \A u \in DOMAIN app.users :
        /\ u \in DOMAIN app'.users
        /\ app.users[u].github # 0 => app'.users[u].github = app.users[u].github

LEMMA StillReads ==
    ASSUME TypeOK, Shape, UsersGrow, accounts \subseteq accounts', world'.clock = world.clock,
           NEW p \in Requests, NEW r \in ReqType, Reads(p, r)
    PROVE  Reads(p, r)'
<1>1. r.pc \in {"account", "session"} =>
        r.session = 0 /\ r.target \in Githubs /\ (Has(r.user) /\ app.users[r.user].github = r.target)'
    BY IdFacts DEF Reads, UsersGrow, Has
<1> QED BY <1>1 DEF Reads

LEMMA AllReadKept ==
    ASSUME TypeOK, Shape, AllRead, UsersGrow, accounts \subseteq accounts',
           world'.clock = world.clock, NEW p \in Requests, NEW r \in ReqType, Moves(p, r), Reads(p, r)'
    PROVE  AllRead'
<1>1. req \in [Requests -> ReqType]
    BY DEF Shape
<1>2. req'[p] = r /\ \A q \in Requests : q # p => req'[q] = req[q]
    BY <1>1, MovesFacts
<1>3. \A q \in Requests : \A x \in ReqType : Reads(q, x) => Reads(q, x)'
    BY StillReads
<1>4. ASSUME NEW q \in Requests PROVE Reads(q, req[q])'
    <2>1. CASE q = p
        BY <1>2, <2>1
    <2>2. CASE q # p
        <3>1. req[q] \in ReqType /\ Reads(q, req[q])
            BY <1>1 DEF AllRead
        <3> QED BY <1>2, <1>3, <2>2, <3>1
    <2> QED BY <2>1, <2>2
<1> QED BY <1>4 DEF AllRead

LEMMA OwnersKept ==
    ASSUME Owners, app'.github = app.github, app'.email = app.email,
           DOMAIN app'.users = DOMAIN app.users,
           \A u \in DOMAIN app.users : /\ app'.users[u].github = app.users[u].github
                                       /\ app'.users[u].email = app.users[u].email
    PROVE  Owners' /\ UsersGrow /\ Owner' = Owner
<1>1. \A u : Has(u)' <=> Has(u)
    BY DEF Has
<1>2. \A u : UserOf(u)'.github = UserOf(u).github
    BY DEF UserOf, Has
<1>3. \A g : GithubOwner(g)' = GithubOwner(g)
    BY <1>2 DEF GithubOwner
<1>4. Owner' = Owner
    BY <1>3 DEF Owner
<1> QED BY <1>1, <1>3, <1>4 DEF Owners, UsersGrow, Has

LEMMA SignedKept ==
    ASSUME Signed, accounts' = accounts, DOMAIN app'.users = DOMAIN app.users,
           \A u \in DOMAIN app.users : app'.users[u].email = app.users[u].email,
           DOMAIN app'.sessions \subseteq DOMAIN app.sessions,
           \A s \in DOMAIN app'.sessions : app'.sessions[s] = app.sessions[s]
    PROVE  Signed'
BY DEF Signed

LEMMA FreshKept ==
    ASSUME Fresh, NEW p \in Requests, NEW r \in ReqType, req \in [Requests -> ReqType],
           Moves(p, r), Forward(p, r),
           DOMAIN app'.users \subseteq DOMAIN app.users \cup {x \in UserIds : Over(x)'},
           DOMAIN app'.sessions \cup world'.left
               \subseteq DOMAIN app.sessions \cup world.left \cup {x \in UserIds : Over(x)'},
           DOMAIN app'.states \subseteq DOMAIN app.states \cup {x \in UserIds : Over(x)'}
    PROVE  Fresh'
<1>1. \A x : Over(x) => Over(x)'
    BY StillOver
<1> QED BY <1>1 DEF Fresh

LEMMA StatesKept ==
    ASSUME StatesOnce, NEW p \in Requests, NEW r \in ReqType, req \in [Requests -> ReqType],
           Moves(p, r), Forward(p, r),
           DOMAIN app'.states = DOMAIN app.states,
           \A x \in world'.spent : x.kind = "state" => x \in world.spent,
           r.pc \in HoldsState => req[p].pc \in HoldsState /\ r.via = req[p].via
    PROVE  StatesOnce'
<1>1. \A x : Over(x) => Over(x)'
    BY StillOver
<1>2. req'[p] = r /\ \A q \in Requests : q # p => req'[q] = req[q]
    BY MovesFacts
<1>3. \A c : [kind |-> "state", id |-> c] \notin world.spent
                => [kind |-> "state", id |-> c] \notin world'.spent
    OBVIOUS
<1>4. ASSUME NEW q \in Requests PROVE
        /\ req'[q].pc \in HoldsState => req[q].pc \in HoldsState /\ req'[q].via = req[q].via
    BY <1>2
<1> QED BY <1>1, <1>3, <1>4 DEF StatesOnce

LEMMA CodesKept ==
    ASSUME CodesOnce, NEW p \in Requests, NEW r \in ReqType, req \in [Requests -> ReqType],
           Moves(p, r), Forward(p, r),
           \A e \in Emails : app'.challenge[e] # NoChallenge =>
                app.challenge[e] # NoChallenge /\ app'.challenge[e].id = app.challenge[e].id,
           \A x \in world'.spent : x.kind = "code" => x \in world.spent
    PROVE  CodesOnce'
<1>1. \A x : Coded(x) => Coded(x)'
    BY StillOver
<1>2. \A c : [kind |-> "code", id |-> c] \notin world.spent
                => [kind |-> "code", id |-> c] \notin world'.spent
    OBVIOUS
<1> QED BY <1>1, <1>2 DEF CodesOnce

LEMMA SentType ==
    ASSUME Shape, AllRead
    PROVE  \A m \in Sent : m.id \in Nat /\ m.email \in Emails /\ m.at \in Nat
<1>1. \A m \in world.mails : m.id \in Nat /\ m.email \in Emails /\ m.at \in Nat
    BY DEF Shape, WorldType
<1>2. ASSUME NEW p \in Requests, req[p].pc = "mail"
      PROVE  p \in Nat /\ req[p].target \in Emails /\ req[p].now \in Nat
    BY <1>2, IdFacts, ReqFields DEF Shape, AllRead, Reads
<1> QED BY <1>1, <1>2 DEF Sent

LEMMA SpacedKept ==
    ASSUME Spaced, Shape, AllRead, NEW p \in Requests, NEW r \in ReqType, req \in [Requests -> ReqType],
           Moves(p, r), Forward(p, r), world'.used = world.used,
           \A e \in Emails : /\ app'.challenge[e].created = app.challenge[e].created
                             /\ app.challenge[e] # NoChallenge => app'.challenge[e] # NoChallenge,
           world'.clock = world.clock, world'.mails = world.mails,
           r.pc = "mail" => req[p].pc = "mail" /\ r.target = req[p].target /\ r.now = req[p].now
    PROVE  Spaced'
<1>1. \A x : Coded(x) => Coded(x)'
    BY StillOver
<1>2. req'[p] = r /\ \A q \in Requests : q # p => req'[q] = req[q]
    BY MovesFacts
<1>3. Sent' \subseteq Sent
    BY <1>2 DEF Sent
<1>4. ASSUME NEW e \in Emails, NEW at PROVE Trail(e, at) => Trail(e, at)'
    BY DEF Trail
<1>5. \A m, n : Apart(m, n) => Apart(m, n)'
    BY DEF Apart
<1>6. \A m \in Sent : m.email \in Emails
    BY SentType
<1> QED BY <1>1, <1>3, <1>4, <1>5, <1>6 DEF Spaced

LEMMA GrantsKept ==
    ASSUME Grants, NEW p \in Requests, NEW r \in ReqType, req \in [Requests -> ReqType],
           Moves(p, r), Forward(p, r), world'.consumed = world.consumed,
           DOMAIN app'.users = DOMAIN app.users,
           \A u \in DOMAIN app.users : /\ app'.users[u].grant = app.users[u].grant
                                       /\ app'.users[u].claim = app.users[u].claim,
           r.pc \in Sends => req[p].pc \in Sends /\ r.seen = req[p].seen /\ r.user = req[p].user
    PROVE  Grants'
<1>1. \A x : Obtained(x) => Obtained(x)'
    BY StillOver
<1>2. req'[p] = r /\ \A q \in Requests : q # p => req'[q] = req[q]
    BY MovesFacts
<1>3. \A q \in Requests : req'[q].pc \in Sends =>
        req[q].pc \in Sends /\ req'[q].seen = req[q].seen /\ req'[q].user = req[q].user
    BY <1>2
<1> QED BY <1>1, <1>3 DEF Grants

LEMMA OnlyMoves ==
    ASSUME IdentityInv, NEW p \in Requests, NEW r \in ReqType, Moves(p, r), Forward(p, r), Reads(p, r)',
           UNCHANGED <<app, accounts, world>>,
           r.pc \in HoldsState => req[p].pc \in HoldsState /\ r.via = req[p].via,
           r.pc = "mail" => req[p].pc = "mail" /\ r.target = req[p].target /\ r.now = req[p].now,
           r.pc \in Sends => req[p].pc \in Sends /\ r.seen = req[p].seen /\ r.user = req[p].user
    PROVE  IdentityInv'
<1>1. req \in [Requests -> ReqType] /\ Shape /\ TypeOK
    BY DEF IdentityInv, Shape
<1>2. req' \in [Requests -> ReqType]
    BY <1>1, MovesFacts
<1>3. Shape'
    BY <1>1, <1>2 DEF Shape
<1>4. TypeOK'
    BY <1>1, <1>2, ReqFields DEF TypeOK
<1>5. Owners' /\ UsersGrow
    BY OwnersKept DEF IdentityInv
<1>6. Signed'
    BY SignedKept DEF IdentityInv
<1>7. Fresh'
    BY <1>1, FreshKept DEF IdentityInv
<1>8. AllRead'
    BY <1>1, <1>5, AllReadKept DEF IdentityInv
<1>9. StatesOnce'
    BY <1>1, StatesKept DEF IdentityInv
<1>10. CodesOnce'
    BY <1>1, CodesKept DEF IdentityInv
<1>11. Spaced'
    BY <1>1, SpacedKept DEF IdentityInv
<1>12. Grants'
    BY <1>1, GrantsKept DEF IdentityInv
<1> QED BY <1>3, <1>4, <1>5, <1>6, <1>7, <1>8, <1>9, <1>10, <1>11, <1>12 DEF IdentityInv

LEMMA FinishedReads ==
    ASSUME NEW p
    PROVE  Reads(p, Finished) /\ Reads(p, Finished)' /\ Finished.pc \notin HoldsState
           /\ Finished.pc # "mail" /\ Finished.pc \notin Sends
BY FinishedType DEF Reads, HoldsState, Sends

(* A request that gives up, or dies.                                         *)
LEMMA GivesUp ==
    ASSUME IdentityInv, NEW p \in Requests, req[p].pc # "done", Ended(p), UNCHANGED <<app, accounts, world>>
    PROVE  IdentityInv'
<1>1. Moves(p, Finished) /\ Forward(p, Finished)
    BY EndedMoves DEF IdentityInv, Shape
<1> QED BY <1>1, FinishedType, FinishedReads, OnlyMoves

-----------------------------------------------------------------------------
(* The steps, one by one.                                                    *)

LEMMA ReadStateKeeps ==
    ASSUME IdentityInv, NEW p \in Requests, ReadState(p)
    PROVE  IdentityInv'
<1>1. PICK c \in DOMAIN app.states :
        req' = [req EXCEPT ![p] = [@ EXCEPT !.pc = "consume", !.via = c,
                   !.kind = app.states[c].kind, !.session = app.states[c].session,
                   !.user = app.states[c].user]]
    BY DEF ReadState
<1>2. req[p] \in ReqType /\ req[p].pc = "new" /\ UNCHANGED <<app, accounts, world>>
    BY DEF IdentityInv, Shape, ReadState, Starts
<1>3. c \in Nat /\ app.states[c] \in StateType
    BY IdFacts DEF IdentityInv, Shape
<1>4. ASSUME NEW r, r = [req[p] EXCEPT !.pc = "consume", !.via = c,
                   !.kind = app.states[c].kind, !.session = app.states[c].session,
                   !.user = app.states[c].user]
      PROVE  IdentityInv'
    <2>1. r \in ReqType /\ r.pc = "consume"
        BY <1>2, <1>3, <1>4 DEF ReqType, StateType, Pcs
    <2>2. Moves(p, r) /\ Forward(p, r)
        BY <1>1, <1>2, <1>4, <2>1 DEF Moves, Forward
    <2>3. Reads(p, r)'
        BY <2>1 DEF Reads
    <2> QED BY <1>2, <2>1, <2>2, <2>3, OnlyMoves DEF HoldsState, Sends
<1> QED BY <1>4

LEMMA ExchangeKeeps ==
    ASSUME IdentityInv, NEW p \in Requests, Exchange(p)
    PROVE  IdentityInv'
<1>1. req[p] \in ReqType /\ req[p].pc = "exchange" /\ UNCHANGED <<app, accounts, world>> /\ TypeOK
    BY DEF IdentityInv, Shape, Exchange
<1>2. ASSUME NEW g \in Githubs, NEW u, NEW r,
             u = IF req[p].session # 0 THEN req[p].user ELSE LoginOwner(g),
             r = [req[p] EXCEPT !.target = g, !.user = u,
                            !.pc = IF req[p].session # 0 THEN "link" ELSE "login",
                            !.owner = app.github[g], !.seen = UserOf(u)],
             req' = [req EXCEPT ![p] = r]
      PROVE  IdentityInv'
    <2>1. app.github[g] \in UserIds \cup {0} /\ g \in Nat /\ LegacyUser(g) \in UserIds
        BY <1>1, IdFacts DEF TypeOK
    <2>2. u \in UserIds \cup {0} /\ UserOf(u) \in UserType
        BY <1>1, <1>2, <2>1, ReqFields, UserOfType DEF LoginOwner
    <2>3. r \in ReqType /\ r.pc \in {"link", "login"} /\ r.via = req[p].via
        BY <1>1, <1>2, <2>1, <2>2 DEF ReqType, Pcs
    <2>4. Moves(p, r) /\ Forward(p, r)
        BY <1>1, <1>2, <2>3 DEF Moves, Forward
    <2>5. Reads(p, r)'
        <3>1. r.target \in Githubs /\ (r.pc = "link" => r.session # 0)
              /\ (r.pc = "login" => r.session = 0)
            BY <1>1, <1>2 DEF ReqType
        <3>2. r.pc = "login" => r.user = IF r.owner # 0 THEN r.owner ELSE LegacyUser(r.target)
            BY <1>1, <1>2 DEF ReqType, LoginOwner
        <3> QED BY <2>3, <3>1, <3>2 DEF Reads
    <2> QED BY <1>1, <2>3, <2>4, <2>5, OnlyMoves DEF HoldsState, Sends
<1>3. CASE Ended(p)
    BY <1>1, <1>3, GivesUp
<1>4. CASE ~Ended(p)
    <2>1. PICK g \in Githubs :
            LET u == IF req[p].session # 0 THEN req[p].user ELSE LoginOwner(g)
            IN  req' = [req EXCEPT ![p] = [@ EXCEPT !.target = g, !.user = u,
                            !.pc = IF req[p].session # 0 THEN "link" ELSE "login",
                            !.owner = app.github[g], !.seen = UserOf(u)]]
        BY <1>4 DEF Exchange
    <2> QED BY <1>2, <2>1
<1> QED BY <1>3, <1>4

LEMMA RequestCodeKeeps ==
    ASSUME IdentityInv, NEW p \in Requests, RequestCode(p)
    PROVE  IdentityInv'
<1>1. /\ req[p] \in ReqType /\ req[p].pc = "new" /\ UNCHANGED <<app, accounts, world>>
      /\ TypeOK /\ Shape
    BY DEF IdentityInv, Shape, RequestCode, Starts
<1>2. PICK e \in Emails, s \in {0} \cup DOMAIN app.sessions :
        LET u == IF s = 0 THEN 0 ELSE app.sessions[s]
            c == app.challenge[e]
        IN  /\ c # NoChallenge => c.created + SendInterval <= world.clock
            /\ req' = [req EXCEPT ![p] = [@ EXCEPT !.pc = "code", !.target = e,
                          !.session = s, !.user = u, !.held = c, !.now = world.clock]]
    BY DEF RequestCode
<1>3. /\ e \in Nat /\ s \in Nat /\ (IF s = 0 THEN 0 ELSE app.sessions[s]) \in UserIds \cup {0}
      /\ app.challenge[e] \in ChallengeType /\ world.clock \in Nat
    BY <1>1, IdFacts DEF TypeOK, Shape, WorldType
<1>4. ASSUME NEW r, r = [req[p] EXCEPT !.pc = "code", !.target = e,
                          !.session = s, !.user = IF s = 0 THEN 0 ELSE app.sessions[s],
                          !.held = app.challenge[e], !.now = world.clock]
      PROVE  IdentityInv'
    <2>1. r \in ReqType /\ r.pc = "code"
        BY <1>1, <1>3, <1>4 DEF ReqType, Pcs
    <2>2. Moves(p, r) /\ Forward(p, r)
        BY <1>1, <1>2, <1>4, <2>1 DEF Moves, Forward
    <2>3. Reads(p, r)'
        <3>1. r.target = e /\ r.held = app.challenge[e] /\ r.now = world.clock
            BY <1>1, <1>4 DEF ReqType
        <3> QED BY <1>1, <1>2, <1>3, <2>1, <3>1, IdentityAssumption DEF Reads
    <2> QED BY <1>1, <2>1, <2>2, <2>3, OnlyMoves DEF HoldsState, Sends
<1> QED BY <1>4

LEMMA VerifyKeeps ==
    ASSUME IdentityInv, NEW p \in Requests, Verify(p)
    PROVE  IdentityInv'
<1>1. /\ req[p] \in ReqType /\ req[p].pc = "new" /\ UNCHANGED <<app, accounts, world>>
      /\ TypeOK /\ Shape
    BY DEF IdentityInv, Shape, Verify, Starts
<1>2. PICK e \in Emails, right \in BOOLEAN :
         LET c == app.challenge[e]
             linking == c.session # 0
             owner == app.email[e]
             u == IF linking THEN c.user ELSE IF owner # 0 THEN owner ELSE p
             taken == linking /\ (UserOf(u).email \notin {0, e} \/ owner \notin {0, u})
         IN  /\ Answerable(c)
             /\ right /\ ~taken /\ owner # 0 => UserOf(owner).email = e
             /\ req' = [req EXCEPT ![p] = [@ EXCEPT
                          !.pc = IF ~right THEN "wrong" ELSE IF taken THEN "taken" ELSE "enter",
                          !.target = e, !.session = c.session, !.user = u, !.owner = owner,
                          !.seen = UserOf(u), !.held = c, !.via = c.id]]
    BY DEF Verify
<1>3. ASSUME NEW c, NEW owner, NEW u, NEW taken, NEW pc, NEW r,
             c = app.challenge[e], owner = app.email[e],
             u = IF c.session # 0 THEN c.user ELSE IF owner # 0 THEN owner ELSE p,
             taken = (c.session # 0 /\ (UserOf(u).email \notin {0, e} \/ owner \notin {0, u})),
             pc = IF ~right THEN "wrong" ELSE IF taken THEN "taken" ELSE "enter",
             r = [req[p] EXCEPT !.pc = pc, !.target = e, !.session = c.session, !.user = u,
                                !.owner = owner, !.seen = UserOf(u), !.held = c, !.via = c.id]
      PROVE  IdentityInv'
    <2>1. /\ e \in Nat /\ c \in ChallengeType /\ owner \in UserIds \cup {0}
          /\ p \in UserIds /\ p # 0
        BY <1>1, <1>3, IdFacts DEF TypeOK
    <2>2. c.id \in Nat /\ c.session \in Nat /\ c.user \in UserIds \cup {0}
        BY <2>1 DEF ChallengeType
    <2>3. u \in UserIds \cup {0} /\ UserOf(u) \in UserType
        BY <1>1, <1>3, <2>1, <2>2, UserOfType
    <2>4. r \in ReqType /\ r.pc \in {"wrong", "taken", "enter"}
        <3>1. pc \in {"wrong", "taken", "enter"} /\ pc \in Pcs
            BY <1>3 DEF Pcs
        <3>2. r = [pc |-> pc, now |-> req[p].now, via |-> c.id, kind |-> req[p].kind,
                   session |-> c.session, user |-> u, target |-> e, owner |-> owner,
                   seen |-> UserOf(u), held |-> c]
            BY <1>1, <1>3 DEF ReqType
        <3>3. req[p].now \in Nat /\ req[p].kind \in {"login", "install"}
            BY <1>1, ReqFields
        <3> QED BY <2>1, <2>2, <2>3, <3>1, <3>2, <3>3 DEF ReqType
    <2>5. Moves(p, r) /\ Forward(p, r)
        BY <1>1, <1>2, <1>3, <2>4 DEF Moves, Forward
    <2>6. /\ r.target = e /\ r.session = c.session /\ r.user = u /\ r.owner = owner
          /\ r.seen = UserOf(u) /\ r.held = c /\ r.via = c.id
          /\ r.pc = IF ~right THEN "wrong" ELSE IF taken THEN "taken" ELSE "enter"
        BY <1>1, <1>3 DEF ReqType
    <2>7. ~Has(p) /\ UserOf(p).email = 0
        BY <1>1, UserOfType DEF IdentityInv, Fresh, Over, Has, NoUser
    <2>8. Answerable(c) /\ (right /\ ~taken /\ owner # 0 => UserOf(owner).email = e)
        BY <1>2, <1>3
    <2>9. r.pc = "enter" =>
            /\ r.seen.email \in {0, r.target}
            /\ r.session # 0 => r.owner \in {0, r.user}
            /\ r.session = 0 => r.user = IF r.owner # 0 THEN r.owner ELSE p
        <3>1. pc = "enter" => right /\ ~taken
            BY <1>3
        <3>2. r.pc = pc
            BY <1>3, <2>6
        <3>3. ASSUME r.pc = "enter", c.session # 0
              PROVE  UserOf(u).email \in {0, e} /\ owner \in {0, u}
            BY <1>3, <3>1, <3>2, <3>3
        <3>4. ASSUME r.pc = "enter", c.session = 0
              PROVE  UserOf(u).email \in {0, e} /\ u = IF owner # 0 THEN owner ELSE p
            BY <1>3, <2>7, <2>8, <3>1, <3>2, <3>4
        <3> QED BY <2>6, <3>3, <3>4
    <2>10. Reads(p, r)'
        BY <2>4, <2>6, <2>8, <2>9 DEF Reads, Answerable
    <2> QED BY <1>1, <2>4, <2>5, <2>10, OnlyMoves DEF HoldsState, Sends
<1> QED BY <1>3

LEMMA RefreshKeeps ==
    ASSUME IdentityInv, NEW p \in Requests, Refresh(p)
    PROVE  IdentityInv'
<1>1. /\ req[p] \in ReqType /\ req[p].pc = "new" /\ UNCHANGED <<app, accounts, world>>
      /\ TypeOK /\ Shape
    BY DEF IdentityInv, Shape, Refresh, Starts
<1>2. PICK s \in DOMAIN app.sessions :
         LET u == UserOf(app.sessions[s])
         IN  /\ u.github # 0 /\ u.grant # 0 /\ u.claim = 0
             /\ req' = [req EXCEPT ![p] = [@ EXCEPT !.pc = "claim", !.session = s,
                          !.user = app.sessions[s], !.seen = u]]
    BY DEF Refresh
<1>3. /\ s \in Nat /\ s # 0 /\ app.sessions[s] \in UserIds
      /\ UserOf(app.sessions[s]) \in UserType
    BY <1>1, IdFacts, UserOfType DEF TypeOK, Shape
<1>4. ASSUME NEW r, r = [req[p] EXCEPT !.pc = "claim", !.session = s,
                          !.user = app.sessions[s], !.seen = UserOf(app.sessions[s])]
      PROVE  IdentityInv'
    <2>1. /\ r \in ReqType /\ r.pc = "claim" /\ r.session = s
          /\ r.seen = UserOf(app.sessions[s])
        BY <1>1, <1>3, <1>4 DEF ReqType, Pcs
    <2>2. Moves(p, r) /\ Forward(p, r)
        BY <1>1, <1>2, <1>4, <2>1 DEF Moves, Forward
    <2>3. Reads(p, r)'
        BY <1>2, <1>3, <2>1 DEF Reads
    <2> QED BY <1>1, <2>1, <2>2, <2>3, OnlyMoves DEF HoldsState, Sends
<1> QED BY <1>4

LEMMA DieKeeps ==
    ASSUME IdentityInv, NEW p \in Requests, Die(p)
    PROVE  IdentityInv'
BY GivesUp DEF Die

-----------------------------------------------------------------------------
(* States that are spent, and grants that are given.                         *)

LEMMA AppFields ==
    ASSUME Shape, NEW x
    PROVE  /\ [app EXCEPT !.users = x] =
                [users |-> x, sessions |-> app.sessions, states |-> app.states,
                 challenge |-> app.challenge, github |-> app.github, email |-> app.email]
           /\ [app EXCEPT !.sessions = x] =
                [users |-> app.users, sessions |-> x, states |-> app.states,
                 challenge |-> app.challenge, github |-> app.github, email |-> app.email]
           /\ [app EXCEPT !.states = x] =
                [users |-> app.users, sessions |-> app.sessions, states |-> x,
                 challenge |-> app.challenge, github |-> app.github, email |-> app.email]
           /\ [app EXCEPT !.challenge = x] =
                [users |-> app.users, sessions |-> app.sessions, states |-> app.states,
                 challenge |-> x, github |-> app.github, email |-> app.email]
<1> DEFINE A == [users |-> app.users, sessions |-> app.sessions, states |-> app.states,
                 challenge |-> app.challenge, github |-> app.github, email |-> app.email]
<1>1. app = A
    BY DEF Shape
<1>2. /\ [A EXCEPT !.users = x] =
                [users |-> x, sessions |-> app.sessions, states |-> app.states,
                 challenge |-> app.challenge, github |-> app.github, email |-> app.email]
      /\ [A EXCEPT !.sessions = x] =
                [users |-> app.users, sessions |-> x, states |-> app.states,
                 challenge |-> app.challenge, github |-> app.github, email |-> app.email]
    OBVIOUS
<1>3. /\ [A EXCEPT !.states = x] =
                [users |-> app.users, sessions |-> app.sessions, states |-> x,
                 challenge |-> app.challenge, github |-> app.github, email |-> app.email]
      /\ [A EXCEPT !.challenge = x] =
                [users |-> app.users, sessions |-> app.sessions, states |-> app.states,
                 challenge |-> x, github |-> app.github, email |-> app.email]
    OBVIOUS
<1> HIDE DEF A
<1> QED BY <1>1, <1>2, <1>3

LEMMA StateSpent ==
    ASSUME StatesOnce, Shape, ~world.twice, NEW p \in Requests, req[p].pc \in HoldsState,
           Moves(p, Finished), Forward(p, Finished), DOMAIN app'.states = DOMAIN app.states,
           world' = Spend("state", req[p].via)
    PROVE  /\ StatesOnce' /\ world' \in WorldType /\ ~world'.twice
           /\ world'.clock = world.clock /\ world'.used = world.used /\ world'.left = world.left
           /\ world'.mails = world.mails /\ world'.consumed = world.consumed
           /\ \A x \in world'.spent : x.kind = "code" => x \in world.spent
<1> DEFINE x0 == [kind |-> "state", id |-> req[p].via]
<1>1. x0 \notin world.spent /\ req[p].via \in UserIds /\ Over(req[p].via)
      /\ req[p].via \notin DOMAIN app.states
    BY DEF StatesOnce
<1>2. /\ world \in WorldType /\ req \in [Requests -> ReqType]
      /\ world' = [world EXCEPT !.spent = @ \cup {x0}, !.twice = @ \/ x0 \in world.spent]
    BY DEF Shape, Spend
<1>3. /\ world'.spent = world.spent \cup {x0} /\ world'.twice = (world.twice \/ x0 \in world.spent)
      /\ world'.clock = world.clock /\ world'.used = world.used /\ world'.left = world.left
      /\ world'.mails = world.mails /\ world'.consumed = world.consumed
    BY <1>2 DEF WorldType
<1>4. ~world'.twice
    BY <1>1, <1>3
<1>5. x0 \in [kind : {"state", "code"}, id : Nat]
    BY <1>1, IdFacts
<1>6. world' \in WorldType
    BY <1>2, <1>3, <1>4, <1>5 DEF WorldType
<1>7. x0.kind = "state" /\ x0.id = req[p].via
    OBVIOUS
<1>8. req'[p] = Finished /\ \A q \in Requests : q # p => req'[q] = req[q]
    BY <1>2, FinishedType, MovesFacts
<1>9. \A x : Over(x) => Over(x)'
    BY <1>2, FinishedType, StillOver
<1>10. StatesOnce'
    <2>1. \A c \in DOMAIN app'.states : [kind |-> "state", id |-> c] \notin world'.spent
        BY <1>1, <1>3 DEF StatesOnce
    <2>2. ASSUME NEW q \in Requests, req'[q].pc \in HoldsState
          PROVE  /\ req'[q].via \in UserIds /\ Over(req[q].via)'
                 /\ req'[q].via \notin DOMAIN app'.states
                 /\ [kind |-> "state", id |-> req'[q].via] \notin world'.spent
                 /\ \A k \in Requests \ {q} : req'[k].pc \in HoldsState => req'[k].via # req'[q].via
        <3>1. q # p /\ req'[q] = req[q] /\ req[q].via # req[p].via
            BY <1>8, <2>2, FinishedReads DEF StatesOnce
        <3>2. [kind |-> "state", id |-> req[q].via] \notin world'.spent
            BY <1>3, <2>2, <3>1 DEF StatesOnce
        <3>3. \A k \in Requests \ {q} : req'[k].pc \in HoldsState => k # p /\ req'[k] = req[k]
            BY <1>8, FinishedReads
        <3>4. /\ req[q].via \in UserIds /\ Over(req[q].via) /\ req[q].via \notin DOMAIN app.states
              /\ \A k \in Requests \ {q} : req[k].pc \in HoldsState => req[k].via # req[q].via
            BY <2>2, <3>1 DEF StatesOnce
        <3>5. Over(req[q].via)'
            BY <1>9, <3>1, <3>4 DEF Over
        <3> QED BY <1>3, <3>1, <3>2, <3>3, <3>4, <3>5
    <2>3. ASSUME NEW x \in world'.spent, x.kind = "state" PROVE Over(x.id)'
        <3>1. CASE x = x0
            BY <1>1, <1>7, <1>9, <3>1
        <3>2. CASE x \in world.spent
            <4>1. Over(x.id)
                BY <2>3, <3>2 DEF StatesOnce
            <4> QED BY <1>9, <4>1
        <3> QED BY <1>3, <3>1, <3>2
    <2> QED BY <2>1, <2>2, <2>3 DEF StatesOnce
<1>11. \A x \in world'.spent : x.kind = "code" => x \in world.spent
    BY <1>3, <1>7
<1> QED BY <1>3, <1>4, <1>6, <1>10, <1>11

\* A user receives the grant that this request has just obtained.
LEMMA GrantGiven ==
    ASSUME Grants, NEW p \in Requests, NEW r \in ReqType, req \in [Requests -> ReqType],
           Moves(p, r), Forward(p, r), ~Obtained(p), Obtained(p)', r.pc \notin Sends,
           world'.consumed = world.consumed, NEW u,
           DOMAIN app'.users = DOMAIN app.users \cup {u},
           app'.users[u].grant = p,
           \A v \in DOMAIN app.users : v # u => /\ app'.users[v].grant = app.users[v].grant
                                                /\ app'.users[v].claim = app.users[v].claim
    PROVE  Grants'
<1>1. \A x : Obtained(x) => Obtained(x)'
    BY StillOver
<1>2. req'[p] = r /\ \A q \in Requests : q # p => req'[q] = req[q]
    BY MovesFacts
<1>3. \A v \in DOMAIN app'.users : v # u =>
        /\ v \in DOMAIN app.users /\ app'.users[v].grant # p
        /\ app'.users[v].grant = app.users[v].grant /\ app'.users[v].claim = app.users[v].claim
    BY DEF Grants
<1>4. p \notin world.consumed
    BY DEF Grants
<1>5. \A q \in Requests : req'[q].pc \in Sends =>
        q # p /\ req'[q] = req[q] /\ req[q].seen.grant # p
    BY <1>2 DEF Grants
<1>6. \A v \in DOMAIN app'.users : Obtained(app.users[v].grant)'
    BY <1>1, <1>3 DEF Grants, Obtained
<1>7. \A v, w \in DOMAIN app'.users :
        app'.users[v].grant # 0 /\ app'.users[v].grant = app'.users[w].grant => v = w
    BY <1>3 DEF Grants
<1>8. \A v \in DOMAIN app'.users : app'.users[v].grant # 0 /\ app'.users[v].claim = 0
        => app'.users[v].grant \notin world'.consumed
    BY <1>3, <1>4 DEF Grants
<1>9. ASSUME NEW q \in Requests, req'[q].pc \in Sends
      PROVE  /\ Obtained(req[q].seen.grant)' /\ req'[q].seen.grant \notin world'.consumed
             /\ \A v \in DOMAIN app'.users : app'.users[v].grant = req'[q].seen.grant
                  => v = req'[q].user /\ app'.users[v].claim = q
             /\ \A k \in Requests \ {q} : req'[k].pc \in Sends
                  => req'[k].seen.grant # req'[q].seen.grant
    <2>1. q # p /\ req'[q] = req[q] /\ req[q].seen.grant # p /\ req[q].pc \in Sends
        BY <1>5, <1>9
    <2>2. /\ Obtained(req[q].seen.grant)' /\ req[q].seen.grant \notin world'.consumed
          /\ \A k \in Requests \ {q} : req'[k].pc \in Sends
                  => req'[k].seen.grant # req[q].seen.grant
        BY <1>1, <1>5, <2>1 DEF Grants, Obtained
    <2>3. \A v \in DOMAIN app'.users : app'.users[v].grant = req[q].seen.grant
                  => v = req[q].user /\ app'.users[v].claim = q
        BY <1>3, <2>1 DEF Grants
    <2> QED BY <2>1, <2>2, <2>3
<1> QED BY <1>1, <1>6, <1>7, <1>8, <1>9 DEF Grants

-----------------------------------------------------------------------------
(* GitHub.                                                                   *)

LEMMA AuthorizeKeeps ==
    ASSUME IdentityInv, NEW p \in Requests, Authorize(p)
    PROVE  IdentityInv'
<1>1. PICK kind \in {"login", "install"}, s \in {0} \cup DOMAIN app.sessions :
        app' = [app EXCEPT !.states =
                  Put(@, p, [kind |-> kind, session |-> s,
                             user |-> IF s = 0 THEN 0 ELSE app.sessions[s]])]
    BY DEF Authorize, WithState
<1> DEFINE st == [kind |-> kind, session |-> s, user |-> IF s = 0 THEN 0 ELSE app.sessions[s]]
<1>2. /\ req \in [Requests -> ReqType] /\ Shape /\ TypeOK /\ req[p].pc = "new"
      /\ UNCHANGED <<accounts, world>> /\ p \in UserIds
    BY IdFacts DEF IdentityInv, Shape, Authorize, Starts
<1>3. Moves(p, Finished) /\ Forward(p, Finished)
    BY <1>2, EndedMoves DEF Authorize
<1>4. st \in StateType
    BY <1>2, IdFacts DEF StateType, TypeOK, Shape
<1> HIDE DEF st
<1>5. app' = [users |-> app.users, sessions |-> app.sessions, states |-> Put(app.states, p, st),
              challenge |-> app.challenge, github |-> app.github, email |-> app.email]
    BY <1>1, <1>2, AppFields DEF st
<1>6. /\ app'.users = app.users /\ app'.sessions = app.sessions /\ app'.challenge = app.challenge
      /\ app'.github = app.github /\ app'.email = app.email
      /\ DOMAIN app'.states = DOMAIN app.states \cup {p} /\ app'.states[p] = st
      /\ \A c \in DOMAIN app.states : c # p => app'.states[c] = app.states[c]
    <2>1. /\ app'.users = app.users /\ app'.sessions = app.sessions /\ app'.challenge = app.challenge
          /\ app'.github = app.github /\ app'.email = app.email /\ app'.states = Put(app.states, p, st)
        BY <1>5
    <2> QED BY <2>1 DEF Put
<1>7. req' \in [Requests -> ReqType] /\ req'[p] = Finished
    BY <1>2, <1>3, MovesFacts, FinishedType
<1>8. TypeOK'
    BY <1>2, <1>6, <1>7, ReqFields DEF TypeOK
<1>9. Shape'
    BY <1>2, <1>4, <1>5, <1>6, <1>7 DEF Shape
<1>10. Owners' /\ UsersGrow
    BY <1>6, OwnersKept DEF IdentityInv
<1>11. Signed'
    BY <1>2, <1>6, SignedKept DEF IdentityInv
<1>12. Over(p)'
    BY <1>7, FinishedType DEF Over
<1>13. Fresh'
    BY <1>2, <1>3, <1>6, <1>12, FreshKept, FinishedType DEF IdentityInv
<1>14. AllRead'
    BY <1>2, <1>3, <1>10, AllReadKept, FinishedType, FinishedReads DEF IdentityInv
<1>15. StatesOnce'
    <2>1. \A x : Over(x) => Over(x)' /\ x # p
        BY <1>2, <1>3, StillOver, FinishedType
    <2>2. [kind |-> "state", id |-> p] \notin world.spent
        BY <2>1 DEF IdentityInv, StatesOnce
    <2>3. \A q \in Requests : req'[q].pc \in HoldsState => q # p /\ req'[q] = req[q]
        BY <1>2, <1>3, FinishedType, FinishedReads, MovesFacts
    <2>4. \A c \in DOMAIN app'.states : [kind |-> "state", id |-> c] \notin world'.spent
        BY <1>2, <1>6, <2>2 DEF IdentityInv, StatesOnce
    <2>5. ASSUME NEW q \in Requests, req'[q].pc \in HoldsState
          PROVE  /\ req'[q].via \in UserIds /\ Over(req[q].via)'
                 /\ req'[q].via \notin DOMAIN app'.states
                 /\ [kind |-> "state", id |-> req'[q].via] \notin world'.spent
                 /\ \A k \in Requests \ {q} : req'[k].pc \in HoldsState => req'[k].via # req'[q].via
        <3>1. /\ req'[q] = req[q] /\ req[q].via \in UserIds /\ Over(req[q].via)
              /\ req[q].via \notin DOMAIN app.states
              /\ [kind |-> "state", id |-> req[q].via] \notin world.spent
              /\ \A k \in Requests \ {q} : req[k].pc \in HoldsState => req[k].via # req[q].via
            BY <2>3, <2>5 DEF IdentityInv, StatesOnce
        <3>2. Over(req[q].via)' /\ req[q].via # p
            BY <2>1, <3>1 DEF Over
        <3> QED BY <1>2, <1>6, <2>3, <3>1, <3>2
    <2>6. \A x \in world'.spent : x.kind = "state" => Over(x.id)'
        BY <1>2, <2>1 DEF IdentityInv, StatesOnce
    <2> QED BY <2>4, <2>5, <2>6 DEF StatesOnce
<1>16. CodesOnce'
    BY <1>2, <1>3, <1>6, CodesKept, FinishedType DEF IdentityInv
<1>17. Spaced'
    BY <1>2, <1>3, <1>6, SpacedKept, FinishedType, FinishedReads DEF IdentityInv
<1>18. Grants'
    BY <1>2, <1>3, <1>6, GrantsKept, FinishedType, FinishedReads DEF IdentityInv
<1> QED BY <1>2, <1>8, <1>9, <1>10, <1>11, <1>13, <1>14, <1>15, <1>16, <1>17, <1>18 DEF IdentityInv

LEMMA ConsumeBy ==
    ASSUME IdentityInv, NEW p \in Requests, NEW r \in ReqType, Moves(p, r), Forward(p, r), Reads(p, r),
           req[p].pc = "consume", req[p].via \in DOMAIN app.states,
           app' = [app EXCEPT !.states = Drop(@, req[p].via)], UNCHANGED <<accounts, world>>,
           r.pc \in HoldsState => r.via = req[p].via, r.pc # "mail", r.pc \notin Sends
    PROVE  IdentityInv'
<1>1. req \in [Requests -> ReqType] /\ Shape /\ TypeOK
    BY DEF IdentityInv, Shape
<1>2. app' = [users |-> app.users, sessions |-> app.sessions, states |-> Drop(app.states, req[p].via),
              challenge |-> app.challenge, github |-> app.github, email |-> app.email]
    BY <1>1, AppFields
<1>3. /\ app'.users = app.users /\ app'.sessions = app.sessions /\ app'.challenge = app.challenge
      /\ app'.github = app.github /\ app'.email = app.email
      /\ DOMAIN app'.states = DOMAIN app.states \ {req[p].via}
      /\ \A c \in DOMAIN app.states : c # req[p].via => app'.states[c] = app.states[c]
    <2>1. /\ app'.users = app.users /\ app'.sessions = app.sessions /\ app'.challenge = app.challenge
          /\ app'.github = app.github /\ app'.email = app.email
          /\ app'.states = Drop(app.states, req[p].via)
        BY <1>2
    <2> QED BY <2>1 DEF Drop
<1>4. /\ req' \in [Requests -> ReqType] /\ req'[p] = r
      /\ \A q \in Requests : q # p => req'[q] = req[q]
    BY <1>1, MovesFacts
<1>5. TypeOK'
    BY <1>1, <1>3, <1>4, ReqFields DEF TypeOK
<1>6. Shape'
    BY <1>1, <1>2, <1>3, <1>4 DEF Shape
<1>7. Owners' /\ UsersGrow
    BY <1>3, OwnersKept DEF IdentityInv
<1>8. Signed'
    BY <1>3, SignedKept DEF IdentityInv
<1>9. Fresh'
    BY <1>1, <1>3, FreshKept DEF IdentityInv
<1>10. Reads(p, r)'
    BY <1>1, <1>7, StillReads
<1>11. AllRead'
    BY <1>1, <1>7, <1>10, AllReadKept DEF IdentityInv
<1>12. StatesOnce'
    <2>1. \A x : Over(x) => Over(x)'
        BY <1>1, StillOver
    <2>2. /\ req[p].via \in UserIds /\ Over(req[p].via)
          /\ [kind |-> "state", id |-> req[p].via] \notin world.spent
        BY <1>1 DEF IdentityInv, StatesOnce, Shape, Fresh
    <2>3. \A q \in Requests \ {p} : req[q].pc \in HoldsState =>
            /\ req[q].via \in UserIds /\ Over(req[q].via) /\ req[q].via \notin DOMAIN app.states
            /\ [kind |-> "state", id |-> req[q].via] \notin world.spent
            /\ req[q].via # req[p].via
            /\ \A k \in Requests \ {q} : req[k].pc \in HoldsState => req[k].via # req[q].via
        BY DEF IdentityInv, StatesOnce
    <2>4. ASSUME NEW q \in Requests, req'[q].pc \in HoldsState
          PROVE  /\ req'[q].via \in UserIds /\ Over(req[q].via)'
                 /\ req'[q].via \notin DOMAIN app'.states
                 /\ [kind |-> "state", id |-> req'[q].via] \notin world'.spent
                 /\ \A k \in Requests \ {q} : req'[k].pc \in HoldsState => req'[k].via # req'[q].via
        <3>1. CASE q = p
            <4>1. req'[q].via = req[p].via
                BY <1>4, <2>4, <3>1
            <4>2. Over(req[q].via)'
                BY <2>1, <2>2, <4>1 DEF Over
            <4> QED BY <1>3, <1>4, <2>2, <2>3, <3>1, <4>1, <4>2
        <3>2. CASE q # p
            <4>1. req'[q] = req[q] /\ req[q].pc \in HoldsState
                BY <1>4, <2>4, <3>2
            <4>2. Over(req[q].via)'
                BY <2>1, <2>3, <3>2, <4>1 DEF Over
            <4> QED BY <1>3, <1>4, <2>3, <3>2, <4>1, <4>2
        <3> QED BY <3>1, <3>2
    <2>5. \A x \in world'.spent : x.kind = "state" => Over(x.id)'
        BY <2>1 DEF IdentityInv, StatesOnce
    <2>6. \A c \in DOMAIN app'.states : [kind |-> "state", id |-> c] \notin world'.spent
        BY <1>3 DEF IdentityInv, StatesOnce
    <2> QED BY <2>4, <2>5, <2>6 DEF StatesOnce
<1>13. CodesOnce'
    BY <1>1, <1>3, CodesKept DEF IdentityInv
<1>14. Spaced'
    BY <1>1, <1>3, SpacedKept DEF IdentityInv
<1>15. Grants'
    BY <1>1, <1>3, GrantsKept DEF IdentityInv
<1> QED BY <1>5, <1>6, <1>7, <1>8, <1>9, <1>11, <1>12, <1>13, <1>14, <1>15 DEF IdentityInv

LEMMA ConsumeKeeps ==
    ASSUME IdentityInv, NEW p \in Requests, Consume(p)
    PROVE  IdentityInv'
<1>1. /\ req[p] \in ReqType /\ req[p].pc = "consume" /\ UNCHANGED <<accounts, world>>
      /\ TypeOK /\ Shape /\ req \in [Requests -> ReqType]
    BY DEF IdentityInv, Shape, Consume
<1>2. CASE req[p].via \notin DOMAIN app.states
    BY <1>1, <1>2, GivesUp DEF Consume
<1>3. CASE req[p].via \in DOMAIN app.states
    <2>1. app' = [app EXCEPT !.states = Drop(@, req[p].via)] /\ AfterConsume(p)
        BY <1>3 DEF Consume
    <2>2. CASE Ended(p)
        <3>1. Moves(p, Finished) /\ Forward(p, Finished)
            BY <1>1, <2>2, EndedMoves
        <3> QED BY <1>1, <1>3, <2>1, <3>1, ConsumeBy, FinishedType, FinishedReads
    <2>3. ASSUME NEW r, r = [req[p] EXCEPT !.pc = "exchange"], req' = [req EXCEPT ![p] = r]
          PROVE  IdentityInv'
        <3>1. r \in ReqType /\ r.pc = "exchange" /\ r.via = req[p].via
            BY <1>1, <2>3 DEF ReqType, Pcs
        <3>2. Moves(p, r) /\ Forward(p, r) /\ Reads(p, r)
            BY <1>1, <2>3, <3>1 DEF Moves, Forward, Reads
        <3> QED BY <1>1, <1>3, <2>1, <3>1, <3>2, ConsumeBy DEF Sends
    <2>4. ASSUME NEW r, r = [req[p] EXCEPT !.pc = "install", !.seen = UserOf(req[p].user)],
                 UserOf(req[p].user).github # 0, req' = [req EXCEPT ![p] = r]
          PROVE  IdentityInv'
        <3>1. UserOf(req[p].user) \in UserType
            BY <1>1, UserOfType
        <3>2. /\ r \in ReqType /\ r.pc = "install" /\ r.via = req[p].via
              /\ r.seen = UserOf(req[p].user)
            BY <1>1, <2>4, <3>1 DEF ReqType, Pcs
        <3>3. Moves(p, r) /\ Forward(p, r) /\ Reads(p, r)
            BY <1>1, <2>4, <3>2 DEF Moves, Forward, Reads
        <3> QED BY <1>1, <1>3, <2>1, <3>2, <3>3, ConsumeBy DEF Sends
    <2>5. \/ Ended(p) \/ req' = [req EXCEPT ![p].pc = "exchange"]
          \/ /\ UserOf(req[p].user).github # 0
             /\ req' = [req EXCEPT ![p].pc = "install", ![p].seen = UserOf(req[p].user)]
        BY <2>1 DEF AfterConsume
    <2>6. /\ [req EXCEPT ![p].pc = "exchange"] = [req EXCEPT ![p] = [req[p] EXCEPT !.pc = "exchange"]]
          /\ req' = [req EXCEPT ![p].pc = "install", ![p].seen = UserOf(req[p].user)] =>
               req' = [req EXCEPT ![p] = [req[p] EXCEPT !.pc = "install", !.seen = UserOf(req[p].user)]]
        BY <1>1
    <2> QED BY <2>2, <2>3, <2>4, <2>5, <2>6
<1> QED BY <1>2, <1>3

\* A user who owns g, or whom nobody precedes, receives the identity g.
LEMMA OwnersGithub ==
    ASSUME TypeOK, Owners, NEW g \in Githubs, NEW u \in UserIds, app'.email = app.email,
           DOMAIN app'.users = DOMAIN app.users \cup {u},
           \A v \in DOMAIN app.users : v # u => app'.users[v] = app.users[v],
           app'.users[u].github = g, app'.users[u].email = UserOf(u).email,
           UserOf(u).github \in {0, g}, ~Has(u) => u = LegacyUser(g),
           app.github[g] \in {0, u}, app.github[g] = 0 => u = LegacyUser(g) \/ ~Has(LegacyUser(g)),
           \A k \in Githubs : k # g => app'.github[k] = app.github[k],
           app'.github[g] = u \/ (app'.github[g] = 0 /\ u = LegacyUser(g))
    PROVE  Owners' /\ UsersGrow /\ Binds(<<"github", g>>, u)
<1>1. /\ UsersGrow /\ (Has(u) => UserOf(u) = app.users[u]) /\ Has(u)'
      /\ (~Has(u) => UserOf(u) = NoUser) /\ u # 0 /\ g # 0
    BY IdFacts DEF UsersGrow, UserOf, Has
<1>2. \A v : Has(v)' <=> Has(v) \/ v = u
    BY DEF Has
<1>3. \A k \in Githubs : k # g => UserOf(LegacyUser(k))'.github = UserOf(LegacyUser(k)).github
    <2>1. ASSUME NEW k \in Githubs, k # g, LegacyUser(k) = u PROVE FALSE
        <3>1. u # LegacyUser(g)
            BY <2>1, IdFacts
        <3>2. Has(u) /\ app.users[u].github = k
            BY <2>1, <3>1 DEF Owners
        <3> QED BY <1>1, <2>1, <3>2, IdFacts
    <2> QED BY <1>2, <2>1 DEF UserOf, Has
<1>4. GithubOwner(g)' = u
    BY <1>1 DEF GithubOwner, UserOf
<1>5. \A k \in Githubs : k # g => GithubOwner(k)' = GithubOwner(k)
    BY <1>3 DEF GithubOwner
<1>6. ASSUME NEW v \in DOMAIN app'.users, app'.users[v].github # 0
      PROVE  GithubOwner(app.users[v].github)' = v
    <2>1. CASE v = u
        BY <1>4, <2>1 DEF GithubOwner, UserOf, Has
    <2>2. CASE v # u
        <3>1. /\ v \in DOMAIN app.users /\ app'.users[v] = app.users[v]
              /\ GithubOwner(app.users[v].github) = v /\ app.users[v].github \in Githubs
            BY <1>6, <2>2, UserFields DEF Owners, TypeOK
        <3>2. app.users[v].github # g
            <4>1. GithubOwner(g) \in {u, 0} \/ ~Has(LegacyUser(g))
                BY DEF GithubOwner
            <4>2. ~Has(LegacyUser(g)) => GithubOwner(g) \in {u, 0}
                BY <1>1 DEF GithubOwner, UserOf, NoUser
            <4>3. v # 0
                BY <3>1, IdFacts DEF TypeOK
            <4> QED BY <2>2, <3>1, <4>1, <4>2, <4>3
        <3>3. GithubOwner(app.users[v].github)' = GithubOwner(app.users[v].github)
            BY <1>5, <3>1, <3>2 DEF GithubOwner, UserOf, Has
        <3> QED BY <3>1, <3>3
    <2> QED BY <2>1, <2>2
<1>7. ASSUME NEW k \in Githubs, app'.github[k] # 0
      PROVE  app'.github[k] \in DOMAIN app'.users /\ app'.users[app'.github[k]].github = k
    <2>1. CASE k = g
        BY <1>7, <2>1
    <2>2. CASE k # g
        <3>1. app.github[k] \in DOMAIN app.users /\ app.users[app.github[k]].github = k
            BY <1>7, <2>2 DEF Owners, Has
        <3>2. app.github[k] # u
            BY <1>1, <2>2, <3>1, IdFacts DEF Has
        <3> QED BY <2>2, <3>1, <3>2
    <2> QED BY <2>1, <2>2
<1>8. ASSUME NEW k \in Githubs, LegacyUser(k) \in DOMAIN app'.users
      PROVE  app'.users[LegacyUser(k)].github = k
    <2>1. CASE LegacyUser(k) # u
        BY <1>8, <2>1 DEF Owners, Has
    <2>2. CASE LegacyUser(k) = u
        <3>1. k = g
            BY <1>1, <2>2, IdFacts DEF Owners
        <3> QED BY <2>2, <3>1
    <2> QED BY <2>1, <2>2
<1>9. \A v \in DOMAIN app'.users : app'.users[v].email # 0 => app'.email[app'.users[v].email] = v
    BY <1>1 DEF Owners, Has, NoUser
<1>10. \A e \in Emails : app'.email[e] # 0 =>
        app'.email[e] \in DOMAIN app'.users /\ app'.users[app'.email[e]].email = e
    BY <1>1 DEF Owners, Has
<1>11. Binds(<<"github", g>>, u)
    <2>1. GithubOwner(g) \in {0, u}
        BY <1>1 DEF GithubOwner, UserOf, NoUser
    <2>2. <<"github", g>> \in Ids /\ Owner[<<"github", g>>] = GithubOwner(g)
        BY DEF Ids, Owner
    <2>3. \A i \in Ids : Owner'[i] = IF i = <<"github", g>> THEN u ELSE Owner[i]
        BY <1>4, <1>5 DEF Ids, Owner
    <2>4. Owner = [i \in Ids |-> Owner[i]] /\ Owner' = [i \in Ids |-> Owner'[i]]
        BY DEF Owner
    <2> QED BY <2>1, <2>2, <2>3, <2>4 DEF Binds
<1> QED BY <1>1, <1>6, <1>7, <1>8, <1>9, <1>10, <1>11 DEF Owners, Has

\* What a login or a link saves in the user.
LEMMA GrantedUser ==
    ASSUME NEW p \in Requests, req[p] \in ReqType, req[p].target \in Githubs
    PROVE  /\ Granted(p) \in UserType /\ Granted(p).github = req[p].target
           /\ Granted(p).email = req[p].seen.email /\ Granted(p).grant = p /\ Granted(p).claim = 0
<1>1. req[p].seen \in UserType /\ p \in Nat
    BY ReqFields, IdFacts
<1> QED BY <1>1 DEF Granted, UserType

LEMMA LoginKeeps ==
    ASSUME IdentityInv, NEW p \in Requests, Login(p)
    PROVE  IdentityInv' /\ Refines
<1>1. /\ req \in [Requests -> ReqType] /\ Shape /\ TypeOK /\ req[p].pc = "login"
      /\ UNCHANGED <<accounts, world>> /\ req[p] \in ReqType /\ Reads(p, req[p]) /\ Owners
    BY DEF IdentityInv, Shape, Login, AllRead
<1>2. ASSUME NEW u, NEW g, NEW x, NEW r, u = req[p].user, g = req[p].target, x = Granted(p),
             UserOf(u) = req[p].seen, app.github[g] = req[p].owner,
             r = [req[p] EXCEPT !.pc = "account"]
      PROVE  IdentityInv' /\ Refines
    <2>1. /\ app' = [app EXCEPT !.users = Put(@, u, x)]
          /\ req' = [req EXCEPT ![p] = r]
        BY <1>1, <1>2 DEF Login
    <2>2. /\ req[p].session = 0 /\ g \in Githubs /\ g # 0
          /\ u = IF req[p].owner # 0 THEN req[p].owner ELSE LegacyUser(g)
        BY <1>1, <1>2, IdFacts DEF Reads
    <2>3. /\ x \in UserType /\ x.github = g /\ x.email = UserOf(u).email
          /\ x.grant = p /\ x.claim = 0
        BY <1>1, <1>2, <2>2, GrantedUser
    <2>4. app' = [users |-> Put(app.users, u, x), sessions |-> app.sessions,
                  states |-> app.states, challenge |-> app.challenge, github |-> app.github,
                  email |-> app.email]
        BY <1>1, <2>1, AppFields
    <2>5. /\ app'.sessions = app.sessions /\ app'.states = app.states
          /\ app'.challenge = app.challenge /\ app'.github = app.github /\ app'.email = app.email
          /\ DOMAIN app'.users = DOMAIN app.users \cup {u} /\ app'.users[u] = x
          /\ \A v \in DOMAIN app.users : v # u => app'.users[v] = app.users[v]
          /\ app'.users = [v \in DOMAIN app'.users |-> app'.users[v]]
        <3>1. /\ app'.sessions = app.sessions /\ app'.states = app.states
              /\ app'.challenge = app.challenge /\ app'.github = app.github /\ app'.email = app.email
              /\ app'.users = Put(app.users, u, x)
            BY <2>4
        <3> QED BY <3>1 DEF Put
    \* The user the mapping names, or the legacy one, has this identity already.
    <2>6. /\ app.github[g] # 0 => app.github[g] = u /\ Has(u)
          /\ app.github[g] = 0 => u = LegacyUser(g)
          /\ Has(u) => UserOf(u) = app.users[u] /\ app.users[u].github = g
          /\ ~Has(u) => UserOf(u) = NoUser
        BY <1>1, <1>2, <2>2 DEF Owners, UserOf
    <2>7. u \in UserIds /\ UserOf(u).github \in {0, g} /\ (~Has(u) => UserOf(u).email = 0)
        BY <1>1, <2>2, <2>6, IdFacts DEF TypeOK, Has, NoUser
    <2>8. /\ r \in ReqType /\ r.pc = "account" /\ r.session = 0 /\ r.via = req[p].via
          /\ r.user = u /\ r.target = g
        BY <1>1, <1>2, <2>2 DEF ReqType, Pcs
    <2>9. Moves(p, r) /\ Forward(p, r)
        BY <1>1, <1>2, <2>1, <2>8 DEF Moves, Forward
    <2>10. req' \in [Requests -> ReqType] /\ req'[p] = r /\ (\A y : Over(y) => Over(y)')
        BY <1>1, <2>8, <2>9, MovesFacts, StillOver
    <2>11. TypeOK'
        BY <1>1, <2>3, <2>5, <2>7, <2>10, ReqFields DEF TypeOK
    <2>12. Shape'
        BY <1>1, <2>4, <2>5, <2>10 DEF Shape
    <2>13. Owners' /\ UsersGrow /\ Binds(<<"github", g>>, u)
        BY <1>1, <2>2, <2>3, <2>5, <2>6, <2>7, OwnersGithub
    <2>14. Signed'
        BY <1>1, <2>3, <2>5, <2>6, <2>7 DEF IdentityInv, Signed, Has
    <2>15. Over(u)
        <3>1. Has(u) => Over(u)
            BY DEF IdentityInv, Fresh, Has
        <3>2. u = LegacyUser(g) => u \notin Requests
            BY <2>2, IdFacts
        <3> QED BY <2>6, <3>1, <3>2 DEF Over
    <2>16. Fresh'
        BY <1>1, <2>5, <2>10, <2>15 DEF IdentityInv, Fresh
    <2>17. Reads(p, r)'
        BY <2>2, <2>3, <2>5, <2>8 DEF Reads, Has
    <2>18. AllRead'
        BY <1>1, <2>8, <2>9, <2>13, <2>17, AllReadKept DEF IdentityInv
    <2>19. StatesOnce'
        BY <1>1, <2>5, <2>8, <2>9, StatesKept DEF IdentityInv, HoldsState
    <2>20. CodesOnce'
        BY <1>1, <2>5, <2>8, <2>9, CodesKept DEF IdentityInv
    <2>21. Spaced'
        BY <1>1, <2>5, <2>8, <2>9, SpacedKept DEF IdentityInv
    <2>22. Grants'
        <3>1. ~Obtained(p) /\ Obtained(p)' /\ r.pc \notin Sends
            BY <1>1, <2>8, <2>10 DEF Obtained, Sends
        <3> QED BY <1>1, <2>3, <2>5, <2>8, <2>9, <3>1, GrantGiven DEF IdentityInv
    <2>23. Refines
        BY <1>1, <2>2, <2>5, <2>7, <2>13, LearnsAtMost DEF Ids, Issued
    <2> QED BY <1>1, <2>23, <2>11, <2>12, <2>13, <2>14, <2>16, <2>18, <2>19, <2>20, <2>21, <2>22
            DEF IdentityInv
<1>3. CASE UserOf(req[p].user) = req[p].seen /\ app.github[req[p].target] = req[p].owner
    BY <1>2, <1>3
<1>4. CASE ~(UserOf(req[p].user) = req[p].seen /\ app.github[req[p].target] = req[p].owner)
    BY <1>1, <1>4, GivesUp, OnlyReads DEF Login
<1> QED BY <1>3, <1>4

LEMMA LinkKeeps ==
    ASSUME IdentityInv, NEW p \in Requests, Link(p)
    PROVE  IdentityInv' /\ Refines
<1>1. /\ req \in [Requests -> ReqType] /\ Shape /\ TypeOK /\ req[p].pc = "link" /\ Ended(p)
      /\ UNCHANGED accounts /\ req[p] \in ReqType /\ Reads(p, req[p]) /\ Owners /\ Signed
    BY DEF IdentityInv, Shape, Link, AllRead
<1>2. ASSUME NEW u, NEW g, NEW x, u = req[p].user, g = req[p].target, x = Granted(p), LinkAllowed(p)
      PROVE  IdentityInv' /\ Refines
    <2>1. /\ app' = [app EXCEPT !.github[g] = u, !.users[u] = x]
          /\ world' = Spend("state", req[p].via)
        BY <1>2 DEF Link
    <2>2. /\ UserOf(u) = req[p].seen /\ app.github[g] \in {0, u} /\ req[p].seen.github \in {0, g}
          /\ LegacyUser(g) = u \/ ~Has(LegacyUser(g))
          /\ Live(req[p].session, u) /\ g \in Githubs /\ g # 0
        BY <1>1, <1>2, IdFacts DEF LinkAllowed, Reads
    <2>3. Has(u) /\ u \in UserIds /\ UserOf(u) = app.users[u]
        BY <1>1, <2>2 DEF Live, Signed, Has, TypeOK, UserOf
    <2>4. /\ x \in UserType /\ x.github = g /\ x.email = UserOf(u).email
          /\ x.grant = p /\ x.claim = 0
        BY <1>1, <1>2, <2>2, GrantedUser
    <2>5. app' = [users |-> [app.users EXCEPT ![u] = x], sessions |-> app.sessions,
                  states |-> app.states, challenge |-> app.challenge,
                  github |-> [app.github EXCEPT ![g] = u], email |-> app.email]
        BY <1>1, <2>1 DEF Shape
    <2>6. /\ app'.sessions = app.sessions /\ app'.states = app.states
          /\ app'.challenge = app.challenge /\ app'.email = app.email
          /\ app'.github = [app.github EXCEPT ![g] = u] /\ app'.users = [app.users EXCEPT ![u] = x]
        BY <2>5
    <2>7. /\ DOMAIN app'.users = DOMAIN app.users /\ app'.users[u] = x
          /\ \A v \in DOMAIN app.users : v # u => app'.users[v] = app.users[v]
          /\ app'.users = [v \in DOMAIN app'.users |-> app'.users[v]]
        BY <1>1, <2>3, <2>6 DEF Shape, Has
    <2>8. /\ app'.github \in [Githubs -> UserIds \cup {0}] /\ app'.github[g] = u
          /\ \A k \in Githubs : k # g => app'.github[k] = app.github[k]
        BY <1>1, <2>2, <2>3, <2>6 DEF TypeOK
    <2>9. Moves(p, Finished) /\ Forward(p, Finished) /\ req[p].pc \in HoldsState
        BY <1>1, EndedMoves DEF HoldsState
    <2>10. /\ req' \in [Requests -> ReqType] /\ req'[p] = Finished
           /\ \A y : Over(y) => Over(y)'
        BY <1>1, <2>9, FinishedType, MovesFacts, StillOver
    <2>11. /\ StatesOnce' /\ world' \in WorldType /\ ~world'.twice
           /\ world'.clock = world.clock /\ world'.used = world.used /\ world'.left = world.left
           /\ world'.mails = world.mails /\ world'.consumed = world.consumed
           /\ \A y \in world'.spent : y.kind = "code" => y \in world.spent
        BY <1>1, <2>1, <2>6, <2>9, StateSpent DEF IdentityInv
    <2>12. TypeOK'
        BY <1>1, <2>3, <2>4, <2>6, <2>7, <2>8, <2>10, ReqFields DEF TypeOK
    <2>13. Shape'
        BY <1>1, <2>5, <2>6, <2>7, <2>10, <2>11 DEF Shape
    <2>14. Owners' /\ UsersGrow /\ Binds(<<"github", g>>, u)
        BY <1>1, <2>2, <2>3, <2>4, <2>6, <2>7, <2>8, OwnersGithub DEF Has
    <2>15. Signed'
        BY <1>1, <2>3, <2>4, <2>6, <2>7, SignedKept
    <2>16. Fresh'
        BY <2>6, <2>7, <2>10, <2>11 DEF IdentityInv, Fresh
    <2>17. AllRead'
        BY <1>1, <2>9, <2>11, <2>14, FinishedType, FinishedReads, AllReadKept DEF IdentityInv
    <2>18. CodesOnce'
        BY <1>1, <2>6, <2>9, <2>11, CodesKept, FinishedType DEF IdentityInv
    <2>19. Spaced'
        BY <1>1, <2>6, <2>9, <2>11, SpacedKept, FinishedType, FinishedReads DEF IdentityInv
    <2>20. Grants'
        <3>1. ~Obtained(p) /\ Obtained(p)'
            BY <1>1, <2>10, FinishedType DEF Obtained
        <3>2. DOMAIN app'.users = DOMAIN app.users \cup {u}
            BY <2>3, <2>7 DEF Has
        <3> QED BY <1>1, <2>4, <2>7, <2>9, <2>11, <3>1, <3>2, GrantGiven, FinishedType, FinishedReads
                DEF IdentityInv
    <2>21. Refines
        BY <1>1, <2>2, <2>3, <2>6, <2>11, <2>14, LearnsAtMost DEF Ids, Issued
    <2> QED BY <2>21, <2>11, <2>12, <2>13, <2>14, <2>15, <2>16, <2>17, <2>18, <2>19, <2>20 DEF IdentityInv
<1>3. CASE LinkAllowed(p)
    BY <1>2, <1>3
<1>4. CASE ~LinkAllowed(p)
    BY <1>1, <1>4, GivesUp, OnlyReads DEF Link
<1> QED BY <1>3, <1>4

\* Whoever has an identity is known by it.
LEMMA OwnerOf ==
    ASSUME Owners, NEW u, NEW g \in Githubs, Has(u), app.users[u].github = g
    PROVE  <<"github", g>> \in Ids /\ Owner[<<"github", g>>] = u
<1>1. GithubOwner(g) = u
    BY IdFacts DEF Owners, Has
<1> QED BY <1>1 DEF Owner, Ids

LEMMA OpenAccountKeeps ==
    ASSUME IdentityInv, NEW p \in Requests, OpenAccount(p)
    PROVE  IdentityInv' /\ Refines
<1>1. /\ req \in [Requests -> ReqType] /\ Shape /\ TypeOK /\ req[p].pc = "account"
      /\ UNCHANGED <<app, world>> /\ req[p] \in ReqType /\ Reads(p, req[p])
      /\ accounts' = accounts \cup {req[p].user}
    BY DEF IdentityInv, Shape, OpenAccount, AllRead
<1>2. ASSUME NEW r, r = [req[p] EXCEPT !.pc = "session"] PROVE IdentityInv' /\ Refines
    <2>1. /\ r \in ReqType /\ r.pc = "session" /\ r.via = req[p].via
          /\ r.session = 0 /\ r.target \in Githubs /\ r.user = req[p].user
          /\ Has(r.user) /\ app.users[r.user].github = r.target
        BY <1>1, <1>2 DEF ReqType, Pcs, Reads
    <2>2. Moves(p, r) /\ Forward(p, r)
        BY <1>1, <1>2, <2>1 DEF Moves, Forward, OpenAccount
    <2>3. req' \in [Requests -> ReqType] /\ req'[p] = r
        BY <1>1, <2>1, <2>2, MovesFacts
    <2>4. r.user \in UserIds
        BY <1>1, <2>1 DEF TypeOK, Has
    <2>5. TypeOK'
        BY <1>1, <2>1, <2>3, <2>4, ReqFields DEF TypeOK
    <2>6. Shape'
        BY <1>1, <2>3 DEF Shape
    <2>7. Owners' /\ UsersGrow
        BY <1>1, OwnersKept DEF IdentityInv
    <2>8. Signed'
        BY <1>1, <2>1 DEF IdentityInv, Signed, Has
    <2>9. Fresh'
        BY <1>1, <2>1, <2>2, FreshKept DEF IdentityInv
    <2>10. Reads(p, r)'
        BY <1>1, <2>1 DEF Reads, Has
    <2>11. AllRead'
        BY <1>1, <2>1, <2>2, <2>7, <2>10, AllReadKept DEF IdentityInv
    <2>12. StatesOnce'
        BY <1>1, <2>1, <2>2, StatesKept DEF IdentityInv, HoldsState
    <2>13. CodesOnce'
        BY <1>1, <2>1, <2>2, CodesKept DEF IdentityInv
    <2>14. Spaced'
        BY <1>1, <2>1, <2>2, SpacedKept DEF IdentityInv
    <2>15. Grants'
        BY <1>1, <2>1, <2>2, GrantsKept DEF IdentityInv, Sends
    <2>16. Refines
        <3>1. Registry!Known(r.user)
            <4>1. Owners
                BY DEF IdentityInv
            <4>2. Owner[<<"github", r.target>>] = r.user /\ <<"github", r.target>> \in Ids
                BY <2>1, <4>1, OwnerOf
            <4> QED BY <4>2 DEF Registry!Known, Owner, Ids
        <3>2. Owner' = Owner /\ Issued' = Issued
            BY <1>1, OwnersKept DEF IdentityInv, Issued
        <3>3. Registry!Open(r.user)
            BY <1>1, <2>1, <3>1, <3>2 DEF Registry!Open, Owner, Ids, Issued
        <3> QED BY <2>4, <3>3, NextOwner
    <2> QED BY <2>16, <1>1, <2>5, <2>6, <2>7, <2>8, <2>9, <2>11, <2>12, <2>13, <2>14, <2>15 DEF IdentityInv
<1> QED BY <1>2

LEMMA IssueSessionKeeps ==
    ASSUME IdentityInv, NEW p \in Requests, IssueSession(p)
    PROVE  IdentityInv' /\ Refines
<1>1. /\ req \in [Requests -> ReqType] /\ Shape /\ TypeOK /\ req[p].pc = "session" /\ Ended(p)
      /\ UNCHANGED accounts /\ req[p] \in ReqType /\ Reads(p, req[p]) /\ Signed
      /\ world' = Spend("state", req[p].via) /\ p \in UserIds
    BY IdFacts DEF IdentityInv, Shape, IssueSession, AllRead
<1>2. ASSUME NEW u, u = req[p].user PROVE IdentityInv' /\ Refines
    <2>1. u \in accounts /\ u \in UserIds
        BY <1>1, <1>2 DEF Reads, TypeOK
    <2>2. app' = [users |-> app.users, sessions |-> Put(app.sessions, p, u),
                  states |-> app.states, challenge |-> app.challenge,
                  github |-> app.github, email |-> app.email]
        BY <1>1, <1>2, AppFields DEF IssueSession
    <2>3. /\ app'.users = app.users /\ app'.states = app.states
          /\ app'.challenge = app.challenge /\ app'.github = app.github /\ app'.email = app.email
          /\ DOMAIN app'.sessions = DOMAIN app.sessions \cup {p} /\ app'.sessions[p] = u
          /\ \A s \in DOMAIN app.sessions : s # p => app'.sessions[s] = app.sessions[s]
          /\ app'.sessions = [s \in DOMAIN app'.sessions |-> app'.sessions[s]]
        <3>1. /\ app'.users = app.users /\ app'.states = app.states
              /\ app'.challenge = app.challenge /\ app'.github = app.github /\ app'.email = app.email
              /\ app'.sessions = Put(app.sessions, p, u)
            BY <2>2
        <3> QED BY <3>1 DEF Put
    <2>4. Moves(p, Finished) /\ Forward(p, Finished) /\ req[p].pc \in HoldsState
        BY <1>1, EndedMoves DEF HoldsState
    <2>5. /\ req' \in [Requests -> ReqType] /\ req'[p] = Finished
          /\ \A y : Over(y) => Over(y)'
        BY <1>1, <2>4, FinishedType, MovesFacts, StillOver
    <2>6. /\ StatesOnce' /\ world' \in WorldType /\ ~world'.twice
          /\ world'.clock = world.clock /\ world'.used = world.used /\ world'.left = world.left
          /\ world'.mails = world.mails /\ world'.consumed = world.consumed
          /\ \A y \in world'.spent : y.kind = "code" => y \in world.spent
        BY <1>1, <2>3, <2>4, StateSpent DEF IdentityInv
    <2>7. TypeOK'
        BY <1>1, <2>1, <2>3, <2>5, ReqFields DEF TypeOK
    <2>8. Shape'
        BY <1>1, <2>2, <2>3, <2>5, <2>6 DEF Shape
    <2>9. Owners' /\ UsersGrow
        BY <2>3, OwnersKept DEF IdentityInv
    <2>10. Signed'
        BY <1>1, <2>1, <2>3 DEF Signed
    <2>11. Over(p)'
        BY <2>5, FinishedType DEF Over
    <2>12. Fresh'
        BY <2>3, <2>5, <2>6, <2>11 DEF IdentityInv, Fresh
    <2>13. AllRead'
        BY <1>1, <2>4, <2>6, <2>9, FinishedType, FinishedReads, AllReadKept DEF IdentityInv
    <2>14. CodesOnce'
        BY <1>1, <2>3, <2>4, <2>6, CodesKept, FinishedType DEF IdentityInv
    <2>15. Spaced'
        BY <1>1, <2>3, <2>4, <2>6, SpacedKept, FinishedType, FinishedReads DEF IdentityInv
    <2>16. Grants'
        BY <1>1, <2>3, <2>4, <2>6, GrantsKept, FinishedType, FinishedReads DEF IdentityInv
    <2>19. Refines
        <3>1. /\ Owner' = Owner /\ Issued' = Issued \cup {p}
              /\ p \notin Issued
            BY <1>1, <2>3, <2>6, OwnersKept DEF IdentityInv, Issued, Fresh, Over
        <3>2. PICK i \in Ids : Owner[i] = u
            BY <1>1, <1>2, OwnerOf DEF IdentityInv, Reads
        <3>3. app'.sessions = [t \in DOMAIN app.sessions \cup {p} |->
                                 IF t = p THEN u ELSE app.sessions[t]]
            BY <2>2 DEF Put
        <3>4. Registry!Enter(p, u)
            BY <1>1, <2>1, <3>1, <3>2, <3>3 DEF Registry!Enter, Registry!EnterAs, Owner, Ids, Issued
        <3> QED BY <1>1, <2>1, <3>4, NextOwner
    <2> QED BY <2>19, <2>6, <2>7, <2>8, <2>9, <2>10, <2>12, <2>13, <2>14, <2>15, <2>16 DEF IdentityInv
<1> QED BY <1>2

LEMMA InstallKeeps ==
    ASSUME IdentityInv, NEW p \in Requests, Install(p)
    PROVE  IdentityInv' /\ Refines
<1>1. /\ req \in [Requests -> ReqType] /\ Shape /\ TypeOK /\ req[p].pc = "install" /\ Ended(p)
      /\ UNCHANGED accounts /\ req[p] \in ReqType /\ Reads(p, req[p]) /\ Signed
    BY DEF IdentityInv, Shape, Install, AllRead
<1>2. ASSUME NEW u, u = req[p].user, UserOf(u) = req[p].seen PROVE IdentityInv' /\ Refines
    <2>1. Has(u) /\ u \in UserIds
        <3>1. UserOf(u).github # 0
            BY <1>1, <1>2 DEF Reads
        <3> QED BY <1>1, <3>1 DEF UserOf, NoUser, Has, TypeOK
    <2>2. /\ app' = [app EXCEPT !.users[u].repos = TRUE] /\ world' = Spend("state", req[p].via)
        BY <1>2 DEF Install
    <2>3. app' = [users |-> [app.users EXCEPT ![u].repos = TRUE], sessions |-> app.sessions,
                  states |-> app.states, challenge |-> app.challenge,
                  github |-> app.github, email |-> app.email]
        BY <1>1, <2>2 DEF Shape
    <2>4. /\ app'.sessions = app.sessions /\ app'.states = app.states
          /\ app'.challenge = app.challenge /\ app'.github = app.github /\ app'.email = app.email
          /\ app'.users = [app.users EXCEPT ![u].repos = TRUE]
        BY <2>3
    <2>5. /\ DOMAIN app'.users = DOMAIN app.users
          /\ app'.users[u] = [app.users[u] EXCEPT !.repos = TRUE]
          /\ \A v \in DOMAIN app.users : v # u => app'.users[v] = app.users[v]
          /\ app'.users = [v \in DOMAIN app'.users |-> app'.users[v]]
        BY <1>1, <2>1, <2>4 DEF Shape, Has
    <2>6. /\ app'.users[u] \in UserType /\ app'.users[u].github = app.users[u].github
          /\ app'.users[u].email = app.users[u].email /\ app'.users[u].grant = app.users[u].grant
          /\ app'.users[u].claim = app.users[u].claim
        BY <1>1, <2>1, <2>5 DEF UserType, TypeOK, Has
    <2>7. Moves(p, Finished) /\ Forward(p, Finished) /\ req[p].pc \in HoldsState
        BY <1>1, EndedMoves DEF HoldsState
    <2>8. /\ req' \in [Requests -> ReqType] /\ req'[p] = Finished
          /\ \A y : Over(y) => Over(y)'
        BY <1>1, <2>7, FinishedType, MovesFacts, StillOver
    <2>9. /\ StatesOnce' /\ world' \in WorldType /\ ~world'.twice
          /\ world'.clock = world.clock /\ world'.used = world.used /\ world'.left = world.left
          /\ world'.mails = world.mails /\ world'.consumed = world.consumed
          /\ \A y \in world'.spent : y.kind = "code" => y \in world.spent
        BY <1>1, <2>2, <2>4, <2>7, StateSpent DEF IdentityInv
    <2>10. TypeOK'
        BY <1>1, <2>1, <2>4, <2>5, <2>6, <2>8, ReqFields DEF TypeOK
    <2>11. Shape'
        BY <1>1, <2>3, <2>4, <2>5, <2>8, <2>9 DEF Shape
    <2>12. Owners' /\ UsersGrow
        BY <2>4, <2>5, <2>6, OwnersKept DEF IdentityInv
    <2>13. Signed'
        BY <1>1, <2>4, <2>5, <2>6, SignedKept
    <2>14. Fresh'
        BY <2>4, <2>5, <2>8, <2>9 DEF IdentityInv, Fresh
    <2>15. AllRead'
        BY <1>1, <2>7, <2>9, <2>12, FinishedType, FinishedReads, AllReadKept DEF IdentityInv
    <2>16. CodesOnce'
        BY <1>1, <2>4, <2>7, <2>9, CodesKept, FinishedType DEF IdentityInv
    <2>17. Spaced'
        BY <1>1, <2>4, <2>7, <2>9, SpacedKept, FinishedType, FinishedReads DEF IdentityInv
    <2>18. Grants'
        BY <1>1, <2>5, <2>6, <2>7, <2>9, GrantsKept, FinishedType, FinishedReads DEF IdentityInv
    <2>19. Refines
        BY <1>1, <2>4, <2>5, <2>6, <2>9, OwnersKept, NothingNew DEF IdentityInv, Issued
    <2> QED BY <2>19, <2>9, <2>10, <2>11, <2>12, <2>13, <2>14, <2>15, <2>16, <2>17, <2>18 DEF IdentityInv
<1>3. CASE UserOf(req[p].user) = req[p].seen
    BY <1>2, <1>3
<1>4. CASE UserOf(req[p].user) # req[p].seen
    BY <1>1, <1>4, GivesUp, OnlyReads DEF Install
<1> QED BY <1>3, <1>4

-----------------------------------------------------------------------------
(* Codes.                                                                    *)

\* The code that was read is used: nothing keeps the next one back any more.
LEMMA CodeSpent ==
    ASSUME CodesOnce, Spaced, Shape, TypeOK, AllRead, ~world.twice, NEW p \in Requests,
           req[p].pc \in {"taken", "enter"}, Moves(p, Finished), Forward(p, Finished),
           NEW e, e = req[p].target, app.challenge[e] = req[p].held,
           app'.challenge = [app.challenge EXCEPT ![e] = NoChallenge], world' = SpendCode(p)
    PROVE  /\ CodesOnce' /\ Spaced' /\ world' \in WorldType /\ ~world'.twice
           /\ world'.clock = world.clock /\ world'.left = world.left
           /\ world'.consumed = world.consumed
           /\ \A x \in world'.spent : x.kind = "state" => x \in world.spent
<1> DEFINE x0 == [kind |-> "code", id |-> req[p].via]
           u0 == [email |-> e, at |-> req[p].held.created]
<1>1. /\ e \in Emails /\ req[p].held # NoChallenge /\ req[p].via = req[p].held.id
      /\ req \in [Requests -> ReqType] /\ req[p].held \in ChallengeType /\ req[p].via \in Nat
    BY ReqFields DEF AllRead, Reads, Shape
<1>2. x0 \notin world.spent /\ Coded(req[p].via)
    BY <1>1 DEF CodesOnce
<1>3. /\ world'.spent = world.spent \cup {x0} /\ world'.used = world.used \cup {u0}
      /\ world'.twice = (world.twice \/ x0 \in world.spent)
      /\ world'.clock = world.clock /\ world'.left = world.left
      /\ world'.mails = world.mails /\ world'.consumed = world.consumed
    BY DEF SpendCode, Spend, Shape, WorldType
<1>4. ~world'.twice
    BY <1>2, <1>3
<1>5. /\ x0 \in [kind : {"state", "code"}, id : Nat] /\ u0 \in [email : Emails, at : Nat]
      /\ x0.kind = "code" /\ x0.id = req[p].via /\ u0.email = e /\ u0.at = req[p].held.created
    BY <1>1 DEF ChallengeType
<1>6. world' \in WorldType
    <2>1. /\ world \in WorldType
          /\ world' = [[world EXCEPT !.spent = @ \cup {x0}, !.twice = @ \/ x0 \in world.spent]
                        EXCEPT !.used = @ \cup {u0}]
        BY DEF SpendCode, Spend, Shape
    <2> QED BY <1>3, <1>4, <1>5, <2>1 DEF WorldType
<1> HIDE DEF x0, u0
<1>7. /\ \A x : Coded(x) => Coded(x)'
      /\ req'[p] = Finished /\ \A q \in Requests : q # p => req'[q] = req[q]
    BY <1>1, FinishedType, MovesFacts, StillOver
<1>8. /\ app'.challenge[e] = NoChallenge
      /\ \A f \in Emails : f # e => app'.challenge[f] = app.challenge[f]
    BY <1>1 DEF TypeOK
<1>9. CodesOnce'
    <2>1. ASSUME NEW f \in Emails, app'.challenge[f] # NoChallenge
          PROVE  /\ [kind |-> "code", id |-> app'.challenge[f].id] \notin world'.spent
                 /\ Coded(app.challenge[f].id)'
                 /\ \A h \in Emails \ {f} : app'.challenge[h] # NoChallenge =>
                      app'.challenge[h].id # app'.challenge[f].id
        <3>1. /\ f # e /\ app'.challenge[f] = app.challenge[f]
              /\ app.challenge[f] # NoChallenge /\ app.challenge[e] # NoChallenge
            BY <1>1, <1>8, <2>1
        <3>2. /\ [kind |-> "code", id |-> app.challenge[f].id] \notin world.spent
              /\ Coded(app.challenge[f].id) /\ app.challenge[f].id # req[p].via
              /\ \A h \in Emails \ {f} : app.challenge[h] # NoChallenge =>
                      app.challenge[h].id # app.challenge[f].id
            BY <1>1, <3>1 DEF CodesOnce
        <3>3. Coded(app.challenge[f].id)'
            BY <1>7, <3>1, <3>2 DEF Coded
        <3>4. [kind |-> "code", id |-> app.challenge[f].id] # x0
            BY <1>5, <3>2
        <3> QED BY <1>3, <1>8, <3>1, <3>2, <3>3, <3>4
    <2>2. ASSUME NEW x \in world'.spent, x.kind = "code" PROVE Coded(x.id)'
        <3>1. Coded(x.id)
            BY <1>2, <1>3, <1>5, <2>2 DEF CodesOnce
        <3> QED BY <1>7, <3>1
    <2> QED BY <2>1, <2>2 DEF CodesOnce
<1>10. Spaced'
    <2>1. Sent' \subseteq Sent
        BY <1>3, <1>7, FinishedReads DEF Sent
    <2>2. ASSUME NEW f \in Emails, NEW at \in Nat, Trail(f, at) PROVE Trail(f, at)'
        <3>1. CASE app.challenge[f] # NoChallenge /\ at <= app.challenge[f].created
            <4>1. CASE f = e
                BY <1>1, <1>3, <1>5, <3>1, <4>1 DEF Trail
            <4>2. CASE f # e
                BY <1>8, <3>1, <4>2 DEF Trail
            <4> QED BY <4>1, <4>2
        <3>2. CASE ~(app.challenge[f] # NoChallenge /\ at <= app.challenge[f].created)
            BY <1>3, <2>2, <3>2 DEF Trail
        <3> QED BY <3>1, <3>2
    <2>3. \A m, n : Apart(m, n) => Apart(m, n)'
        BY <1>3 DEF Apart
    <2>4. \A m \in Sent : m.email \in Emails /\ m.at \in Nat
        BY SentType
    <2>5. \A code \in world'.used : code.at <= world'.clock
        BY <1>1, <1>3, <1>5 DEF Spaced
    <2>6. \A f \in Emails : app'.challenge[f].created <= world'.clock
        BY <1>3, <1>8 DEF Spaced, NoChallenge, Shape, WorldType
    <2> QED BY <1>3, <1>7, <2>1, <2>2, <2>3, <2>4, <2>5, <2>6 DEF Spaced
<1> QED BY <1>3, <1>4, <1>5, <1>6, <1>9, <1>10

LEMMA StoreCodeKeeps ==
    ASSUME IdentityInv, NEW p \in Requests, StoreCode(p)
    PROVE  IdentityInv'
<1>1. /\ req \in [Requests -> ReqType] /\ Shape /\ TypeOK /\ req[p].pc = "code"
      /\ UNCHANGED <<accounts, world>> /\ req[p] \in ReqType /\ Reads(p, req[p])
      /\ p \in Nat /\ p # 0 /\ Spaced /\ CodesOnce /\ AllRead
    BY IdFacts DEF IdentityInv, Shape, StoreCode, AllRead
<1>2. ASSUME NEW e, NEW c, NEW n, NEW r, e = req[p].target, app.challenge[e] = req[p].held,
             n = req[p].now, r = [req[p] EXCEPT !.pc = "mail"],
             c = [id |-> p, session |-> req[p].session, user |-> req[p].user,
                  attempts |-> 0, created |-> n]
      PROVE  IdentityInv'
    <2>1. app' = [app EXCEPT !.challenge[e] = c] /\ req' = [req EXCEPT ![p] = r]
        BY <1>1, <1>2 DEF StoreCode
    <2>2. /\ e \in Emails /\ n \in Nat /\ n <= world.clock /\ world.clock <= n + SendInterval
          /\ app.challenge[e] = NoChallenge \/ app.challenge[e].created + SendInterval <= n
        BY <1>1, <1>2, ReqFields DEF Reads
    <2>3. c \in ChallengeType /\ c.id = p /\ c.created = n /\ c # NoChallenge
        <3>1. /\ req[p].session \in Nat /\ req[p].user \in UserIds \cup {0}
              /\ 0 \in 0 .. MaxAttempts
            BY <1>1, ReqFields, IdentityAssumption
        <3> QED BY <1>1, <1>2, <2>2, <3>1 DEF ChallengeType, NoChallenge
    <2>4. app' = [users |-> app.users, sessions |-> app.sessions, states |-> app.states,
                  challenge |-> [app.challenge EXCEPT ![e] = c],
                  github |-> app.github, email |-> app.email]
        BY <1>1, <2>1, AppFields
    <2>5. /\ app'.users = app.users /\ app'.sessions = app.sessions /\ app'.states = app.states
          /\ app'.github = app.github /\ app'.email = app.email
          /\ app'.challenge = [app.challenge EXCEPT ![e] = c]
        BY <2>4
    <2>6. /\ app'.challenge \in [Emails -> ChallengeType] /\ app'.challenge[e] = c
          /\ \A f \in Emails : f # e => app'.challenge[f] = app.challenge[f]
        BY <1>1, <2>2, <2>3, <2>5 DEF TypeOK
    <2>7. /\ r \in ReqType /\ r.pc = "mail" /\ r.target = e /\ r.now = n /\ r.via = req[p].via
        BY <1>1, <1>2 DEF ReqType, Pcs
    <2>8. Moves(p, r) /\ Forward(p, r)
        BY <1>1, <1>2, <2>1, <2>7 DEF Moves, Forward
    <2>9. /\ req' \in [Requests -> ReqType] /\ req'[p] = r
          /\ \A q \in Requests : q # p => req'[q] = req[q]
          /\ \A x : Coded(x) => Coded(x)'
        BY <1>1, <2>7, <2>8, MovesFacts, StillOver
    <2>10. TypeOK'
        BY <1>1, <2>5, <2>6, <2>9, ReqFields DEF TypeOK
    <2>11. Shape'
        BY <1>1, <2>4, <2>5, <2>9 DEF Shape
    <2>12. Owners' /\ UsersGrow
        BY <2>5, OwnersKept DEF IdentityInv
    <2>13. Signed'
        BY <1>1, <2>5, SignedKept DEF IdentityInv
    <2>14. Fresh'
        BY <1>1, <2>5, <2>7, <2>8, FreshKept DEF IdentityInv
    <2>15. Reads(p, r)'
        BY <1>1, <2>2, <2>7 DEF Reads
    <2>16. AllRead'
        BY <1>1, <2>7, <2>8, <2>12, <2>15, AllReadKept
    <2>17. StatesOnce'
        BY <1>1, <2>5, <2>7, <2>8, StatesKept DEF IdentityInv, HoldsState
    <2>18. Coded(p)' /\ ~Coded(p)
        BY <1>1, <2>7, <2>9 DEF Coded
    <2>19. CodesOnce'
        <3>1. [kind |-> "code", id |-> p] \notin world.spent
            BY <1>1, <2>18 DEF CodesOnce
        <3>2. \A f \in Emails : f # e /\ app.challenge[f] # NoChallenge => app.challenge[f].id # p
            BY <1>1, <2>18 DEF CodesOnce
        <3>3. ASSUME NEW f \in Emails, app'.challenge[f] # NoChallenge
              PROVE  /\ [kind |-> "code", id |-> app'.challenge[f].id] \notin world'.spent
                     /\ Coded(app.challenge[f].id)'
                     /\ \A h \in Emails \ {f} : app'.challenge[h] # NoChallenge =>
                          app'.challenge[h].id # app'.challenge[f].id
            <4>1. CASE f = e
                <5>1. Coded(app.challenge[f].id)'
                    BY <2>3, <2>6, <2>18, <4>1 DEF Coded
                <5> QED BY <1>1, <2>3, <2>6, <3>1, <3>2, <4>1, <5>1
            <4>2. CASE f # e
                <5>1. app'.challenge[f] = app.challenge[f] /\ Coded(app.challenge[f].id)
                    BY <1>1, <2>6, <3>3, <4>2 DEF CodesOnce
                <5>2. Coded(app.challenge[f].id)'
                    BY <2>9, <5>1 DEF Coded
                <5>3. \A h \in Emails \ {f} : app'.challenge[h] # NoChallenge =>
                          app'.challenge[h].id # app'.challenge[f].id
                    BY <1>1, <2>3, <2>6, <3>2, <3>3, <4>2, <5>1 DEF CodesOnce
                <5> QED BY <1>1, <3>3, <5>1, <5>2, <5>3 DEF CodesOnce
            <4> QED BY <4>1, <4>2
        <3>4. \A x \in world'.spent : x.kind = "code" => Coded(x.id)'
            BY <1>1, <2>9 DEF CodesOnce
        <3> QED BY <3>3, <3>4 DEF CodesOnce
    <2>20. Spaced'
        <3>1. ASSUME NEW m0, m0 = [id |-> p, email |-> e, at |-> n] PROVE Spaced'
            <4>1. m0.id = p /\ m0.email = e /\ m0.at = n
                BY <3>1
            <4>2. Sent' \subseteq Sent \cup {m0}
                BY <1>1, <2>7, <2>9, <3>1 DEF Sent
            <4>3. \A m \in Sent : m.email \in Emails /\ m.at \in Nat
                BY <1>1, SentType
            <4>4. world.clock \in Nat /\ SendInterval \in Nat /\ CodeAge \in Nat \ {0}
                  /\ 2 * SendInterval <= CodeAge
                BY <1>1, IdentityAssumption DEF Shape, WorldType
            <4>5. \A f \in Emails : app.challenge[f].created \in Nat
                BY <1>1 DEF TypeOK, ChallengeType
            <4>6. \A code \in world.used : code.at \in Nat
                BY <1>1 DEF Shape, WorldType
            <4>7. ASSUME NEW m \in Sent PROVE Trail(m.email, m.at)'
                <5>1. Trail(m.email, m.at) /\ m.email \in Emails /\ m.at \in Nat
                    BY <1>1, <4>3 DEF Spaced
                <5>2. CASE m.email = e
                    BY <1>1, <2>2, <2>3, <2>6, <4>4, <4>5, <5>1, <5>2 DEF Trail
                <5>3. CASE m.email # e
                    BY <1>1, <2>6, <5>1, <5>3 DEF Trail
                <5> QED BY <5>2, <5>3
            <4>8. Trail(m0.email, m0.at)'
                BY <2>2, <2>3, <2>6, <4>1 DEF Trail
            <4>9. ASSUME NEW m \in Sent, m.email = e, m.at <= n, n < m.at + SendInterval
                  PROVE  \E code \in world.used :
                           code.email = e /\ m.at <= code.at /\ code.at <= n + SendInterval
                <5>1. Trail(e, m.at) /\ m.at \in Nat
                    BY <1>1, <4>3, <4>9 DEF Spaced
                <5>2. ~(app.challenge[e] # NoChallenge /\ m.at <= app.challenge[e].created)
                    BY <2>2, <4>4, <4>5, <4>9, <5>1
                <5>3. ~(m.at + CodeAge <= world.clock)
                    BY <2>2, <4>4, <4>9, <5>1
                <5>4. PICK code \in world.used : code.email = e /\ m.at <= code.at
                    BY <5>1, <5>2, <5>3 DEF Trail
                <5>5. code.at <= n + SendInterval
                    BY <1>1, <2>2, <4>4, <4>6 DEF Spaced
                <5> QED BY <5>4, <5>5
            <4>10. ASSUME NEW m \in Sent, m.email = e, n <= m.at, m.at < n + SendInterval
                   PROVE  \E code \in world.used :
                            code.email = e /\ n <= code.at /\ code.at <= m.at + SendInterval
                <5>1. Trail(e, m.at) /\ m.at \in Nat
                    BY <1>1, <4>3, <4>10 DEF Spaced
                <5>2. ~(app.challenge[e] # NoChallenge /\ m.at <= app.challenge[e].created)
                    BY <2>2, <4>4, <4>5, <4>10, <5>1
                <5>3. ~(m.at + CodeAge <= world.clock)
                    BY <2>2, <4>4, <4>10, <5>1
                <5>4. PICK code \in world.used : code.email = e /\ m.at <= code.at
                    BY <5>1, <5>2, <5>3 DEF Trail
                <5>5. code.at <= world.clock /\ code.at \in Nat
                    BY <1>1, <4>6 DEF Spaced
                <5>6. n <= code.at /\ code.at <= m.at + SendInterval
                    BY <2>2, <4>4, <4>10, <5>1, <5>4, <5>5
                <5> QED BY <5>4, <5>6
            <4>11. \A m \in Sent : Apart(m, m0)' /\ Apart(m0, m)'
                BY <1>1, <4>1, <4>9, <4>10 DEF Apart
            <4>12. \A m, k \in Sent' : m # k => Apart(m, k)'
                <5>1. \A m, k \in Sent : m # k => Apart(m, k)'
                    BY <1>1 DEF Spaced, Apart
                <5> QED BY <4>2, <4>11, <5>1
            <4>13. \A m \in Sent' : Trail(m.email, m.at)' /\ m.at <= world'.clock /\ Coded(m.id)'
                BY <1>1, <2>2, <2>9, <2>18, <4>1, <4>2, <4>7, <4>8 DEF Spaced
            <4>14. \A f \in Emails : app'.challenge[f].created <= world'.clock
                BY <1>1, <2>2, <2>3, <2>6 DEF Spaced
            <4>15. \A code \in world'.used : code.at <= world'.clock
                BY <1>1 DEF Spaced
            <4> QED BY <4>12, <4>13, <4>14, <4>15 DEF Spaced
        <3> QED BY <3>1
    <2>21. Grants'
        BY <1>1, <2>5, <2>7, <2>8, GrantsKept DEF IdentityInv, Sends
    <2> QED BY <1>1, <2>10, <2>11, <2>12, <2>13, <2>14, <2>16, <2>17, <2>19, <2>20, <2>21
            DEF IdentityInv
<1>3. CASE app.challenge[req[p].target] = req[p].held
    BY <1>2, <1>3
<1>4. CASE app.challenge[req[p].target] # req[p].held
    BY <1>1, <1>4, GivesUp DEF StoreCode
<1> QED BY <1>3, <1>4

LEMMA MailKeeps ==
    ASSUME IdentityInv, NEW p \in Requests, Mail(p)
    PROVE  IdentityInv'
<1> DEFINE m0 == [id |-> p, email |-> req[p].target, at |-> req[p].now]
<1>1. /\ req \in [Requests -> ReqType] /\ Shape /\ TypeOK /\ req[p].pc = "mail" /\ Ended(p)
      /\ UNCHANGED <<app, accounts>> /\ req[p] \in ReqType /\ Reads(p, req[p]) /\ p \in Nat
      /\ world' = [world EXCEPT !.mails = @ \cup {m0}]
    BY IdFacts DEF IdentityInv, Shape, Mail, AllRead
<1>2. m0 \in [id : Nat, email : Emails, at : Nat] /\ m0 \in Sent
    BY <1>1, ReqFields DEF Reads, Sent
<1>3. /\ world' \in WorldType /\ world'.mails = world.mails \cup {m0}
      /\ world'.clock = world.clock /\ world'.left = world.left /\ world'.used = world.used
      /\ world'.consumed = world.consumed /\ world'.spent = world.spent
      /\ world'.twice = world.twice
    BY <1>1, <1>2 DEF WorldType, Shape
<1> HIDE DEF m0
<1>4. Moves(p, Finished) /\ Forward(p, Finished)
    BY <1>1, EndedMoves
<1>5. /\ req' \in [Requests -> ReqType] /\ req'[p] = Finished
      /\ \A q \in Requests : q # p => req'[q] = req[q]
      /\ \A x : Coded(x) => Coded(x)'
    BY <1>1, <1>4, FinishedType, MovesFacts, StillOver
<1>6. TypeOK'
    BY <1>1, <1>5, ReqFields DEF TypeOK
<1>7. Shape'
    BY <1>1, <1>3, <1>5 DEF Shape
<1>8. Owners' /\ UsersGrow
    BY <1>1, OwnersKept DEF IdentityInv
<1>9. Signed'
    BY <1>1, SignedKept DEF IdentityInv
<1>10. Fresh'
    BY <1>1, <1>3, <1>4, FreshKept, FinishedType DEF IdentityInv
<1>11. AllRead'
    BY <1>1, <1>3, <1>4, <1>8, AllReadKept, FinishedType, FinishedReads DEF IdentityInv
<1>12. StatesOnce'
    BY <1>1, <1>3, <1>4, StatesKept, FinishedType, FinishedReads DEF IdentityInv
<1>13. CodesOnce'
    BY <1>1, <1>3, <1>4, CodesKept, FinishedType DEF IdentityInv
<1>14. Spaced'
    <2>1. Sent' \subseteq Sent
        BY <1>2, <1>3, <1>5, FinishedReads DEF Sent
    <2>2. (\A e, at : Trail(e, at) => Trail(e, at)') /\ \A m, n : Apart(m, n) => Apart(m, n)'
        BY <1>1, <1>3 DEF Trail, Apart
    <2> QED BY <1>1, <1>3, <1>5, <2>1, <2>2 DEF IdentityInv, Spaced
<1>15. Grants'
    BY <1>1, <1>3, <1>4, GrantsKept, FinishedType, FinishedReads DEF IdentityInv
<1> QED BY <1>3, <1>6, <1>7, <1>8, <1>9, <1>10, <1>11, <1>12, <1>13, <1>14, <1>15 DEF IdentityInv

LEMMA AnsweredKeeps ==
    ASSUME IdentityInv, NEW p \in Requests, Answered(p)
    PROVE  IdentityInv'
<1>1. /\ req \in [Requests -> ReqType] /\ Shape /\ TypeOK /\ req[p].pc \in {"wrong", "taken"}
      /\ UNCHANGED accounts /\ req[p] \in ReqType /\ Reads(p, req[p]) /\ Ended(p)
    BY DEF IdentityInv, Shape, Answered, AllRead
<1>2. Moves(p, Finished) /\ Forward(p, Finished)
    BY <1>1, EndedMoves
<1>3. /\ req' \in [Requests -> ReqType] /\ req'[p] = Finished
      /\ \A q \in Requests : q # p => req'[q] = req[q]
    BY <1>1, <1>2, FinishedType, MovesFacts
<1>4. ASSUME NEW e, NEW C, e = req[p].target, app' = [app EXCEPT !.challenge = C],
             C \in [Emails -> ChallengeType], world' \in WorldType, ~world'.twice, CodesOnce', Spaced',
             world'.clock = world.clock, world'.left = world.left, world'.consumed = world.consumed,
             \A x \in world'.spent : x.kind = "state" => x \in world.spent
      PROVE  IdentityInv'
    <2>1. app' = [users |-> app.users, sessions |-> app.sessions, states |-> app.states,
                  challenge |-> C, github |-> app.github, email |-> app.email]
        BY <1>1, <1>4, AppFields
    <2>2. /\ app'.users = app.users /\ app'.sessions = app.sessions /\ app'.states = app.states
          /\ app'.github = app.github /\ app'.email = app.email /\ app'.challenge = C
        BY <2>1
    <2>3. TypeOK'
        BY <1>1, <1>3, <1>4, <2>2, ReqFields DEF TypeOK
    <2>4. Shape'
        BY <1>1, <1>3, <1>4, <2>1, <2>2 DEF Shape
    <2>5. Owners' /\ UsersGrow
        BY <2>2, OwnersKept DEF IdentityInv
    <2>6. Signed'
        BY <1>1, <2>2, SignedKept DEF IdentityInv
    <2>7. Fresh'
        BY <1>1, <1>2, <1>4, <2>2, FreshKept, FinishedType DEF IdentityInv
    <2>8. AllRead'
        BY <1>1, <1>2, <1>4, <2>5, AllReadKept, FinishedType, FinishedReads DEF IdentityInv
    <2>9. StatesOnce'
        BY <1>1, <1>2, <1>4, <2>2, StatesKept, FinishedType, FinishedReads DEF IdentityInv
    <2>10. Grants'
        BY <1>1, <1>2, <1>4, <2>2, GrantsKept, FinishedType, FinishedReads DEF IdentityInv
    <2> QED BY <1>4, <2>3, <2>4, <2>5, <2>6, <2>7, <2>8, <2>9, <2>10 DEF IdentityInv
<1>5. CASE app.challenge[req[p].target] # req[p].held
    BY <1>1, <1>5, GivesUp DEF Answered
<1>6. CASE app.challenge[req[p].target] = req[p].held /\ req[p].pc = "taken"
    <2>1. ASSUME NEW e, NEW C, e = req[p].target, C = [app.challenge EXCEPT ![e] = NoChallenge]
          PROVE  IdentityInv'
        <3>1. app' = [app EXCEPT !.challenge = C] /\ world' = SpendCode(p)
            BY <1>1, <1>6, <2>1 DEF Answered, Shape
        <3>2. app'.challenge = C
            BY <1>1, <3>1, AppFields
        <3>3. C \in [Emails -> ChallengeType]
            BY <1>1, <2>1, NoChallengeType DEF TypeOK
        <3>4. /\ CodesOnce' /\ Spaced' /\ world' \in WorldType /\ ~world'.twice
              /\ world'.clock = world.clock /\ world'.left = world.left
              /\ world'.consumed = world.consumed
              /\ \A x \in world'.spent : x.kind = "state" => x \in world.spent
            BY <1>1, <1>2, <1>6, <2>1, <3>1, <3>2, CodeSpent DEF IdentityInv
        <3> QED BY <1>4, <2>1, <3>1, <3>3, <3>4
    <2> QED BY <2>1
<1>7. CASE app.challenge[req[p].target] = req[p].held /\ req[p].pc = "wrong"
    <2>1. ASSUME NEW e, NEW C, NEW c, e = req[p].target,
                 c = [app.challenge[e] EXCEPT !.attempts = @ + 1],
                 C = [app.challenge EXCEPT ![e] = c]
          PROVE  IdentityInv'
        <3>1. app' = [app EXCEPT !.challenge = C] /\ world' = world
            BY <1>1, <1>7, <2>1 DEF Answered, Shape
        <3>2. app'.challenge = C
            BY <1>1, <3>1, AppFields
        <3>3. /\ e \in Emails /\ app.challenge[e] \in ChallengeType
              /\ app.challenge[e].attempts < MaxAttempts /\ app.challenge[e] # NoChallenge
            BY <1>1, <1>7, <2>1 DEF Reads, TypeOK
        <3>4. /\ c \in ChallengeType /\ c.id = app.challenge[e].id
              /\ c.created = app.challenge[e].created /\ c # NoChallenge
            BY <2>1, <3>3, IdentityAssumption DEF ChallengeType, NoChallenge
        <3>5. C \in [Emails -> ChallengeType] /\ C[e] = c /\ \A f \in Emails : f # e => C[f] = app.challenge[f]
            BY <1>1, <2>1, <3>3, <3>4 DEF TypeOK
        <3>6. CodesOnce'
            BY <1>1, <1>2, <3>1, <3>2, <3>3, <3>4, <3>5, CodesKept, FinishedType DEF IdentityInv
        <3>7. Spaced'
            BY <1>1, <1>2, <3>1, <3>2, <3>3, <3>4, <3>5, SpacedKept, FinishedType, FinishedReads
               DEF IdentityInv
        <3>8. world' \in WorldType /\ ~world'.twice
            BY <1>1, <3>1 DEF IdentityInv, Shape
        <3> QED BY <1>4, <2>1, <3>1, <3>5, <3>6, <3>7, <3>8
    <2> QED BY <2>1
<1> QED BY <1>1, <1>5, <1>6, <1>7

\* A user who owns e, or whom nobody precedes, receives the email e.
LEMMA OwnersEmail ==
    ASSUME TypeOK, Owners, NEW e \in Emails, NEW u \in UserIds, app'.github = app.github,
           DOMAIN app'.users = DOMAIN app.users \cup {u},
           \A v \in DOMAIN app.users : v # u => app'.users[v] = app.users[v],
           app'.users[u].email = e, app'.users[u].github = UserOf(u).github,
           UserOf(u).email \in {0, e}, ~Has(u) => u \in Requests,
           app.email[e] \in {0, u}, app'.email = [app.email EXCEPT ![e] = u]
    PROVE  Owners' /\ UsersGrow /\ Binds(<<"email", e>>, u)
<1>1. /\ UsersGrow /\ (Has(u) => UserOf(u) = app.users[u]) /\ Has(u)'
      /\ (~Has(u) => UserOf(u) = NoUser /\ NoUser.github = 0) /\ u # 0 /\ e # 0
    BY IdFacts DEF UsersGrow, UserOf, Has, NoUser
<1>2. /\ app'.email[e] = u /\ \A f \in Emails : f # e => app'.email[f] = app.email[f]
    BY DEF TypeOK
<1>3. \A v : UserOf(v)'.github = UserOf(v).github
    BY <1>1 DEF UserOf, Has, NoUser
<1>4. \A k : GithubOwner(k)' = GithubOwner(k)
    BY <1>3 DEF GithubOwner
<1>5. \A v \in DOMAIN app'.users : app'.users[v].github # 0 =>
        v \in DOMAIN app.users /\ app'.users[v].github = app.users[v].github
    BY <1>1 DEF Has
<1>6. ASSUME NEW v \in DOMAIN app'.users, app'.users[v].github # 0
      PROVE  GithubOwner(app.users[v].github)' = v
    <2>1. GithubOwner(app.users[v].github) = v /\ app'.users[v].github = app.users[v].github
        BY <1>5, <1>6 DEF Owners
    <2> QED BY <1>4, <2>1 DEF GithubOwner, UserOf, Has
<1>7. \A k \in Githubs : app'.github[k] # 0 =>
        app'.github[k] \in DOMAIN app'.users /\ app'.users[app'.github[k]].github = k
    BY <1>1 DEF Owners, Has
<1>8. \A k \in Githubs : LegacyUser(k) \in DOMAIN app'.users =>
        app'.users[LegacyUser(k)].github = k
    BY <1>1, IdFacts DEF Owners, Has
<1>9. ASSUME NEW v \in DOMAIN app'.users, app'.users[v].email # 0
      PROVE  app'.email[app'.users[v].email] = v
    <2>1. CASE v = u
        BY <1>2, <2>1
    <2>2. CASE v # u
        <3>1. /\ v \in DOMAIN app.users /\ app'.users[v] = app.users[v] /\ v # 0
              /\ app.email[app.users[v].email] = v /\ app.users[v].email \in Emails
            BY <1>9, <2>2, UserFields, IdFacts DEF Owners, TypeOK
        <3> QED BY <1>2, <2>2, <3>1
    <2> QED BY <2>1, <2>2
<1>10. ASSUME NEW f \in Emails, app'.email[f] # 0
       PROVE  app'.email[f] \in DOMAIN app'.users /\ app'.users[app'.email[f]].email = f
    <2>1. CASE f = e
        BY <1>2, <2>1
    <2>2. CASE f # e
        <3>1. app.email[f] \in DOMAIN app.users /\ app.users[app.email[f]].email = f
            BY <1>2, <1>10, <2>2 DEF Owners, Has
        <3>2. app.email[f] # u
            BY <1>1, <2>2, <3>1, IdFacts DEF Has
        <3> QED BY <1>2, <2>2, <3>1, <3>2
    <2> QED BY <2>1, <2>2
<1>11. Binds(<<"email", e>>, u)
    <2>1. <<"email", e>> \in Ids /\ Owner[<<"email", e>>] = app.email[e]
        BY DEF Ids, Owner
    <2>2. \A i \in Ids : Owner'[i] = IF i = <<"email", e>> THEN u ELSE Owner[i]
        BY <1>2, <1>4 DEF Ids, Owner
    <2>3. Owner = [i \in Ids |-> Owner[i]] /\ Owner' = [i \in Ids |-> Owner'[i]]
        BY DEF Owner
    <2> QED BY <2>1, <2>2, <2>3 DEF Binds
<1> QED BY <1>1, <1>6, <1>7, <1>8, <1>9, <1>10, <1>11 DEF Owners, Has

\* Whoever owns an identity is a user.
LEMMA OwnersKnown ==
    ASSUME TypeOK, Owners, NEW u \in UserIds, Registry!Known(u)
    PROVE  Has(u)
<1>1. PICK i \in Ids : Owner[i] = u
    BY DEF Registry!Known, Owner, Ids
<1>2. u # 0 /\ 0 \notin Githubs /\ 0 \notin Emails
    BY IdFacts
<1>3. ASSUME NEW g \in Githubs, GithubOwner(g) = u PROVE Has(u)
    BY <1>2, <1>3 DEF GithubOwner, Owners, UserOf, NoUser
<1>4. ASSUME NEW e \in Emails, app.email[e] = u PROVE Has(u)
    BY <1>2, <1>4 DEF Owners
<1>5. CASE i \in {"github"} \X Githubs
    <2>1. i[1] = "github" /\ i[2] \in Githubs /\ Owner[i] = GithubOwner(i[2])
        BY <1>5 DEF Owner, Ids
    <2> QED BY <1>1, <1>3, <2>1
<1>6. CASE i \in {"email"} \X Emails
    <2>1. i[1] = "email" /\ i[2] \in Emails /\ Owner[i] = app.email[i[2]]
        BY <1>6 DEF Owner, Ids
    <2> QED BY <1>1, <1>4, <2>1
<1> QED BY <1>5, <1>6 DEF Ids

LEMMA EnterKeeps ==
    ASSUME IdentityInv, NEW p \in Requests, Enter(p)
    PROVE  IdentityInv' /\ Refines
<1>1. /\ req \in [Requests -> ReqType] /\ Shape /\ TypeOK /\ req[p].pc = "enter" /\ Ended(p)
      /\ req[p] \in ReqType /\ Reads(p, req[p]) /\ Owners /\ Signed /\ Fresh /\ p \in UserIds
    BY IdFacts DEF IdentityInv, Shape, Enter, AllRead
<1>2. ASSUME NEW e, NEW u, NEW s, NEW x, NEW S, e = req[p].target, u = req[p].user,
             s = req[p].session, x = Verified(p), EnterAllowed(p),
             S = IF s # 0 THEN app.sessions ELSE Put(app.sessions, p, u)
      PROVE  IdentityInv' /\ Refines
    <2>1. /\ app' = [app EXCEPT !.challenge[e] = NoChallenge, !.email[e] = u,
                       !.users = Put(@, u, x),
                       !.sessions = IF s # 0 THEN @ ELSE Put(@, p, u)]
          /\ accounts' = (IF Has(u) THEN accounts ELSE accounts \cup {u})
          /\ world' = SpendCode(p)
        BY <1>2 DEF Enter
    <2>2. /\ e \in Emails /\ e # 0 /\ UserOf(u) = req[p].seen /\ app.email[e] = req[p].owner
          /\ app.challenge[e] = req[p].held /\ (s # 0 => Live(s, u))
          /\ req[p].seen.email \in {0, e} /\ (s # 0 => req[p].owner \in {0, u})
          /\ s = 0 => u = IF req[p].owner # 0 THEN req[p].owner ELSE p
        BY <1>1, <1>2, IdFacts DEF EnterAllowed, Reads
    <2>3. ~Has(p)
        BY <1>1 DEF Fresh, Over, Has
    \* A linking user and the owner of the email have an account; others are new.
    <2>4. /\ u \in UserIds /\ app.email[e] \in {0, u}
          /\ Has(u) => u \in accounts /\ UserOf(u) = app.users[u]
          /\ ~Has(u) => u = p /\ s = 0 /\ UserOf(u) = NoUser
        <3>1. CASE s # 0
            BY <1>1, <2>2, <3>1 DEF Live, Signed, Has, UserOf, TypeOK
        <3>2. CASE s = 0 /\ req[p].owner # 0
            <4>1. u = app.email[e] /\ Has(u) /\ app.users[u].email = e
                BY <1>1, <2>2, <3>2 DEF Owners
            <4> QED BY <1>1, <2>2, <4>1 DEF Signed, Has, UserOf, TypeOK
        <3>3. CASE s = 0 /\ req[p].owner = 0
            <4>1. u = p /\ app.email[e] = 0
                BY <2>2, <3>3
            <4> QED BY <1>1, <2>3, <3>3, <4>1 DEF UserOf
        <3> QED BY <3>1, <3>2, <3>3
    <2>5. /\ x \in UserType /\ x.email = e /\ x.github = UserOf(u).github
          /\ x.grant = UserOf(u).grant /\ x.claim = UserOf(u).claim
        <3>1. req[p].seen \in UserType
            BY <1>1, ReqFields
        <3> QED BY <1>2, <2>2, <3>1 DEF Verified, UserType
    <2>6. app' = [users |-> Put(app.users, u, x), sessions |-> S,
                  states |-> app.states, challenge |-> [app.challenge EXCEPT ![e] = NoChallenge],
                  github |-> app.github, email |-> [app.email EXCEPT ![e] = u]]
        <3>1. app = [users |-> app.users, sessions |-> app.sessions, states |-> app.states,
                     challenge |-> app.challenge, github |-> app.github, email |-> app.email]
            BY <1>1 DEF Shape
        <3> QED BY <1>2, <2>1, <3>1
    <2>7. /\ app'.states = app.states /\ app'.github = app.github
          /\ app'.challenge = [app.challenge EXCEPT ![e] = NoChallenge]
          /\ app'.email = [app.email EXCEPT ![e] = u] /\ app'.sessions = S
          /\ app'.users = Put(app.users, u, x)
        BY <2>6
    <2>8. /\ DOMAIN app'.users = DOMAIN app.users \cup {u} /\ app'.users[u] = x
          /\ \A v \in DOMAIN app.users : v # u => app'.users[v] = app.users[v]
          /\ app'.users = [v \in DOMAIN app'.users |-> app'.users[v]]
        BY <2>7 DEF Put
    <2>9. /\ DOMAIN S = (IF s # 0 THEN DOMAIN app.sessions ELSE DOMAIN app.sessions \cup {p})
          /\ \A t \in DOMAIN S : S[t] = (IF t \in DOMAIN app.sessions /\ (t = p => s # 0)
                                         THEN app.sessions[t] ELSE u)
          /\ S = [t \in DOMAIN S |-> S[t]]
        BY <1>1, <1>2 DEF Put, Shape
    <2>10. Moves(p, Finished) /\ Forward(p, Finished)
        BY <1>1, EndedMoves
    <2>11. /\ req' \in [Requests -> ReqType] /\ req'[p] = Finished
           /\ \A y : Over(y) => Over(y)'
           /\ Over(p)'
        BY <1>1, <2>10, FinishedType, MovesFacts, StillOver DEF Over
    <2>12. /\ CodesOnce' /\ Spaced' /\ world' \in WorldType /\ ~world'.twice
           /\ world'.clock = world.clock /\ world'.left = world.left
           /\ world'.consumed = world.consumed
           /\ \A y \in world'.spent : y.kind = "state" => y \in world.spent
        BY <1>1, <1>2, <2>1, <2>2, <2>7, <2>10, CodeSpent DEF IdentityInv
    <2>13. accounts \subseteq accounts' /\ u \in accounts' /\ accounts' \subseteq accounts \cup {u}
        BY <2>1, <2>4
    <2>14. TypeOK'
        <3>1. /\ app'.challenge \in [Emails -> ChallengeType]
              /\ app'.email \in [Emails -> UserIds \cup {0}]
            BY <1>1, <2>2, <2>4, <2>7, NoChallengeType DEF TypeOK
        <3>2. \A t \in DOMAIN S : S[t] \in UserIds
            BY <1>1, <2>4, <2>9 DEF TypeOK
        <3> QED BY <1>1, <2>4, <2>5, <2>7, <2>8, <2>11, <2>13, <3>1, <3>2, ReqFields DEF TypeOK
    <2>15. Shape'
        <3>1. DOMAIN S \subseteq UserIds
            BY <1>1, <2>9 DEF Shape
        <3>2. app' = [users |-> app'.users, sessions |-> app'.sessions, states |-> app'.states,
                      challenge |-> app'.challenge, github |-> app'.github, email |-> app'.email]
            BY <2>6
        <3> QED BY <1>1, <2>7, <2>8, <2>9, <2>11, <2>12, <3>1, <3>2 DEF Shape
    <2>16. Owners' /\ UsersGrow /\ Binds(<<"email", e>>, u)
        BY <1>1, <2>2, <2>4, <2>5, <2>7, <2>8, OwnersEmail
    <2>17. Signed'
        <3>1. accounts' \subseteq DOMAIN app'.users
            BY <1>1, <2>8, <2>13 DEF Signed
        <3>2. \A t \in DOMAIN app'.sessions : app'.sessions[t] \in accounts'
            BY <1>1, <2>7, <2>9, <2>13 DEF Signed
        <3>3. \A v \in DOMAIN app'.users : app'.users[v].email # 0 => v \in accounts'
            BY <1>1, <2>8, <2>13 DEF Signed
        <3> QED BY <3>1, <3>2, <3>3 DEF Signed
    <2>18. Fresh'
        <3>1. Over(u)'
            BY <1>1, <2>4, <2>11 DEF Fresh, Has
        <3>2. \A v \in DOMAIN app'.users : Over(v)'
            BY <1>1, <2>8, <2>11, <3>1 DEF Fresh
        <3>3. \A t \in DOMAIN app'.sessions \cup world'.left : Over(t)'
            BY <1>1, <2>7, <2>9, <2>11, <2>12 DEF Fresh
        <3> QED BY <1>1, <2>7, <2>11, <3>2, <3>3 DEF Fresh
    <2>19. AllRead'
        BY <1>1, <2>10, <2>12, <2>13, <2>16, AllReadKept, FinishedType, FinishedReads DEF IdentityInv
    <2>20. StatesOnce'
        BY <1>1, <2>7, <2>10, <2>12, StatesKept, FinishedType, FinishedReads DEF IdentityInv
    <2>21. Grants'
        <3>1. CASE Has(u)
            <4>1. /\ DOMAIN app'.users = DOMAIN app.users
                  /\ \A v \in DOMAIN app.users : /\ app'.users[v].grant = app.users[v].grant
                                                 /\ app'.users[v].claim = app.users[v].claim
                BY <2>4, <2>5, <2>8, <3>1 DEF Has
            <4> QED BY <1>1, <2>10, <2>12, <4>1, GrantsKept, FinishedType, FinishedReads DEF IdentityInv
        <3>2. CASE ~Has(u)
            <4>1. \A v \in DOMAIN app'.users :
                    \/ app'.users[v].grant = 0
                    \/ v \in DOMAIN app.users /\ app'.users[v] = app.users[v]
                BY <2>4, <2>5, <2>8, <3>2 DEF NoUser
            <4>2. /\ \A y : Obtained(y) => Obtained(y)'
                  /\ \A q \in Requests : req'[q].pc \in Sends => q # p /\ req'[q] = req[q]
                BY <1>1, <2>10, FinishedType, FinishedReads, MovesFacts, StillOver
            <4>3. \A q \in Requests : req[q].pc \in Sends => req[q].seen.grant # 0
                BY DEF IdentityInv, AllRead, Reads, Sends
            <4>4. \A v \in DOMAIN app'.users : Obtained(app.users[v].grant)'
                BY <4>1, <4>2, IdFacts DEF IdentityInv, Grants, Obtained
            <4>5. \A v, w \in DOMAIN app'.users :
                    app'.users[v].grant # 0 /\ app'.users[v].grant = app'.users[w].grant => v = w
                BY <4>1 DEF IdentityInv, Grants
            <4>6. \A g \in world'.consumed : Obtained(g)'
                BY <2>12, <4>2 DEF IdentityInv, Grants
            <4>7. \A v \in DOMAIN app'.users : app'.users[v].grant # 0 /\ app'.users[v].claim = 0
                    => app'.users[v].grant \notin world'.consumed
                BY <2>12, <4>1 DEF IdentityInv, Grants
            <4>8. ASSUME NEW q \in Requests, req'[q].pc \in Sends
                  PROVE  /\ Obtained(req[q].seen.grant)' /\ req'[q].seen.grant \notin world'.consumed
                         /\ \A v \in DOMAIN app'.users : app'.users[v].grant = req'[q].seen.grant
                              => v = req'[q].user /\ app'.users[v].claim = q
                         /\ \A k \in Requests \ {q} : req'[k].pc \in Sends
                              => req'[k].seen.grant # req'[q].seen.grant
                <5>1. req'[q] = req[q] /\ req[q].pc \in Sends
                    BY <4>2, <4>8
                <5>2. Obtained(req[q].seen.grant)' /\ req[q].seen.grant \notin world'.consumed
                    BY <2>12, <4>2, <5>1 DEF IdentityInv, Grants, Obtained
                <5>3. \A v \in DOMAIN app'.users : app'.users[v].grant = req[q].seen.grant
                              => v = req[q].user /\ app'.users[v].claim = q
                    BY <4>1, <4>3, <5>1 DEF IdentityInv, Grants
                <5>4. \A k \in Requests \ {q} : req'[k].pc \in Sends
                              => req'[k].seen.grant # req[q].seen.grant
                    BY <4>2, <5>1 DEF IdentityInv, Grants
                <5> QED BY <5>1, <5>2, <5>3, <5>4
            <4> QED BY <4>4, <4>5, <4>6, <4>7, <4>8 DEF Grants
        <3> QED BY <3>1, <3>2
    \* A link teaches; a known user comes in; another one arrives.
    <2>22. Refines
        <3>1. <<"email", e>> \in Ids /\ Owner[<<"email", e>>] = app.email[e]
            BY <2>2 DEF Ids, Owner
        <3>2. CASE s # 0
            <4>1. accounts' = accounts /\ app'.sessions = app.sessions /\ Issued' = Issued
                BY <1>2, <2>1, <2>4, <2>7, <2>12, <3>2 DEF Issued
            <4> QED BY <2>4, <2>16, <3>1, <4>1, LearnsAtMost
        <3>3. CASE s = 0
            <4>1. /\ p \notin Issued /\ Issued' = Issued \cup {p}
                  /\ app'.sessions = [t \in DOMAIN app.sessions \cup {p} |->
                                         IF t = p THEN u ELSE app.sessions[t]]
                BY <1>1, <1>2, <2>7, <2>9, <2>12, <3>3 DEF Issued, Fresh, Over, Put
            <4>2. Owner'[<<"email", e>>] = u /\ u \in accounts'
                BY <2>13, <2>16, <3>1 DEF Binds, Owner
            <4>3. Registry!EnterAs(p, u)
                BY <3>1, <4>1, <4>2 DEF Registry!EnterAs, Ids, Owner, Issued
            <4>4. CASE Has(u)
                <5>1. Owner[<<"email", e>>] = u
                    BY <2>2, <2>3, <2>4, <3>1, <3>3, <4>4
                <5>2. Owner' = Owner
                    BY <2>16, <5>1 DEF Binds, Owner
                <5>3. Registry!Enter(p, u)
                    BY <2>1, <4>3, <4>4, <5>2 DEF Registry!Enter, Owner, Ids
                <5> QED BY <1>1, <2>4, <5>3, NextOwner
            <4>5. CASE ~Has(u)
                <5>1. u = p /\ Owner[<<"email", e>>] = 0
                    BY <1>1, <2>2, <2>4, <3>1, <4>5 DEF Owners
                <5>2. ~Registry!Known(u)
                    BY <1>1, <2>3, <5>1, OwnersKnown
                <5>3. Registry!Bind(<<"email", e>>, u)
                    BY <2>16, <5>1 DEF Registry!Bind, Binds, Owner, Ids
                <5>4. Registry!Arrive(<<"email", e>>, u, p)
                    BY <2>1, <4>3, <4>5, <5>2, <5>3 DEF Registry!Arrive
                <5> QED BY <1>1, <2>4, <3>1, <5>4, NextOwner
            <4> QED BY <4>4, <4>5
        <3> QED BY <3>2, <3>3
    <2> QED BY <2>22, <2>12, <2>14, <2>15, <2>16, <2>17, <2>18, <2>19, <2>20, <2>21 DEF IdentityInv
<1>3. CASE EnterAllowed(p)
    BY <1>2, <1>3
<1>4. CASE ~EnterAllowed(p)
    BY <1>1, <1>4, GivesUp, OnlyReads DEF Enter
<1> QED BY <1>3, <1>4

LEMMA SweepKeeps ==
    ASSUME IdentityInv, NEW e \in Emails, Sweep(e)
    PROVE  IdentityInv'
<1>1. /\ Shape /\ TypeOK /\ UNCHANGED <<accounts, req, world>>
      /\ app.challenge[e] # NoChallenge /\ app.challenge[e].created + CodeAge <= world.clock
    BY DEF IdentityInv, Sweep
<1>2. app' = [users |-> app.users, sessions |-> app.sessions, states |-> app.states,
              challenge |-> [app.challenge EXCEPT ![e] = NoChallenge],
              github |-> app.github, email |-> app.email]
    BY <1>1 DEF Shape, Sweep
<1>3. /\ app'.users = app.users /\ app'.sessions = app.sessions /\ app'.states = app.states
      /\ app'.github = app.github /\ app'.email = app.email
      /\ app'.challenge = [app.challenge EXCEPT ![e] = NoChallenge]
    BY <1>2
<1>4. /\ app'.challenge[e] = NoChallenge /\ app'.challenge \in [Emails -> ChallengeType]
      /\ \A f \in Emails : f # e => app'.challenge[f] = app.challenge[f]
    BY <1>1, <1>3, NoChallengeType DEF TypeOK
<1>5. TypeOK'
    BY <1>1, <1>3, <1>4 DEF TypeOK
<1>6. Shape'
    BY <1>1, <1>2, <1>3 DEF Shape
<1>7. Owners'
    BY <1>3, OwnersKept DEF IdentityInv
<1>8. Signed'
    BY <1>1, <1>3 DEF IdentityInv, Signed
<1>9. Fresh'
    BY <1>1, <1>3 DEF IdentityInv, Fresh, Over
<1>10. AllRead'
    BY <1>1, <1>3 DEF IdentityInv, AllRead, Reads, Has
<1>11. StatesOnce'
    BY <1>1, <1>3 DEF IdentityInv, StatesOnce, Over
<1>12. CodesOnce'
    BY <1>1, <1>4 DEF IdentityInv, CodesOnce, Coded
<1>13. Spaced'
    <2>1. Sent' = Sent /\ \A m \in Sent : m.email \in Emails /\ m.at \in Nat
        BY <1>1, SentType DEF IdentityInv, Sent
    <2>2. ASSUME NEW f \in Emails, NEW at \in Nat, Trail(f, at) PROVE Trail(f, at)'
        <3>1. CASE f = e
            <4>1. /\ app.challenge[e].created \in Nat /\ world.clock \in Nat /\ CodeAge \in Nat
                BY <1>1, IdentityAssumption DEF TypeOK, ChallengeType, Shape, WorldType
            <4> QED BY <1>1, <1>4, <2>2, <3>1, <4>1 DEF Trail
        <3>2. CASE f # e
            BY <1>1, <1>4, <2>2, <3>2 DEF Trail
        <3> QED BY <3>1, <3>2
    <2>3. \A m, n : Apart(m, n) => Apart(m, n)'
        BY <1>1 DEF Apart
    <2>4. \A f \in Emails : app'.challenge[f].created <= world'.clock
        BY <1>1, <1>4 DEF IdentityInv, Spaced, NoChallenge, Shape, WorldType
    <2> QED BY <1>1, <2>1, <2>2, <2>3, <2>4 DEF IdentityInv, Spaced, Coded
<1>14. Grants'
    BY <1>1, <1>3 DEF IdentityInv, Grants, Obtained
<1> QED BY <1>1, <1>5, <1>6, <1>7, <1>8, <1>9, <1>10, <1>11, <1>12, <1>13, <1>14 DEF IdentityInv

-----------------------------------------------------------------------------
(* Tokens.                                                                   *)

\* One user is updated in place; identities stay.
LEMMA UserUpdated ==
    ASSUME IdentityInv, NEW p \in Requests, NEW r \in ReqType, Moves(p, r), Forward(p, r), Reads(p, r)',
           NEW u, NEW x \in UserType, Has(u), app' = [app EXCEPT !.users[u] = x],
           x.github = app.users[u].github, x.email = app.users[u].email,
           UNCHANGED <<accounts, world>>, r.pc \notin HoldsState, r.pc # "mail",
           (/\ app'.users[u] = x /\ DOMAIN app'.users = DOMAIN app.users
            /\ \A v \in DOMAIN app.users : v # u => app'.users[v] = app.users[v])
             => Grants'
    PROVE  IdentityInv' /\ Refines
<1>1. req \in [Requests -> ReqType] /\ Shape /\ TypeOK
    BY DEF IdentityInv, Shape
<1>2. app' = [users |-> [app.users EXCEPT ![u] = x], sessions |-> app.sessions,
              states |-> app.states, challenge |-> app.challenge,
              github |-> app.github, email |-> app.email]
    BY <1>1 DEF Shape
<1>3. /\ app'.sessions = app.sessions /\ app'.states = app.states
      /\ app'.challenge = app.challenge /\ app'.github = app.github /\ app'.email = app.email
      /\ app'.users = [app.users EXCEPT ![u] = x]
    BY <1>2
<1>4. /\ app'.users[u] = x /\ DOMAIN app'.users = DOMAIN app.users
      /\ \A v \in DOMAIN app.users : v # u => app'.users[v] = app.users[v]
      /\ app'.users = [v \in DOMAIN app'.users |-> app'.users[v]]
    BY <1>1, <1>3 DEF Shape, Has
<1>5. /\ req' \in [Requests -> ReqType] /\ req'[p] = r
      /\ \A y : Over(y) => Over(y)'
    BY <1>1, MovesFacts, StillOver
<1>6. TypeOK'
    BY <1>1, <1>3, <1>4, <1>5, ReqFields DEF TypeOK
<1>7. Shape'
    BY <1>1, <1>2, <1>3, <1>4, <1>5 DEF Shape
<1>8. Owners' /\ UsersGrow
    BY <1>3, <1>4, OwnersKept DEF IdentityInv
<1>9. Signed'
    BY <1>1, <1>3, <1>4, SignedKept DEF IdentityInv
<1>10. Fresh'
    BY <1>3, <1>4, <1>5 DEF IdentityInv, Fresh
<1>11. AllRead'
    BY <1>1, <1>8, AllReadKept DEF IdentityInv
<1>12. StatesOnce'
    BY <1>1, <1>3, StatesKept DEF IdentityInv
<1>13. CodesOnce'
    BY <1>1, <1>3, CodesKept DEF IdentityInv
<1>14. Spaced'
    BY <1>1, <1>3, SpacedKept DEF IdentityInv
<1>15. Grants'
    BY <1>4
<1>16. Refines
    BY <1>3, <1>4, OwnersKept, NothingNew DEF IdentityInv, Issued
<1> QED BY <1>16, <1>6, <1>7, <1>8, <1>9, <1>10, <1>11, <1>12, <1>13, <1>14, <1>15 DEF IdentityInv

\* Two requests that are sending a grant never send the same one.
LEMMA SendersApart ==
    ASSUME Grants, NEW j \in Requests, NEW k \in Requests \ {j},
           req[j].pc \in Sends, req[k].pc \in Sends
    PROVE  req[k].seen.grant # req[j].seen.grant
BY DEF Grants

LEMMA ClaimKeeps ==
    ASSUME IdentityInv, NEW p \in Requests, Claim(p)
    PROVE  IdentityInv' /\ Refines
<1>1. /\ req \in [Requests -> ReqType] /\ Shape /\ TypeOK /\ req[p].pc = "claim"
      /\ UNCHANGED <<accounts, world>> /\ req[p] \in ReqType /\ Reads(p, req[p]) /\ Grants
      /\ p \in Nat /\ p # 0
    BY IdFacts DEF IdentityInv, Shape, Claim, AllRead
<1>2. ASSUME NEW u, NEW x, NEW r, u = req[p].user, x = [req[p].seen EXCEPT !.claim = p],
             r = [req[p] EXCEPT !.pc = "provider"],
             UserOf(u) = req[p].seen, app' = [app EXCEPT !.users[u] = x], req' = [req EXCEPT ![p] = r]
      PROVE  IdentityInv' /\ Refines
    <2>1. /\ req[p].seen \in UserType /\ req[p].seen.github # 0 /\ req[p].seen.grant # 0
          /\ req[p].seen.claim = 0
        BY <1>1, ReqFields DEF Reads
    <2>2. Has(u) /\ app.users[u] = req[p].seen
        BY <1>2, <2>1 DEF UserOf, NoUser
    <2>3. /\ x \in UserType /\ x.github = app.users[u].github /\ x.email = app.users[u].email
          /\ x.grant = app.users[u].grant /\ x.claim = p
        BY <1>1, <1>2, <2>1, <2>2 DEF UserType
    <2>4. /\ r \in ReqType /\ r.pc = "provider" /\ r.seen = req[p].seen /\ r.user = u
        BY <1>1, <1>2 DEF ReqType, Pcs
    <2>5. Moves(p, r) /\ Forward(p, r) /\ Reads(p, r)'
        <3>1. r.session # 0
            BY <1>1, <1>2 DEF Reads, ReqType
        <3> QED BY <1>1, <1>2, <2>1, <2>4, <3>1 DEF Moves, Forward, Reads
    <2>6. ASSUME app'.users[u] = x, DOMAIN app'.users = DOMAIN app.users,
                 \A v \in DOMAIN app.users : v # u => app'.users[v] = app.users[v]
          PROVE  Grants'
        <3>1. /\ \A y : Obtained(y) => Obtained(y)'
              /\ req'[p] = r /\ \A q \in Requests : q # p => req'[q] = req[q]
            BY <1>1, <2>4, <2>5, StillOver, MovesFacts
        <3>2. /\ \A v \in DOMAIN app'.users : v \in DOMAIN app.users /\ app'.users[v].grant = app.users[v].grant
              /\ \A v \in DOMAIN app'.users : v # u => app'.users[v].claim = app.users[v].claim
            BY <2>2, <2>3, <2>6 DEF Has
        <3>3. \A v \in DOMAIN app'.users : Obtained(app.users[v].grant)'
            BY <1>1, <3>1, <3>2 DEF Grants, Obtained
        <3>4. \A v, w \in DOMAIN app'.users :
                app'.users[v].grant # 0 /\ app'.users[v].grant = app'.users[w].grant => v = w
            BY <1>1, <3>2 DEF Grants
        <3>5. \A g \in world'.consumed : Obtained(g)'
            BY <1>1, <3>1 DEF Grants
        <3>6. \A v \in DOMAIN app'.users : app'.users[v].grant # 0 /\ app'.users[v].claim = 0
                => app'.users[v].grant \notin world'.consumed
            BY <1>1, <2>3, <2>6, <3>2 DEF Grants
        \* No request sends this grant: its user would have the claim of that one.
        <3>7. \A q \in Requests : req[q].pc \in Sends => req[q].seen.grant # req[p].seen.grant
            BY <1>1, <2>1, <2>2, IdFacts DEF Grants, Has
        <3>8. ASSUME NEW q \in Requests, req'[q].pc \in Sends
              PROVE  /\ Obtained(req[q].seen.grant)' /\ req'[q].seen.grant \notin world'.consumed
                     /\ \A v \in DOMAIN app'.users : app'.users[v].grant = req'[q].seen.grant
                          => v = req'[q].user /\ app'.users[v].claim = q
                     /\ \A k \in Requests \ {q} : req'[k].pc \in Sends
                          => req'[k].seen.grant # req'[q].seen.grant
            <4>1. CASE q = p
                <5>1. Obtained(req[q].seen.grant)'
                    BY <1>1, <2>2, <2>4, <3>1, <4>1 DEF Grants, Obtained, Has
                <5>2. req'[q].seen.grant \notin world'.consumed
                    BY <1>1, <2>1, <2>2, <2>4, <3>1, <4>1 DEF Grants, Has
                <5>3. \A v \in DOMAIN app'.users : app'.users[v].grant = req'[q].seen.grant
                          => v = req'[q].user /\ app'.users[v].claim = q
                    BY <1>1, <2>1, <2>2, <2>3, <2>4, <2>6, <3>1, <3>2, <4>1 DEF Grants, Has
                <5>4. \A k \in Requests \ {q} : req'[k].pc \in Sends
                          => req'[k].seen.grant # req'[q].seen.grant
                    BY <2>4, <3>1, <3>7, <4>1
                <5> QED BY <5>1, <5>2, <5>3, <5>4
            <4>2. CASE q # p
                <5>1. req'[q] = req[q] /\ req[q].pc \in Sends /\ req[q].seen.grant # req[p].seen.grant
                    BY <3>1, <3>7, <3>8, <4>2
                <5>2. Obtained(req[q].seen.grant)' /\ req[q].seen.grant \notin world'.consumed
                    BY <1>1, <3>1, <5>1 DEF Grants, Obtained
                <5>3. \A v \in DOMAIN app'.users : app'.users[v].grant = req[q].seen.grant
                          => v = req[q].user /\ app'.users[v].claim = q
                    BY <1>1, <2>2, <2>3, <3>2, <5>1 DEF Grants, Has
                <5>4. \A k \in Requests \ {q} : req'[k].pc \in Sends
                          => req'[k].seen.grant # req[q].seen.grant
                    <6>1. req'[p].seen.grant # req[q].seen.grant
                        BY <2>4, <3>1, <5>1
                    <6>2. \A k \in Requests \ {p, q} : req'[k].pc \in Sends
                            => req'[k].seen.grant # req[q].seen.grant
                        BY <1>1, <3>1, <5>1, SendersApart
                    <6> QED BY <6>1, <6>2
                <5> QED BY <5>1, <5>2, <5>3, <5>4
            <4> QED BY <4>1, <4>2
        <3> QED BY <3>3, <3>4, <3>5, <3>6, <3>8 DEF Grants
    <2>7. r.pc \notin HoldsState /\ r.pc # "mail"
        BY <2>4 DEF HoldsState
    <2> QED BY <1>1, <1>2, <2>2, <2>3, <2>4, <2>5, <2>6, <2>7, UserUpdated
<1>3. CASE app' = app
    BY <1>1, <1>3, GivesUp, OnlyReads DEF Claim
<1>4. CASE app' # app
    <2>1. /\ UserOf(req[p].user) = req[p].seen
          /\ app' = [app EXCEPT !.users[req[p].user] = [req[p].seen EXCEPT !.claim = p]]
          /\ req' = [req EXCEPT ![p].pc = "provider"]
        BY <1>4 DEF Claim, Publish
    <2> QED BY <1>2, <2>1
<1> QED BY <1>3, <1>4

LEMMA ProviderKeeps ==
    ASSUME IdentityInv, NEW p \in Requests, Provider(p)
    PROVE  IdentityInv'
<1>1. /\ req \in [Requests -> ReqType] /\ Shape /\ TypeOK /\ req[p].pc = "provider"
      /\ UNCHANGED <<app, accounts>> /\ req[p] \in ReqType /\ Reads(p, req[p]) /\ Grants
    BY DEF IdentityInv, Shape, Provider, AllRead
\* GitHub took the token; the answer arrives or is lost.
<1>2. ASSUME NEW r \in ReqType, Moves(p, r), Forward(p, r), r.pc \in {"rotated", "done"}, Reads(p, r)',
             req[p].seen.grant \notin world.consumed,
             world' = [world EXCEPT !.consumed = @ \cup {req[p].seen.grant}]
      PROVE  IdentityInv'
    <2>1. /\ world'.consumed = world.consumed \cup {req[p].seen.grant} /\ world' \in WorldType
          /\ world'.clock = world.clock /\ world'.left = world.left /\ world'.used = world.used
          /\ world'.mails = world.mails /\ world'.spent = world.spent
          /\ world'.twice = world.twice
        <3>1. req[p].seen.grant \in Nat
            BY <1>1, ReqFields, UserFields
        <3> QED BY <1>1, <1>2, <3>1 DEF Shape, WorldType
    <2>2. /\ req' \in [Requests -> ReqType] /\ req'[p] = r
          /\ \A q \in Requests : q # p => req'[q] = req[q]
          /\ \A y : Obtained(y) => Obtained(y)'
        BY <1>1, <1>2, MovesFacts, StillOver
    <2>3. r.pc \notin Sends /\ r.pc \notin HoldsState /\ r.pc # "mail" /\ req[p].pc \in Sends
        BY <1>1, <1>2 DEF Sends, HoldsState
    <2>4. TypeOK'
        BY <1>1, <2>2, ReqFields DEF TypeOK
    <2>5. Shape'
        BY <1>1, <2>1, <2>2 DEF Shape
    <2>6. Owners' /\ UsersGrow
        BY <1>1, OwnersKept DEF IdentityInv
    <2>7. Signed'
        BY <1>1, SignedKept DEF IdentityInv
    <2>8. Fresh'
        BY <1>1, <1>2, <2>1, FreshKept DEF IdentityInv
    <2>9. AllRead'
        BY <1>1, <1>2, <2>1, <2>6, AllReadKept DEF IdentityInv
    <2>10. StatesOnce'
        BY <1>1, <1>2, <2>1, <2>3, StatesKept DEF IdentityInv
    <2>11. CodesOnce'
        BY <1>1, <1>2, <2>1, CodesKept DEF IdentityInv
    <2>12. Spaced'
        BY <1>1, <1>2, <2>1, <2>3, SpacedKept DEF IdentityInv
    <2>13. Grants'
        <3>1. Obtained(req[p].seen.grant) /\ \A v \in DOMAIN app.users :
                app.users[v].grant = req[p].seen.grant => app.users[v].claim = p
            BY <1>1, <2>3 DEF Grants
        <3>2. \A v \in DOMAIN app'.users : Obtained(app.users[v].grant)'
            BY <1>1, <2>2 DEF Grants, Obtained
        <3>3. \A g \in world'.consumed : Obtained(g)'
            BY <1>1, <2>1, <2>2, <3>1 DEF Grants
        <3>4. \A v \in DOMAIN app'.users : app'.users[v].grant # 0 /\ app'.users[v].claim = 0
                => app'.users[v].grant \notin world'.consumed
            BY <1>1, <2>1, <3>1, IdFacts DEF Grants
        <3>5. ASSUME NEW q \in Requests, req'[q].pc \in Sends
              PROVE  /\ Obtained(req[q].seen.grant)' /\ req'[q].seen.grant \notin world'.consumed
                     /\ \A v \in DOMAIN app'.users : app'.users[v].grant = req'[q].seen.grant
                          => v = req'[q].user /\ app'.users[v].claim = q
                     /\ \A k \in Requests \ {q} : req'[k].pc \in Sends
                          => req'[k].seen.grant # req'[q].seen.grant
            <4>1. q # p /\ req'[q] = req[q] /\ req[q].pc \in Sends
                BY <2>2, <2>3, <3>5
            <4>2. Obtained(req[q].seen.grant)' /\ req[q].seen.grant # req[p].seen.grant
                BY <1>1, <2>2, <2>3, <4>1 DEF Grants, Obtained
            <4> QED BY <1>1, <2>1, <2>2, <2>3, <4>1, <4>2 DEF Grants
        <3>6. \A v, w \in DOMAIN app'.users :
                app'.users[v].grant # 0 /\ app'.users[v].grant = app'.users[w].grant => v = w
            BY <1>1 DEF Grants
        <3> QED BY <3>2, <3>3, <3>4, <3>5, <3>6 DEF Grants
    <2> QED BY <2>1, <2>4, <2>5, <2>6, <2>7, <2>8, <2>9, <2>10, <2>11, <2>12, <2>13 DEF IdentityInv
<1>3. ASSUME NEW answer \in {"rotated", "rejected", "reauthorize"}, NEW r,
             r = [req[p] EXCEPT !.pc = answer], req' = [req EXCEPT ![p].pc = answer]
      PROVE  /\ r \in ReqType /\ r.pc = answer /\ r.seen = req[p].seen /\ r.user = req[p].user
             /\ Moves(p, r) /\ Forward(p, r) /\ Reads(p, r)'
    <2>1. /\ r \in ReqType /\ r.pc = answer /\ r.seen = req[p].seen /\ r.user = req[p].user
          /\ r.session = req[p].session
        BY <1>1, <1>3 DEF ReqType, Pcs
    <2>2. Moves(p, r) /\ Forward(p, r)
        BY <1>1, <1>3, <2>1 DEF Moves, Forward
    <2>3. Reads(p, r)'
        BY <1>1, <2>1 DEF Reads
    <2> QED BY <2>1, <2>2, <2>3
<1>4. ASSUME req[p].seen.grant \notin world.consumed,
             world' = [world EXCEPT !.consumed = @ \cup {req[p].seen.grant}],
             req' = [req EXCEPT ![p].pc = "rotated"]
      PROVE  IdentityInv'
    <2>1. ASSUME NEW r, r = [req[p] EXCEPT !.pc = "rotated"] PROVE IdentityInv'
        BY <1>2, <1>3, <1>4, <2>1
    <2> QED BY <2>1
<1>5. ASSUME req[p].seen.grant \notin world.consumed,
             world' = [world EXCEPT !.consumed = @ \cup {req[p].seen.grant}], Ended(p)
      PROVE  IdentityInv'
    <2>1. Moves(p, Finished) /\ Forward(p, Finished)
        BY <1>1, <1>5, EndedMoves
    <2> QED BY <1>2, <1>5, <2>1, FinishedType, FinishedReads
<1>6. ASSUME NEW answer \in {"rejected", "reauthorize"}, req' = [req EXCEPT ![p].pc = answer], UNCHANGED world
      PROVE  IdentityInv'
    <2>1. ASSUME NEW r, r = [req[p] EXCEPT !.pc = answer] PROVE IdentityInv'
        <3>1. /\ r \in ReqType /\ r.pc = answer /\ r.seen = req[p].seen /\ r.user = req[p].user
              /\ Moves(p, r) /\ Forward(p, r) /\ Reads(p, r)'
            BY <1>3, <1>6, <2>1
        <3> QED BY <1>1, <1>6, <3>1, OnlyMoves DEF HoldsState, Sends
    <2> QED BY <2>1
<1>7. ASSUME Ended(p), UNCHANGED world PROVE IdentityInv'
    BY <1>1, <1>7, GivesUp
<1> QED BY <1>4, <1>5, <1>6, <1>7 DEF Provider

LEMMA RotateKeeps ==
    ASSUME IdentityInv, NEW p \in Requests, Rotate(p)
    PROVE  IdentityInv' /\ Refines
<1>1. /\ req \in [Requests -> ReqType] /\ Shape /\ TypeOK /\ Ended(p) /\ Grants
      /\ req[p].pc \in {"rotated", "rejected", "reauthorize"} /\ req[p].pc # "done"
      /\ UNCHANGED <<accounts, world>> /\ req[p] \in ReqType /\ Reads(p, req[p])
      /\ p \in Nat /\ p # 0
    BY IdFacts DEF IdentityInv, Shape, Rotate, AllRead
<1>2. /\ Moves(p, Finished) /\ Forward(p, Finished)
    BY <1>1, EndedMoves
<1>3. /\ req'[p] = Finished /\ (\A q \in Requests : q # p => req'[q] = req[q])
      /\ (\A y : Obtained(y) => Obtained(y)')
    BY <1>1, <1>2, StillOver, MovesFacts, FinishedType
<1>4. ASSUME NEW u, NEW x, u = req[p].user, StillClaimed(p),
             x = CASE req[p].pc = "rotated" -> [app.users[u] EXCEPT !.grant = p, !.claim = 0]
                   [] req[p].pc = "rejected" -> [app.users[u] EXCEPT !.claim = 0]
                   [] OTHER -> [app.users[u] EXCEPT !.claim = 0, !.grant = 0],
             Has(u), app' = [app EXCEPT !.users[u] = x]
      PROVE  IdentityInv' /\ Refines
    <2>1. /\ app.users[u] \in UserType /\ app.users[u].claim = p
          /\ app.users[u].grant = req[p].seen.grant
        BY <1>1, <1>4 DEF TypeOK, Has, StillClaimed, UserOf
    <2>2. /\ x \in UserType /\ x.github = app.users[u].github /\ x.email = app.users[u].email
          /\ req[p].pc = "rotated" => x.grant = p
          /\ req[p].pc = "rejected" => x.grant = app.users[u].grant
          /\ req[p].pc = "reauthorize" => x.grant = 0
        <3>1. CASE req[p].pc = "rotated"
            BY <1>1, <1>4, <2>1, <3>1 DEF UserType
        <3>2. CASE req[p].pc = "rejected"
            BY <1>1, <1>4, <2>1, <3>2 DEF UserType
        <3>3. CASE req[p].pc = "reauthorize"
            BY <1>1, <1>4, <2>1, <3>3 DEF UserType
        <3> QED BY <1>1, <3>1, <3>2, <3>3
    <2>3. ASSUME app'.users[u] = x, DOMAIN app'.users = DOMAIN app.users,
                 \A v \in DOMAIN app.users : v # u => app'.users[v] = app.users[v]
          PROVE  Grants'
        <3>1. CASE req[p].pc = "rotated"
            <4>1. ~Obtained(p) /\ Obtained(p)'
                BY <1>1, <1>3, <3>1, FinishedType DEF Obtained
            <4>2. DOMAIN app'.users = DOMAIN app.users \cup {u}
                BY <1>4, <2>3 DEF Has
            <4> QED BY <1>1, <1>2, <2>2, <2>3, <3>1, <4>1, <4>2, GrantGiven, FinishedType, FinishedReads
        <3>2. CASE req[p].pc # "rotated"
            \* The grant stays without the claim when this request still holds it.
            <4>1. \A v \in DOMAIN app'.users :
                    /\ v \in DOMAIN app.users
                    /\ app'.users[v].grant \in {0, app.users[v].grant}
                    /\ v # u => app'.users[v] = app.users[v]
                BY <1>1, <1>4, <2>2, <2>3, <3>2 DEF Has
            <4>2. app'.users[u].grant # 0 => req[p].pc \in Sends /\ app'.users[u].grant = req[p].seen.grant
                BY <1>1, <2>1, <2>2, <2>3, <3>2 DEF Sends
            <4>3. \A v \in DOMAIN app'.users : Obtained(app.users[v].grant)'
                BY <1>1, <1>3, <4>1, IdFacts DEF Grants, Obtained
            <4>4. \A v, w \in DOMAIN app'.users :
                    app'.users[v].grant # 0 /\ app'.users[v].grant = app'.users[w].grant => v = w
                BY <1>1, <4>1 DEF Grants
            <4>5. \A g \in world'.consumed : Obtained(g)'
                BY <1>1, <1>3 DEF Grants
            <4>6. \A v \in DOMAIN app'.users : app'.users[v].grant # 0 /\ app'.users[v].claim = 0
                    => app'.users[v].grant \notin world'.consumed
                BY <1>1, <4>1, <4>2 DEF Grants
            <4>7. ASSUME NEW q \in Requests, req'[q].pc \in Sends
                  PROVE  /\ Obtained(req[q].seen.grant)' /\ req'[q].seen.grant \notin world'.consumed
                         /\ \A v \in DOMAIN app'.users : app'.users[v].grant = req'[q].seen.grant
                              => v = req'[q].user /\ app'.users[v].claim = q
                         /\ \A k \in Requests \ {q} : req'[k].pc \in Sends
                              => req'[k].seen.grant # req'[q].seen.grant
                <5>1. q # p /\ req'[q] = req[q] /\ req[q].pc \in Sends
                    BY <1>3, <4>7, FinishedReads
                <5>2. Obtained(req[q].seen.grant)' /\ req[q].seen.grant \notin world'.consumed
                    BY <1>1, <1>3, <5>1 DEF Grants, Obtained
                <5>3. req[q].seen.grant # 0
                    BY <5>1 DEF IdentityInv, AllRead, Reads, Sends
                <5>4. \A v \in DOMAIN app'.users : app'.users[v].grant = req[q].seen.grant
                              => v = req[q].user /\ app'.users[v].claim = q
                    <6>1. \A v \in DOMAIN app.users : app.users[v].grant = req[q].seen.grant
                              => v = req[q].user /\ app.users[v].claim = q
                        BY <1>1, <5>1 DEF Grants
                    <6>2. u \in DOMAIN app.users /\ app.users[u].grant # req[q].seen.grant
                        BY <1>4, <2>1, <5>1, <6>1 DEF Has
                    <6> QED BY <4>1, <5>3, <6>1, <6>2
                <5>5. \A k \in Requests \ {q} : req'[k].pc \in Sends
                              => req'[k].seen.grant # req[q].seen.grant
                    <6>1. \A k \in Requests : req'[k].pc \in Sends =>
                            req'[k] = req[k] /\ req[k].pc \in Sends
                        BY <1>3, FinishedReads
                    <6>2. \A k \in Requests \ {q} : req[k].pc \in Sends
                              => req[k].seen.grant # req[q].seen.grant
                        BY <1>1, <5>1 DEF Grants
                    <6> QED BY <6>1, <6>2
                <5> QED BY <5>1, <5>2, <5>4, <5>5
            <4> QED BY <4>3, <4>4, <4>5, <4>6, <4>7 DEF Grants
        <3> QED BY <3>1, <3>2
    <2> QED BY <1>1, <1>2, <1>4, <2>2, <2>3, UserUpdated, FinishedType, FinishedReads
<1>5. CASE app' = app
    BY <1>1, <1>5, GivesUp, OnlyReads
<1>6. CASE app' # app
    <2>1. StillClaimed(p) /\ Has(req[p].user) /\ UserOf(req[p].user) = app.users[req[p].user]
        <3>1. StillClaimed(p)
            BY <1>6 DEF Rotate
        <3>2. Has(req[p].user)
            BY <1>1, <3>1 DEF StillClaimed, UserOf, NoUser
        <3> QED BY <3>1, <3>2 DEF UserOf
    <2>2. ASSUME NEW u, u = req[p].user PROVE IdentityInv' /\ Refines
        <3>1. app' = Publish(p, app.users[u],
                        CASE req[p].pc = "rotated" -> [app.users[u] EXCEPT !.grant = p, !.claim = 0]
                          [] req[p].pc = "rejected" -> [app.users[u] EXCEPT !.claim = 0]
                          [] OTHER -> [app.users[u] EXCEPT !.claim = 0, !.grant = 0])
            BY <2>1, <2>2 DEF Rotate
        <3>2. app' = [app EXCEPT !.users[u] =
                        CASE req[p].pc = "rotated" -> [app.users[u] EXCEPT !.grant = p, !.claim = 0]
                          [] req[p].pc = "rejected" -> [app.users[u] EXCEPT !.claim = 0]
                          [] OTHER -> [app.users[u] EXCEPT !.claim = 0, !.grant = 0]]
            BY <1>6, <2>2, <3>1 DEF Publish
        <3> QED BY <1>4, <2>1, <2>2, <3>2
    <2> QED BY <2>2
<1> QED BY <1>5, <1>6

-----------------------------------------------------------------------------
(* Steps that belong to no request.                                          *)

LEMMA SignOutKeeps ==
    ASSUME IdentityInv, SignOut
    PROVE  IdentityInv' /\ Refines
<1>1. PICK s \in DOMAIN app.sessions :
        /\ app' = [app EXCEPT !.sessions = Drop(@, s)]
        /\ world' = [world EXCEPT !.left = @ \cup {s}]
        /\ UNCHANGED <<accounts, req>>
    BY DEF SignOut
<1>2. Shape /\ TypeOK /\ s \in UserIds
    BY DEF IdentityInv, Shape
<1>3. app' = [users |-> app.users, sessions |-> Drop(app.sessions, s), states |-> app.states,
              challenge |-> app.challenge, github |-> app.github, email |-> app.email]
    BY <1>1, <1>2, AppFields
<1>4. /\ app'.users = app.users /\ app'.states = app.states /\ app'.challenge = app.challenge
      /\ app'.github = app.github /\ app'.email = app.email
      /\ DOMAIN app'.sessions = DOMAIN app.sessions \ {s}
      /\ \A t \in DOMAIN app'.sessions : app'.sessions[t] = app.sessions[t]
      /\ app'.sessions = [t \in DOMAIN app'.sessions |-> app'.sessions[t]]
    <2>1. /\ app'.users = app.users /\ app'.states = app.states /\ app'.challenge = app.challenge
          /\ app'.github = app.github /\ app'.email = app.email
          /\ app'.sessions = Drop(app.sessions, s)
        BY <1>3
    <2> QED BY <2>1 DEF Drop
<1>5. /\ world' \in WorldType /\ world'.left = world.left \cup {s}
      /\ world'.clock = world.clock /\ world'.used = world.used
      /\ world'.mails = world.mails /\ world'.consumed = world.consumed
      /\ world'.spent = world.spent /\ world'.twice = world.twice
    BY <1>1, <1>2 DEF Shape, WorldType
<1>6. TypeOK'
    BY <1>1, <1>2, <1>4 DEF TypeOK
<1>7. Shape'
    BY <1>1, <1>2, <1>3, <1>4, <1>5 DEF Shape
<1>8. Owners'
    BY <1>4, OwnersKept DEF IdentityInv
<1>9. Signed'
    BY <1>1, <1>4 DEF IdentityInv, Signed
<1>10. Fresh'
    BY <1>1, <1>4, <1>5 DEF IdentityInv, Fresh, Over
<1>11. AllRead'
    BY <1>1, <1>4, <1>5 DEF IdentityInv, AllRead, Reads, Has
<1>12. StatesOnce'
    BY <1>1, <1>4, <1>5 DEF IdentityInv, StatesOnce, Over
<1>13. CodesOnce'
    BY <1>1, <1>4, <1>5 DEF IdentityInv, CodesOnce, Coded
<1>14. Spaced'
    BY <1>1, <1>4, <1>5 DEF IdentityInv, Spaced, Sent, Trail, Apart, Coded
<1>15. Grants'
    BY <1>1, <1>4, <1>5 DEF IdentityInv, Grants, Obtained
<1>16. Refines
    <2>1. Owner' = Owner /\ Issued' = Issued
        BY <1>4, <1>5, OwnersKept DEF IdentityInv, Issued
    <2>2. app'.sessions = [t \in DOMAIN app.sessions \ {s} |-> app.sessions[t]]
        BY <1>4
    <2>3. Registry!Leave(s)
        BY <1>1, <2>1, <2>2 DEF Registry!Leave, Owner, Ids, Issued
    <2> QED BY <2>3, NextOwner
<1> QED BY <1>16, <1>5, <1>6, <1>7, <1>8, <1>9, <1>10, <1>11, <1>12, <1>13, <1>14, <1>15 DEF IdentityInv

LEMMA WriteUserKeeps ==
    ASSUME IdentityInv, NEW u \in UserIds, WriteUser(u)
    PROVE  IdentityInv' /\ Refines
<1>1. Shape /\ TypeOK /\ Has(u) /\ UNCHANGED <<accounts, req, world>>
    BY DEF IdentityInv, WriteUser
<1>2. app' = [users |-> [app.users EXCEPT ![u].writes = @ + 1], sessions |-> app.sessions,
              states |-> app.states, challenge |-> app.challenge,
              github |-> app.github, email |-> app.email]
    BY <1>1 DEF Shape, WriteUser
<1>3. /\ app'.sessions = app.sessions /\ app'.states = app.states
      /\ app'.challenge = app.challenge /\ app'.github = app.github /\ app'.email = app.email
      /\ app'.users = [app.users EXCEPT ![u].writes = @ + 1]
    BY <1>2
<1>4. /\ DOMAIN app'.users = DOMAIN app.users
      /\ app'.users[u] = [app.users[u] EXCEPT !.writes = @ + 1]
      /\ \A v \in DOMAIN app.users : v # u => app'.users[v] = app.users[v]
      /\ app'.users = [v \in DOMAIN app'.users |-> app'.users[v]]
    BY <1>1, <1>3 DEF Shape, Has
<1>5. /\ app'.users[u] \in UserType /\ app'.users[u].github = app.users[u].github
      /\ app'.users[u].email = app.users[u].email /\ app'.users[u].grant = app.users[u].grant
      /\ app'.users[u].claim = app.users[u].claim
    BY <1>1, <1>4 DEF UserType, TypeOK, Has
<1>6. TypeOK'
    BY <1>1, <1>3, <1>4, <1>5 DEF TypeOK, Has
<1>7. Shape'
    BY <1>1, <1>2, <1>3, <1>4 DEF Shape
<1>8. Owners' /\ UsersGrow
    BY <1>3, <1>4, <1>5, OwnersKept DEF IdentityInv
<1>9. Signed'
    BY <1>1, <1>3, <1>4, <1>5, SignedKept DEF IdentityInv
<1>10. Fresh'
    BY <1>1, <1>3, <1>4 DEF IdentityInv, Fresh, Over
<1>11. AllRead'
    <2>1. \A q \in Requests : \A r \in ReqType : Reads(q, r) => Reads(q, r)'
        BY <1>1, <1>8, StillReads
    <2> QED BY <1>1, <2>1 DEF IdentityInv, AllRead, Shape
<1>12. StatesOnce'
    BY <1>1, <1>3 DEF IdentityInv, StatesOnce, Over
<1>13. CodesOnce'
    BY <1>1, <1>3 DEF IdentityInv, CodesOnce, Coded
<1>14. Spaced'
    BY <1>1, <1>3 DEF IdentityInv, Spaced, Sent, Trail, Apart, Coded
<1>15. Grants'
    <2>1. \A v \in DOMAIN app'.users :
            app'.users[v].grant = app.users[v].grant /\ app'.users[v].claim = app.users[v].claim
        BY <1>1, <1>4, <1>5 DEF Has
    <2> QED BY <1>1, <1>4, <2>1 DEF IdentityInv, Grants, Obtained
<1>16. Refines
    BY <1>1, <1>3, <1>4, <1>5, OwnersKept, NothingNew DEF IdentityInv, Issued
<1> QED BY <1>16, <1>1, <1>6, <1>7, <1>8, <1>9, <1>10, <1>11, <1>12, <1>13, <1>14, <1>15 DEF IdentityInv

LEMMA TickKeeps ==
    ASSUME IdentityInv, Tick
    PROVE  IdentityInv'
<1>1. /\ Shape /\ TypeOK /\ UNCHANGED <<app, accounts, req>>
      /\ world' = [world EXCEPT !.clock = @ + 1]
      /\ \A p \in Requests :
           req[p].pc \in {"code", "mail"} => world.clock < req[p].now + SendInterval
    BY DEF IdentityInv, Tick
<1>2. /\ world.clock \in Nat /\ world'.clock = world.clock + 1 /\ world' \in WorldType
      /\ world'.left = world.left /\ world'.used = world.used
      /\ world'.mails = world.mails /\ world'.consumed = world.consumed
      /\ world'.spent = world.spent /\ world'.twice = world.twice
    BY <1>1 DEF Shape, WorldType
<1>3. TypeOK' /\ Shape'
    BY <1>1, <1>2 DEF TypeOK, Shape
<1>4. Owners' /\ Signed' /\ Fresh'
    BY <1>1, <1>2 DEF IdentityInv, Owners, Signed, Fresh, Over, Has, GithubOwner, UserOf
<1>5. AllRead'
    <2>1. ASSUME NEW p \in Requests, req[p].pc \in {"code", "mail"}
          PROVE  req[p].now <= world'.clock /\ world'.clock <= req[p].now + SendInterval
        <3>1. req[p].now \in Nat /\ SendInterval \in Nat /\ req[p].now <= world.clock
            BY <1>1, <2>1, ReqFields, IdentityAssumption DEF IdentityInv, AllRead, Reads, Shape
        <3> QED BY <1>1, <1>2, <2>1, <3>1
    <2> QED BY <1>1, <1>2, <2>1 DEF IdentityInv, AllRead, Reads, Has
<1>6. StatesOnce' /\ CodesOnce'
    BY <1>1, <1>2 DEF IdentityInv, StatesOnce, CodesOnce, Over, Coded
<1>7. Spaced'
    <2>1. Sent' = Sent /\ \A m \in Sent : m.email \in Emails /\ m.at \in Nat
        BY <1>1, <1>2, SentType DEF IdentityInv, Sent
    <2>2. ASSUME NEW e \in Emails, NEW at \in Nat, Trail(e, at) PROVE Trail(e, at)'
        BY <1>1, <1>2, <2>2, IdentityAssumption DEF Trail
    <2>3. \A m, n : Apart(m, n) => Apart(m, n)'
        BY <1>2 DEF Apart
    <2>4. \A code \in world'.used : code.at <= world'.clock
        BY <1>1, <1>2 DEF IdentityInv, Spaced, Shape, WorldType
    <2>5. \A e \in Emails : app'.challenge[e].created <= world'.clock
        BY <1>1, <1>2 DEF IdentityInv, Spaced, TypeOK, ChallengeType
    <2>6. \A m \in Sent' : Trail(m.email, m.at)' /\ m.at <= world'.clock /\ Coded(m.id)'
        BY <1>1, <1>2, <2>1, <2>2 DEF IdentityInv, Spaced, Coded
    <2> QED BY <2>1, <2>3, <2>4, <2>5, <2>6 DEF IdentityInv, Spaced
<1>8. Grants'
    BY <1>1, <1>2 DEF IdentityInv, Grants, Obtained
<1> QED BY <1>2, <1>3, <1>4, <1>5, <1>6, <1>7, <1>8 DEF IdentityInv

-----------------------------------------------------------------------------
(* The invariant.                                                            *)

LEMMA InitHolds == Init => IdentityInv
<1> SUFFICES ASSUME Init PROVE IdentityInv
    OBVIOUS
<1>0. PICK mailUser \in BOOLEAN, linked \in BOOLEAN, gitUser \in BOOLEAN, begun \in BOOLEAN,
         e \in Emails, g \in Githubs :
        LET byMail == [NoUser EXCEPT !.email = e, !.github = IF linked THEN g ELSE 0,
                         !.grant = IF linked THEN Past ELSE 0]
            byGit == [NoUser EXCEPT !.github = g, !.grant = Past]
            known == (IF mailUser THEN {Past} ELSE {}) \cup (IF gitUser THEN {LegacyUser(g)} ELSE {})
        IN  /\ linked => mailUser /\ ~gitUser
            /\ begun => mailUser /\ ~linked /\ ~gitUser
            /\ app = [users |-> [u \in known |-> IF u = Past THEN byMail ELSE byGit],
                      sessions |-> [u \in known |-> u],
                      states |-> [c \in (IF begun THEN {Past} ELSE {}) |->
                                    [kind |-> "login", session |-> 0, user |-> 0]],
                      challenge |-> [x \in Emails |-> NoChallenge],
                      github |-> [x \in Githubs |-> IF linked /\ x = g THEN Past ELSE 0],
                      email |-> [x \in Emails |-> IF mailUser /\ x = e THEN Past ELSE 0]]
            /\ accounts = DOMAIN app.users
            /\ req = [p \in Requests |-> NewRequest]
            /\ world = [clock |-> 0, consumed |-> {}, mails |-> {}, spent |-> {},
                        used |-> {}, twice |-> FALSE, left |-> {}]
    BY DEF Init
<1> DEFINE byMail == [NoUser EXCEPT !.email = e, !.github = IF linked THEN g ELSE 0,
                         !.grant = IF linked THEN Past ELSE 0]
           byGit == [NoUser EXCEPT !.github = g, !.grant = Past]
           known == (IF mailUser THEN {Past} ELSE {}) \cup (IF gitUser THEN {LegacyUser(g)} ELSE {})
<1>1. /\ linked => mailUser /\ ~gitUser
      /\ app.users = [u \in known |-> IF u = Past THEN byMail ELSE byGit]
      /\ app.sessions = [u \in known |-> u]
      /\ app.states = [c \in (IF begun THEN {Past} ELSE {}) |->
                                    [kind |-> "login", session |-> 0, user |-> 0]]
      /\ app.challenge = [x \in Emails |-> NoChallenge]
      /\ app.github = [x \in Githubs |-> IF linked /\ x = g THEN Past ELSE 0]
      /\ app.email = [x \in Emails |-> IF mailUser /\ x = e THEN Past ELSE 0]
      /\ accounts = DOMAIN app.users
      /\ req = [p \in Requests |-> NewRequest]
      /\ world = [clock |-> 0, consumed |-> {}, mails |-> {}, spent |-> {},
                  used |-> {}, twice |-> FALSE, left |-> {}]
    BY <1>0
<1>2. /\ app = [users |-> app.users, sessions |-> app.sessions, states |-> app.states,
                challenge |-> app.challenge, github |-> app.github, email |-> app.email]
    BY <1>0
<1>3. /\ byMail \in UserType /\ byMail.email = e /\ byMail.claim = 0
      /\ byMail.github = (IF linked THEN g ELSE 0) /\ byMail.grant = (IF linked THEN Past ELSE 0)
    BY IdFacts, NoUserType DEF UserType, NoUser
<1>4. /\ byGit \in UserType /\ byGit.email = 0 /\ byGit.claim = 0
      /\ byGit.github = g /\ byGit.grant = Past
    BY IdFacts, NoUserType DEF UserType, NoUser
<1> HIDE DEF byMail, byGit
<1>5. /\ known \subseteq UserIds /\ (Past \in known <=> mailUser)
      /\ \A u \in known : u # Past => gitUser /\ u = LegacyUser(g)
      /\ LegacyUser(g) \in known <=> gitUser
    BY IdFacts
<1> HIDE DEF known
<1>6. /\ DOMAIN app.users = known /\ DOMAIN app.sessions = known /\ accounts = known
      /\ DOMAIN app.states \subseteq {Past}
      /\ \A u \in known : app.users[u] = IF u = Past THEN byMail ELSE byGit
      /\ \A s \in known : app.sessions[s] = s
      /\ \A c \in DOMAIN app.states : app.states[c] = [kind |-> "login", session |-> 0, user |-> 0]
      /\ \A p \in Requests : req[p] = NewRequest
    BY <1>1
<1>7. NewRequest \in ReqType /\ NewRequest.pc = "new"
    BY FinishedType DEF NewRequest
<1>8. TypeOK
    <2>1. \A u \in DOMAIN app.users : app.users[u] \in UserType
        BY <1>3, <1>4, <1>6
    <2>2. /\ app.challenge \in [Emails -> ChallengeType]
          /\ app.github \in [Githubs -> UserIds \cup {0}]
          /\ app.email \in [Emails -> UserIds \cup {0}]
        BY <1>1, NoChallengeType, IdFacts
    <2>3. \A p \in Requests : req[p].seen \in UserType /\ req[p].held \in ChallengeType
        BY <1>6, <1>7, ReqFields
    <2> QED BY <1>5, <1>6, <2>1, <2>2, <2>3 DEF TypeOK
<1>9. Shape
    <2>1. world \in WorldType
        BY <1>1 DEF WorldType
    <2>2. req \in [Requests -> ReqType]
        BY <1>1, <1>7
    <2>3. \A c \in DOMAIN app.states : app.states[c] \in StateType
        BY <1>6 DEF StateType
    <2> QED BY <1>1, <1>2, <1>5, <1>6, <2>1, <2>2, <2>3, IdFacts DEF Shape
<1>10. Owners
    <2>1. GithubOwner(g) = (IF linked THEN Past ELSE IF gitUser THEN LegacyUser(g) ELSE 0)
        BY <1>1, <1>3, <1>4, <1>5, <1>6, IdFacts DEF GithubOwner, UserOf, Has, NoUser
    <2>2. \A u \in DOMAIN app.users : app.users[u].github # 0 => GithubOwner(app.users[u].github) = u
        BY <1>1, <1>3, <1>4, <1>5, <1>6, <2>1
    <2>3. \A k \in Githubs : app.github[k] # 0 =>
            app.github[k] \in DOMAIN app.users /\ app.users[app.github[k]].github = k
        BY <1>1, <1>3, <1>5, <1>6
    <2>4. \A k \in Githubs : LegacyUser(k) \in DOMAIN app.users => app.users[LegacyUser(k)].github = k
        <3>1. ASSUME NEW k \in Githubs, LegacyUser(k) \in DOMAIN app.users
              PROVE  app.users[LegacyUser(k)].github = k
            <4>1. LegacyUser(k) \in known /\ LegacyUser(k) # Past
                BY <1>6, <3>1, IdFacts
            <4>2. LegacyUser(k) = LegacyUser(g) /\ k = g
                BY <1>5, <4>1, IdFacts
            <4> QED BY <1>4, <1>6, <4>1, <4>2
        <3> QED BY <3>1
    <2>5. /\ \A u \in DOMAIN app.users : app.users[u].email # 0 => app.email[app.users[u].email] = u
          /\ \A f \in Emails : app.email[f] # 0 =>
                app.email[f] \in DOMAIN app.users /\ app.users[app.email[f]].email = f
        BY <1>1, <1>3, <1>4, <1>5, <1>6
    <2> QED BY <2>2, <2>3, <2>4, <2>5 DEF Owners, Has
<1>11. Signed
    BY <1>6 DEF Signed
<1>12. \A u \in known : u \notin Requests
    BY <1>5, IdFacts
<1>13. Fresh
    BY <1>1, <1>6, <1>12, IdFacts DEF Fresh, Over
<1>14. AllRead
    BY <1>6, <1>7 DEF AllRead, Reads
<1>15. StatesOnce
    BY <1>1, <1>6, <1>7 DEF StatesOnce, HoldsState
<1>16. CodesOnce
    BY <1>1 DEF CodesOnce
<1>17. Spaced
    <2>1. Sent = {}
        BY <1>1, <1>6, <1>7 DEF Sent
    <2> QED BY <1>1, <2>1 DEF Spaced, NoChallenge
<1>18. Grants
    <2>1. \A u \in known : app.users[u].grant \in {0, Past}
        BY <1>3, <1>4, <1>6
    <2>2. \A u, v \in known : app.users[u].grant # 0 /\ app.users[v].grant # 0 => u = v
        BY <1>1, <1>3, <1>4, <1>5, <1>6
    <2>3. \A u \in known : Obtained(app.users[u].grant)
        BY <2>1, IdFacts DEF Obtained
    <2>4. world.consumed = {} /\ \A p \in Requests : req[p].pc \notin Sends
        BY <1>1, <1>7 DEF Sends
    <2>5. /\ \A u \in DOMAIN app.users : Obtained(app.users[u].grant)
          /\ \A u, v \in DOMAIN app.users :
               app.users[u].grant # 0 /\ app.users[u].grant = app.users[v].grant => u = v
        <3>1. DOMAIN app.users = known
            BY <1>6
        <3>2. \A u \in DOMAIN app.users : Obtained(app.users[u].grant)
            BY <3>1, <2>3
        <3>3. ASSUME NEW u \in DOMAIN app.users, NEW v \in DOMAIN app.users,
                     app.users[u].grant # 0, app.users[u].grant = app.users[v].grant
              PROVE  u = v
            <4>1. u \in known /\ v \in known /\ app.users[v].grant # 0
                BY <3>1, <3>3
            <4> QED BY <2>2, <3>3, <4>1
        <3> QED BY <3>2, <3>3
    <2>6. \A u \in DOMAIN app.users :
            app.users[u].grant # 0 /\ app.users[u].claim = 0
              => app.users[u].grant \notin world.consumed
        BY <2>4
    <2> QED BY <2>4, <2>5, <2>6 DEF Grants
<1> QED BY <1>1, <1>8, <1>9, <1>10, <1>11, <1>13, <1>14, <1>15, <1>16, <1>17, <1>18 DEF IdentityInv

LEMMA NextKeeps == IdentityInv /\ [Next]_vars => IdentityInv'
<1> SUFFICES ASSUME IdentityInv, [Next]_vars PROVE IdentityInv'
    OBVIOUS
<1>1. ASSUME NEW p \in Requests, Step(p) PROVE IdentityInv'
    BY <1>1, AuthorizeKeeps, ReadStateKeeps, ConsumeKeeps, ExchangeKeeps, LoginKeeps, LinkKeeps,
       OpenAccountKeeps, IssueSessionKeeps, InstallKeeps, RequestCodeKeeps, StoreCodeKeeps,
       MailKeeps, VerifyKeeps, AnsweredKeeps, EnterKeeps, RefreshKeeps, ClaimKeeps, ProviderKeeps,
       RotateKeeps, DieKeeps DEF Step
<1>2. CASE UNCHANGED vars
    <2>1. /\ TypeOK' /\ Shape' /\ Owners' /\ Signed' /\ Fresh' /\ AllRead'
          /\ StatesOnce' /\ CodesOnce' /\ Spaced' /\ Grants' /\ ~world'.twice
        <3>1. UNCHANGED <<app, accounts, req, world>>
            BY <1>2 DEF vars
        <3>2. TypeOK' /\ Shape' /\ Owners' /\ Signed' /\ Fresh'
            BY <3>1 DEF IdentityInv, TypeOK, Shape, Owners, Signed, Fresh, Over, Has, GithubOwner, UserOf
        <3>3. AllRead' /\ StatesOnce' /\ CodesOnce'
            BY <3>1 DEF IdentityInv, AllRead, Reads, StatesOnce, CodesOnce, Over, Coded, Has
        <3>4. Spaced' /\ Grants' /\ ~world'.twice
            BY <3>1 DEF IdentityInv, Spaced, Sent, Trail, Apart, Coded, Grants, Obtained
        <3> QED BY <3>2, <3>3, <3>4
    <2> QED BY <2>1 DEF IdentityInv
<1> QED BY <1>1, <1>2, SweepKeeps, WriteUserKeeps, SignOutKeeps, TickKeeps DEF Next

\* The inductive invariant holds, whichever requests run, and however far any
\* of them gets (handle_identity_request, handle_email_request).
THEOREM IdentityInvariant == Spec => []IdentityInv
BY InitHolds, NextKeeps, PTL DEF Spec

\* A GitHub identity and an email belong to one user, the one their records
\* name, however the logins, the links and the codes of any number of requests
\* interleave.
THEOREM OneOwnerEach == Spec => []Consistent
<1>1. IdentityInv => Consistent
    <2> SUFFICES ASSUME IdentityInv PROVE Consistent
        OBVIOUS
    <2>1. TypeOK /\ Owners
        BY DEF IdentityInv
    <2>2. \A g \in Githubs : \A u, v \in Holders("github", g) : u = v
        BY <2>1, IdFacts DEF Owners, Holders
    <2>3. \A g \in Githubs : app.github[g] # 0 => app.github[g] \in Holders("github", g)
        BY <2>1 DEF Owners, Holders, Has
    <2>4. \A e \in Emails : Holders("email", e) = {app.email[e]} \ {0}
        BY <2>1, IdFacts DEF Owners, Holders, Has, TypeOK
    <2> QED BY <2>1, <2>2, <2>3, <2>4 DEF Consistent, OneOwner
<1> QED BY <1>1, IdentityInvariant, PTL

\* No token that GitHub has taken is sent again, and none is left with a user
\* who has no claim to say so.
THEOREM GrantsStillWork == Spec => []GrantStillWorks
<1>1. IdentityInv => GrantStillWorks
    BY DEF IdentityInv, Grants, GrantStillWorks, Sends
<1> QED BY <1>1, IdentityInvariant, PTL

\* States and codes admit once; two mails come within the interval only when
\* the code of the first, or one after it, was used.
THEOREM MailsAndCodes == Spec => []SentAndUsedOnce
<1>1. IdentityInv => SentAndUsedOnce
    <2> SUFFICES ASSUME IdentityInv PROVE SentAndUsedOnce
        OBVIOUS
    <2>1. world.mails \subseteq Sent /\ Spaced
        BY DEF Sent, IdentityInv
    <2>2. MailSpacing
        BY <2>1 DEF Spaced, Apart, MailSpacing
    <2> QED BY <2>2 DEF SentAndUsedOnce, UsedOnce, IdentityInv
<1> QED BY <1>1, IdentityInvariant, PTL

-----------------------------------------------------------------------------
(* What a step saves in the users.                                           *)

UserKept(v) ==
    /\ v \in DOMAIN app'.users
    /\ app'.users[v].writes >= app.users[v].writes
    /\ app.users[v].repos => app'.users[v].repos
    /\ \A field \in {"github", "email"} :
         app.users[v][field] # 0 => app'.users[v][field] = app.users[v][field]

AllKept == \A v \in DOMAIN app.users : UserKept(v)

Improves(x, y) ==
    /\ y.writes >= x.writes /\ (x.repos => y.repos)
    /\ x.github # 0 => y.github = x.github
    /\ x.email # 0 => y.email = x.email

LEMMA KeptBy ==
    ASSUME TypeOK, NEW u, NEW y, Has(u) => Improves(app.users[u], y),
           app'.users = [app.users EXCEPT ![u] = y] \/ app'.users = Put(app.users, u, y)
    PROVE  AllKept
<1>1. ASSUME NEW v \in DOMAIN app.users PROVE UserKept(v)
    <2>1. v \in DOMAIN app'.users /\ (v # u => app'.users[v] = app.users[v]) /\ (v = u => app'.users[v] = y)
        BY DEF Put
    <2>2. CASE v = u
        BY <2>1, <2>2 DEF Improves, Has, UserKept
    <2>3. CASE v # u
        <3>1. app.users[v].writes \in Nat
            BY UserFields DEF TypeOK
        <3> QED BY <2>1, <2>3, <3>1 DEF UserKept
    <2> QED BY <2>2, <2>3
<1> QED BY <1>1 DEF AllKept

LEMMA KeptSame ==
    ASSUME TypeOK, app'.users = app.users
    PROVE  AllKept
<1>1. \A v \in DOMAIN app.users : app.users[v].writes \in Nat
    BY UserFields DEF TypeOK
<1> QED BY <1>1 DEF AllKept, UserKept

\* Steps that write no user, and the records a user is found by.
Rest(p) ==
    \/ Authorize(p) \/ ReadState(p) \/ Consume(p) \/ Exchange(p) \/ OpenAccount(p) \/ IssueSession(p)
    \/ RequestCode(p) \/ StoreCode(p) \/ Mail(p) \/ Verify(p) \/ Answered(p)
    \/ Refresh(p) \/ Provider(p) \/ Die(p)

LEMMA RestKeepsUsers ==
    ASSUME Shape, NEW p \in Requests, Rest(p)
    PROVE  /\ app'.users = app.users /\ app'.github = app.github /\ app'.email = app.email
           /\ IssueSession(p) \/ app'.sessions = app.sessions
<1>1. app = [users |-> app.users, sessions |-> app.sessions, states |-> app.states,
              challenge |-> app.challenge, github |-> app.github, email |-> app.email]
    BY DEF Shape
<1>2. CASE Authorize(p)
    <2>1. \E st : app' = [app EXCEPT !.states = Put(@, p, st)]
        BY <1>2 DEF Authorize, WithState
    <2> QED BY <1>1, <2>1
<1>3. CASE Consume(p)
    <2>1. app' = app \/ app' = [app EXCEPT !.states = Drop(@, req[p].via)]
        BY <1>3 DEF Consume
    <2> QED BY <1>1, <2>1
<1>4. CASE IssueSession(p)
    BY <1>1, <1>4 DEF IssueSession
<1>5. CASE StoreCode(p)
    <2>1. app' = app \/ \E e, c : app' = [app EXCEPT !.challenge[e] = c]
        BY <1>5 DEF StoreCode
    <2> QED BY <1>1, <2>1
<1>6. CASE Answered(p)
    <2>1. \/ app' = app
          \/ app' = [app EXCEPT !.challenge[req[p].target] = NoChallenge]
          \/ app' = [app EXCEPT !.challenge[req[p].target].attempts = @ + 1]
        BY <1>6 DEF Answered
    <2> QED BY <1>1, <2>1
<1>7. CASE ~Authorize(p) /\ ~Consume(p) /\ ~IssueSession(p) /\ ~StoreCode(p) /\ ~Answered(p)
    BY <1>7 DEF Rest, ReadState, Exchange, OpenAccount, RequestCode, Mail, Verify, Refresh, Provider, Die
<1> QED BY <1>2, <1>3, <1>4, <1>5, <1>6, <1>7

LEMMA OthersKeepUsers ==
    ASSUME Shape, (\E e \in Emails : Sweep(e)) \/ SignOut \/ Tick
    PROVE  app'.users = app.users /\ app'.github = app.github /\ app'.email = app.email
<1>1. app = [users |-> app.users, sessions |-> app.sessions, states |-> app.states,
              challenge |-> app.challenge, github |-> app.github, email |-> app.email]
    BY DEF Shape
<1>2. ASSUME NEW e \in Emails, Sweep(e)
      PROVE  app'.users = app.users /\ app'.github = app.github /\ app'.email = app.email
    BY <1>1, <1>2 DEF Sweep
<1>3. CASE SignOut
    <2>1. \E s \in DOMAIN app.sessions : app' = [app EXCEPT !.sessions = Drop(@, s)]
        BY <1>3 DEF SignOut
    <2> QED BY <1>1, <2>1
<1> QED BY <1>2, <1>3 DEF Tick

LEMMA StepKeepsUsers ==
    ASSUME IdentityInv, NEW p \in Requests, Step(p)
    PROVE  AllKept
<1>1. /\ TypeOK /\ Shape /\ req[p] \in ReqType /\ Reads(p, req[p]) /\ Owners
      /\ req[p].seen \in UserType
    BY ReqFields DEF IdentityInv, Shape, AllRead
<1>2. app = [users |-> app.users, sessions |-> app.sessions, states |-> app.states,
              challenge |-> app.challenge, github |-> app.github, email |-> app.email]
    BY <1>1 DEF Shape
<1>3. ASSUME app'.users = app.users PROVE AllKept
    BY <1>1, <1>3, KeptSame
<1>4. ASSUME NEW u, NEW y, Has(u) => Improves(app.users[u], y),
             app' = [app EXCEPT !.users[u] = y] \/ app'.users = Put(app.users, u, y)
      PROVE  AllKept
    <2>1. app'.users = [app.users EXCEPT ![u] = y] \/ app'.users = Put(app.users, u, y)
        BY <1>2, <1>4
    <2> QED BY <1>1, <1>4, <2>1, KeptBy
<1>5. CASE Login(p)
    <2>1. CASE app' = app
        BY <1>3, <2>1
    <2>2. CASE app' # app
        <3>1. /\ UserOf(req[p].user) = req[p].seen /\ app.github[req[p].target] = req[p].owner
              /\ app' = [app EXCEPT !.users = Put(@, req[p].user, Granted(p))]
            BY <1>5, <2>2 DEF Login
        <3>2. app'.users = Put(app.users, req[p].user, Granted(p))
            BY <1>2, <3>1
        <3>3. /\ req[p].target \in Githubs
              /\ req[p].user = IF req[p].owner # 0 THEN req[p].owner ELSE LegacyUser(req[p].target)
            BY <1>1, <1>5 DEF Login, Reads
        <3>4. Has(req[p].user) =>
                app.users[req[p].user] = req[p].seen /\ req[p].seen.github = req[p].target
            BY <1>1, <3>1, <3>3 DEF Owners, UserOf
        <3>5. Has(req[p].user) => Improves(app.users[req[p].user], Granted(p))
            BY <1>1, <3>4 DEF Improves, Granted, UserType
        <3> QED BY <1>4, <3>2, <3>5
    <2> QED BY <2>1, <2>2
<1>6. CASE Link(p)
    <2>1. CASE app' = app
        BY <1>3, <2>1
    <2>2. CASE app' # app
        <3>1. /\ LinkAllowed(p)
              /\ app' = [app EXCEPT !.github[req[p].target] = req[p].user,
                                    !.users[req[p].user] = Granted(p)]
            BY <1>6, <2>2 DEF Link
        <3>2. app'.users = [app.users EXCEPT ![req[p].user] = Granted(p)]
            BY <1>2, <3>1
        <3>3. Has(req[p].user) => Improves(app.users[req[p].user], Granted(p))
            <4>1. Has(req[p].user) => app.users[req[p].user] = req[p].seen
                BY <3>1 DEF LinkAllowed, UserOf
            <4>2. req[p].seen.github \in {0, req[p].target}
                BY <3>1 DEF LinkAllowed
            <4> QED BY <1>1, <4>1, <4>2 DEF Improves, Granted, UserType
        <3> QED BY <1>1, <3>2, <3>3, KeptBy DEF AllKept
    <2> QED BY <2>1, <2>2
<1>7. CASE Install(p)
    <2>1. CASE app' = app
        BY <1>3, <2>1
    <2>2. CASE app' # app
        <3>1. UserOf(req[p].user) = req[p].seen /\ app' = [app EXCEPT !.users[req[p].user].repos = TRUE]
            BY <1>7, <2>2 DEF Install
        <3>2. app'.users = [app.users EXCEPT ![req[p].user] =
                              [app.users[req[p].user] EXCEPT !.repos = TRUE]]
            BY <1>2, <3>1
        <3>3. Has(req[p].user) =>
                Improves(app.users[req[p].user], [app.users[req[p].user] EXCEPT !.repos = TRUE])
            BY <1>1 DEF Improves, TypeOK, UserType, Has
        <3> QED BY <1>1, <3>2, <3>3, KeptBy DEF AllKept
    <2> QED BY <2>1, <2>2
<1>8. CASE Enter(p)
    <2>1. CASE app' = app
        BY <1>3, <2>1
    <2>2. CASE app' # app
        <3>1. /\ EnterAllowed(p)
              /\ app' = [app EXCEPT !.challenge[req[p].target] = NoChallenge,
                             !.email[req[p].target] = req[p].user,
                             !.users = Put(@, req[p].user, Verified(p)),
                             !.sessions = IF req[p].session # 0 THEN @ ELSE Put(@, p, req[p].user)]
            BY <1>8, <2>2 DEF Enter
        <3>2. app'.users = Put(app.users, req[p].user, Verified(p))
            BY <1>2, <3>1
        <3>3. Has(req[p].user) => app.users[req[p].user] = req[p].seen
            BY <3>1 DEF EnterAllowed, UserOf
        <3>4. req[p].seen.email \in {0, req[p].target}
            BY <1>1, <1>8 DEF Enter, Reads
        <3>5. Has(req[p].user) => Improves(app.users[req[p].user], Verified(p))
            BY <1>1, <3>3, <3>4 DEF Improves, Verified, UserType
        <3> QED BY <1>4, <3>2, <3>5
    <2> QED BY <2>1, <2>2
<1>9. CASE Claim(p)
    <2>1. CASE app' = app
        BY <1>3, <2>1
    <2>2. CASE app' # app
        <3>1. /\ UserOf(req[p].user) = req[p].seen
              /\ app' = [app EXCEPT !.users[req[p].user] = [req[p].seen EXCEPT !.claim = p]]
            BY <1>9, <2>2 DEF Claim, Publish
        <3>2. Has(req[p].user) => Improves(app.users[req[p].user], [req[p].seen EXCEPT !.claim = p])
            BY <1>1, <3>1 DEF UserOf, Improves, UserType
        <3> QED BY <1>4, <3>1, <3>2
    <2> QED BY <2>1, <2>2
<1>10. CASE Rotate(p)
    <2>1. CASE app' = app
        BY <1>3, <2>1
    <2>2. CASE app' # app
        <3>1. ASSUME NEW u, NEW x, NEW y, u = req[p].user, x = UserOf(u),
                     y = CASE req[p].pc = "rotated" -> [x EXCEPT !.grant = p, !.claim = 0]
                           [] req[p].pc = "rejected" -> [x EXCEPT !.claim = 0]
                           [] OTHER -> [x EXCEPT !.claim = 0, !.grant = 0]
              PROVE  AllKept
            <4>1. app' = [app EXCEPT !.users[u] = y]
                BY <1>10, <2>2, <3>1 DEF Rotate, Publish
            <4>2. x \in UserType /\ (Has(u) => x = app.users[u])
                BY <1>1, <3>1, UserOfType
            <4>3. Improves(x, y)
                <5>1. CASE req[p].pc = "rotated"
                    <6>1. y = [x EXCEPT !.grant = p, !.claim = 0]
                        BY <3>1, <5>1
                    <6>2. /\ y.writes = x.writes /\ y.repos = x.repos /\ y.github = x.github
                          /\ y.email = x.email /\ x.writes \in Nat
                        BY <4>2, <6>1 DEF UserType
                    <6> QED BY <6>2 DEF Improves
                <5>2. CASE req[p].pc = "rejected"
                    BY <3>1, <4>2, <5>2 DEF Improves, UserType
                <5>3. CASE req[p].pc \notin {"rotated", "rejected"}
                    BY <3>1, <4>2, <5>3 DEF Improves, UserType
                <5> QED BY <5>1, <5>2, <5>3
            <4> QED BY <1>4, <4>1, <4>2, <4>3
        <3> QED BY <3>1
    <2> QED BY <2>1, <2>2
<1>11. CASE Rest(p)
    BY <1>1, <1>3, <1>11, RestKeepsUsers
<1> QED BY <1>5, <1>6, <1>7, <1>8, <1>9, <1>10, <1>11 DEF Step, Rest, AllKept

\* No user is lost, and no identity, grant of repositories or other write to one,
\* by any step of any request.
THEOREM WritesStay == Spec => NothingLost
<1>1. IdentityInv /\ [Next]_vars =>
        [\A u \in DOMAIN app.users :
             /\ u \in DOMAIN app'.users
             /\ app'.users[u].writes >= app.users[u].writes
             /\ app.users[u].repos => app'.users[u].repos
             /\ \A field \in {"github", "email"} :
                  app.users[u][field] # 0 => app'.users[u][field] = app.users[u][field]]_vars
    <2> SUFFICES ASSUME IdentityInv, Next PROVE AllKept
        BY DEF AllKept, UserKept
    <2>1. TypeOK /\ Shape
        BY DEF IdentityInv
    <2>2. ASSUME NEW w \in UserIds, WriteUser(w) PROVE AllKept
        <3>1. Has(w) /\ app' = [app EXCEPT !.users[w].writes = @ + 1]
            BY <2>2 DEF WriteUser
        <3>2. app'.users = [app.users EXCEPT ![w] = [app.users[w] EXCEPT !.writes = @ + 1]]
            <4>1. app = [users |-> app.users, sessions |-> app.sessions, states |-> app.states,
                         challenge |-> app.challenge, github |-> app.github, email |-> app.email]
                BY <2>1 DEF Shape
            <4> QED BY <3>1, <4>1
        <3>3. Improves(app.users[w], [app.users[w] EXCEPT !.writes = @ + 1])
            BY <2>1, <3>1 DEF Improves, TypeOK, UserType, Has
        <3> QED BY <2>1, <3>2, <3>3, KeptBy
    <2> QED BY <2>1, <2>2, StepKeepsUsers, OthersKeepUsers, KeptSame DEF Next
<1> QED BY <1>1, IdentityInvariant, PTL DEF Spec, NothingLost

LEMMA StepMovesOne ==
    ASSUME Shape, NEW p \in Requests, Step(p)
    PROVE  \A q \in Requests : q # p => req'[q] = req[q]
<1>1. req \in [Requests -> ReqType]
    BY DEF Shape
<1>2. CASE Ended(p)
    BY <1>1, <1>2 DEF Ended
<1>3. CASE \E r : req' = [req EXCEPT ![p] = r]
    BY <1>1, <1>3
<1>4. CASE Consume(p)
    <2>1. \/ Ended(p) \/ req' = [req EXCEPT ![p].pc = "exchange"]
          \/ req' = [req EXCEPT ![p].pc = "install", ![p].seen = UserOf(req[p].user)]
        BY <1>4 DEF Consume, AfterConsume
    <2> QED BY <1>1, <1>2, <2>1
<1>5. CASE Provider(p)
    <2>1. Ended(p) \/ \E answer : req' = [req EXCEPT ![p].pc = answer]
        BY <1>5 DEF Provider
    <2> QED BY <1>1, <1>2, <2>1
<1>6. CASE ~Consume(p) /\ ~Provider(p) /\ ~Ended(p)
    <2>1. \/ \E r : req' = [req EXCEPT ![p] = r]
          \/ \E pc : req' = [req EXCEPT ![p].pc = pc]
        BY <1>6 DEF Step, Authorize, ReadState, Exchange, Login, Link, OpenAccount, IssueSession,
             Install, RequestCode, StoreCode, Mail, Verify, Answered, Enter, Refresh, Claim, Rotate, Die
    <2> QED BY <1>1, <1>3, <2>1
<1> QED BY <1>2, <1>4, <1>5, <1>6

\* A link or a rotation that its session began writes nothing after sign-out.
THEOREM SignedOutStaysOut == Spec => RevokedStaysOut
<1> DEFINE Same == app'.users = app.users /\ app'.github = app.github /\ app'.email = app.email
<1>1. ASSUME IdentityInv, NEW p \in Requests, Step(p), req[p].session # 0,
             ~Live(req[p].session, req[p].user), req[p].pc # "install"
      PROVE  Same
    <2>1. Shape /\ Reads(p, req[p])
        BY <1>1 DEF IdentityInv, AllRead
    <2>2. CASE Rest(p)
        BY <2>1, <2>2, RestKeepsUsers
    <2>3. CASE Login(p)
        BY <1>1, <2>1, <2>3 DEF Login, Reads
    <2>4. CASE Link(p) \/ Enter(p) \/ Claim(p) \/ Rotate(p)
        <3>1. app' = app
            BY <1>1, <2>4 DEF Link, LinkAllowed, Enter, EnterAllowed, Claim, Rotate, Publish
        <3> QED BY <3>1
    <2>5. CASE Install(p)
        BY <1>1, <2>5 DEF Install
    <2> QED BY <1>1, <2>2, <2>3, <2>4, <2>5 DEF Step, Rest
<1>2. IdentityInv /\ [Next]_vars =>
        [\A p \in Requests :
             req'[p] # req[p] /\ req[p].session # 0 /\ ~Live(req[p].session, req[p].user)
               /\ req[p].pc # "install"
             => UNCHANGED <<app.users, app.github, app.email>>]_vars
    <2> SUFFICES ASSUME IdentityInv, Next, NEW p \in Requests, req'[p] # req[p],
                        req[p].session # 0, ~Live(req[p].session, req[p].user),
                        req[p].pc # "install"
                 PROVE  Same
        OBVIOUS
    <2>1. ASSUME NEW q \in Requests, Step(q) PROVE Same
        <3>1. q = p
            BY <2>1, StepMovesOne DEF IdentityInv
        <3> QED BY <1>1, <2>1, <3>1
    <2>2. ASSUME req' = req PROVE Same
        BY <2>2
    <2> QED BY <2>1, <2>2 DEF Next, Sweep, WriteUser, SignOut, Tick
<1> QED BY <1>2, IdentityInvariant, PTL DEF Spec, RevokedStaysOut

-----------------------------------------------------------------------------
(* The registry.                                                             *)

LEMMA NobodyLeaves ==
    ASSUME Shape, NEW p \in Requests, Rest(p)
    PROVE  world'.left = world.left
<1>1. world \in WorldType
    BY DEF Shape
<1>2. \/ world' = world
      \/ \E kind, id : world' = Spend(kind, id)
      \/ world' = SpendCode(p)
      \/ \E m : world' = [world EXCEPT !.mails = m]
      \/ \E c : world' = [world EXCEPT !.consumed = c]
    BY DEF Rest, Authorize, ReadState, Consume, Exchange, OpenAccount, IssueSession, RequestCode,
         StoreCode, Mail, Verify, Answered, Refresh, Provider, Die
<1> QED BY <1>1, <1>2 DEF WorldType, Spend, SpendCode

LEMMA SameOwners ==
    ASSUME app'.users = app.users, app'.github = app.github, app'.email = app.email
    PROVE  Owner' = Owner
BY DEF Owner, GithubOwner, UserOf, Has

LEMMA StepRefines ==
    ASSUME IdentityInv, NEW p \in Requests, Step(p)
    PROVE  Refines
<1>1. Shape /\ TypeOK
    BY DEF IdentityInv
<1>2. CASE Rest(p) /\ ~OpenAccount(p) /\ ~IssueSession(p)
    <2>1. /\ app'.users = app.users /\ app'.github = app.github /\ app'.email = app.email
          /\ app'.sessions = app.sessions /\ world'.left = world.left
        BY <1>1, <1>2, RestKeepsUsers, NobodyLeaves
    <2>2. accounts' = accounts
        BY <1>2 DEF Rest, Authorize, ReadState, Consume, Exchange, RequestCode,
             StoreCode, Mail, Verify, Answered, Refresh, Provider, Die
    <2> QED BY <2>1, <2>2, SameOwners, NothingNew DEF Issued
<1> QED BY <1>2, LoginKeeps, LinkKeeps, OpenAccountKeeps, IssueSessionKeeps, InstallKeeps,
          EnterKeeps, ClaimKeeps, RotateKeeps DEF Step, Rest

LEMMA OthersRefine ==
    ASSUME IdentityInv, \/ \E e \in Emails : Sweep(e)
                        \/ \E u \in UserIds : WriteUser(u)
                        \/ SignOut \/ Tick
    PROVE  Refines
<1>1. ASSUME NEW e \in Emails, Sweep(e) PROVE Refines
    <2>1. app = [users |-> app.users, sessions |-> app.sessions, states |-> app.states,
                 challenge |-> app.challenge, github |-> app.github, email |-> app.email]
        BY DEF IdentityInv, Shape
    <2>2. /\ app'.users = app.users /\ app'.github = app.github /\ app'.email = app.email
          /\ app'.sessions = app.sessions /\ accounts' = accounts /\ world' = world
        BY <1>1, <2>1 DEF Sweep
    <2> QED BY <2>2, SameOwners, NothingNew DEF Issued
<1>2. CASE Tick
    <2>1. world'.left = world.left /\ app' = app /\ accounts' = accounts
        BY <1>2 DEF Tick, IdentityInv, Shape, WorldType
    <2> QED BY <2>1, SameOwners, NothingNew DEF Issued
<1> QED BY <1>1, <1>2, WriteUserKeeps, SignOutKeeps

\* Every user there is at first came by an identity of theirs.
LEMMA InitRefines == Init => Registry!Init
<1> SUFFICES ASSUME Init PROVE Registry!Init
    OBVIOUS
<1>1. IdentityInv
    BY InitHolds
<1>2. TypeOK /\ Owners /\ Signed /\ accounts = DOMAIN app.users /\ world.left = {}
    BY <1>1 DEF Init, IdentityInv
<1>3. \A u \in DOMAIN app.users : app.users[u].github # 0 \/ app.users[u].email # 0
    <2>1. PICK mailUser \in BOOLEAN, linked \in BOOLEAN, gitUser \in BOOLEAN, begun \in BOOLEAN,
             e \in Emails, g \in Githubs :
            LET byMail == [NoUser EXCEPT !.email = e, !.github = IF linked THEN g ELSE 0,
                             !.grant = IF linked THEN Past ELSE 0]
                byGit == [NoUser EXCEPT !.github = g, !.grant = Past]
                known == (IF mailUser THEN {Past} ELSE {}) \cup (IF gitUser THEN {LegacyUser(g)} ELSE {})
            IN  /\ linked => mailUser /\ ~gitUser
                /\ begun => mailUser /\ ~linked /\ ~gitUser
                /\ app = [users |-> [u \in known |-> IF u = Past THEN byMail ELSE byGit],
                          sessions |-> [u \in known |-> u],
                          states |-> [c \in (IF begun THEN {Past} ELSE {}) |->
                                        [kind |-> "login", session |-> 0, user |-> 0]],
                          challenge |-> [x \in Emails |-> NoChallenge],
                          github |-> [x \in Githubs |-> IF linked /\ x = g THEN Past ELSE 0],
                          email |-> [x \in Emails |-> IF mailUser /\ x = e THEN Past ELSE 0]]
                /\ accounts = DOMAIN app.users
                /\ req = [p \in Requests |-> NewRequest]
                /\ world = [clock |-> 0, consumed |-> {}, mails |-> {}, spent |-> {},
                            used |-> {}, twice |-> FALSE, left |-> {}]
        BY DEF Init
    <2>2. ASSUME NEW byMail, NEW byGit,
                 byMail = [NoUser EXCEPT !.email = e, !.github = IF linked THEN g ELSE 0,
                             !.grant = IF linked THEN Past ELSE 0],
                 byGit = [NoUser EXCEPT !.github = g, !.grant = Past]
          PROVE  byMail.email # 0 /\ byGit.github # 0
        BY <2>2, IdFacts DEF NoUser
    <2>3. \A u \in DOMAIN app.users :
            \/ app.users[u] = [NoUser EXCEPT !.email = e, !.github = IF linked THEN g ELSE 0,
                                !.grant = IF linked THEN Past ELSE 0]
            \/ app.users[u] = [NoUser EXCEPT !.github = g, !.grant = Past]
        BY <2>1
    <2> QED BY <2>2, <2>3
<1>4. Owner \in [Ids -> UserIds \cup {0}]
    BY <1>2, IdFacts DEF Owner, Ids, GithubOwner, TypeOK
<1>5. accounts = {u \in UserIds : Registry!Known(u)}
    <2>1. ASSUME NEW u \in DOMAIN app.users PROVE u \in UserIds /\ Registry!Known(u)
        <3>1. u \in UserIds /\ app.users[u] \in UserType
            BY <1>2 DEF TypeOK
        <3>2. CASE app.users[u].github # 0
            <4>1. app.users[u].github \in Githubs /\ Has(u)
                BY <3>1, <3>2, UserFields DEF Has
            <4>2. /\ <<"github", app.users[u].github>> \in Ids
                  /\ Owner[<<"github", app.users[u].github>>] = u
                BY <1>2, <4>1, OwnerOf
            <4> QED BY <3>1, <4>2 DEF Registry!Known, Owner, Ids
        <3>3. CASE app.users[u].email # 0
            <4>1. app.users[u].email \in Emails /\ app.email[app.users[u].email] = u
                BY <1>2, <3>1, <3>3, UserFields DEF Owners
            <4>2. /\ <<"email", app.users[u].email>> \in Ids
                  /\ Owner[<<"email", app.users[u].email>>] = u
                BY <4>1 DEF Owner, Ids
            <4> QED BY <3>1, <4>2 DEF Registry!Known, Owner, Ids
        <3> QED BY <1>3, <3>1, <3>2, <3>3
    <2> QED BY <1>2, <2>1, OwnersKnown DEF Has
<1>6. Registry!Init
    BY <1>2, <1>4, <1>5 DEF Registry!Init, Owner, Ids, Signed
<1> QED BY <1>6

\* The records of sign-in implement the registry of identities: whatever the
\* requests read and when, an identity that was proved keeps its user, and
\* nobody comes in without an account and an identity of their own.
THEOREM IdentitiesImplementRegistry == Spec => ImplementsRegistry
<1>1. IdentityInv /\ [Next]_vars => [Registry!Next]_(Registry!registry)
    <2>1. ASSUME IdentityInv, Next PROVE Refines
        BY <2>1, StepRefines, OthersRefine DEF Next
    <2>2. ASSUME UNCHANGED vars PROVE UNCHANGED Registry!registry
        BY <2>2 DEF vars, Registry!registry, GithubOwner, UserOf, Has
    <2> QED BY <2>1, <2>2 DEF Refines
<1> QED BY <1>1, InitRefines, IdentityInvariant, PTL DEF Spec, ImplementsRegistry, Registry!Spec
=============================================================================
