----------------------------- MODULE AuthTokens -----------------------------
(***************************************************************************)
(* Bearer tokens, their revocation and the rotation of the signing secret: *)
(* AuthService (auth.py) and the auth-* commands (cli.py).                 *)
(*                                                                         *)
(* A process reads its settings from the environment when it starts and    *)
(* keeps them.  Servers authenticate; every command is a process of its    *)
(* own, so auth-rotate-secret changes the settings of a process that ends, *)
(* and prints the new secret for the operator to deploy.  Revocations and  *)
(* the key registry are in the database, which all processes share.        *)
(***************************************************************************)
EXTENDS Integers, FiniteSets

CONSTANTS
    Servers,
    Terminals,     \* where commands are given
    Subjects,
    Lifetimes,     \* values of --expires-minutes, any number, 0 when it is left out
    TokenExpire,   \* settings.token_expire_minutes
    NULL,          \* no PREVIOUS_SECRET_KEY
    MaxTime,       \* bound on the clock
    MaxCommands    \* bound on the commands given

ASSUME AuthAssumption ==
    /\ Servers \intersect Terminals = {}
    /\ Lifetimes \subseteq Int
    /\ TokenExpire \in Int
    /\ NULL \notin Nat

VARIABLES
    now,           \* the clock
    env,           \* SECRET_KEY and PREVIOUS_SECRET_KEY of the deployment
    proc,          \* proc[p]: where process p is, its settings, what it has read
    registry,      \* the rows of signing_keys
    revoked,       \* the token ids in revoked_tokens
    issued,        \* secrets made so far; they are numbered from 0
    printed,       \* secrets auth-rotate-secret has printed
    tokens,        \* the tokens minted
    commands,      \* commands given so far
    withdrawn,     \* history: tokens whose revocation was reported
    raced          \* history: a rotation began while another was under way

vars == <<now, env, proc, registry, revoked, issued, printed, tokens, commands,
          withdrawn, raced>>

-----------------------------------------------------------------------------
Procs == Servers \union Terminals

Settings == [secret : Nat, previous : Nat \union {NULL}]

\* A token has every claim that is told apart; kid is "key-current" in all of them.
Token == [subject : Subjects, role : {"agent", "admin"}, secret : Nat, second : Nat,
          expires : Int]

\* How long a token may last: as was asked for, or as the settings say.  A negative
\* number is taken as it is, and the token is expired when it is minted.
Lasting == (Lifetimes \ {0}) \union {TokenExpire}

KeyIds == {"key-current", "key-previous", "key"} \X Nat
Key(name) == <<name, 0>>
KeyOf(second) == <<"key", second>>

Row == [id : KeyIds, status : {"active", "previous"}]

Off == [pc |-> "off"]

\* token: the one being revoked; old, new: the key a rotation retires and adds.
Process == {Off}
           \union [pc : {"started", "registering", "ready"}, settings : Settings]
           \union [pc : {"revoking"}, settings : Settings, token : Token]
           \union [pc : {"rotating"}, settings : Settings, old : SUBSET KeyIds, new : KeyIds]

TypeOK ==
    /\ now \in Nat
    /\ env \in Settings
    /\ proc \in [Procs -> Process]
    /\ registry \subseteq Row
    /\ revoked \subseteq Nat \X Subjects
    /\ issued \in Nat
    /\ printed \subseteq Nat
    /\ tokens \subseteq Token /\ \A t \in tokens : t.expires - t.second \in Lasting
    /\ commands \in Nat
    /\ withdrawn \subseteq tokens
    /\ raced \in BOOLEAN

Init ==
    /\ now = 0
    /\ env = [secret |-> 0, previous |-> NULL]
    /\ proc = [p \in Procs |-> Off]
    /\ registry = {}
    /\ revoked = {}
    /\ issued = 0
    /\ printed = {}
    /\ tokens = {}
    /\ commands = 0
    /\ withdrawn = {}
    /\ raced = FALSE

Keys(status) == {row.id : row \in {k \in registry : k.status = status}}
KeyNames == {row.id : row \in registry}

Tick ==
    /\ now < MaxTime
    /\ now' = now + 1
    /\ UNCHANGED <<env, proc, registry, revoked, issued, printed, tokens, commands,
                   withdrawn, raced>>

-----------------------------------------------------------------------------
(* Processes start and end                                                 *)

Launch(p) ==
    /\ proc[p].pc = "off"
    /\ p \in Terminals => commands < MaxCommands
    /\ commands' = IF p \in Terminals THEN commands + 1 ELSE commands
    /\ proc' = [proc EXCEPT ![p] = [pc |-> "started", settings |-> env]]
    /\ UNCHANGED <<now, env, registry, revoked, issued, printed, tokens, withdrawn, raced>>

\* A server is stopped, or a process dies.
Stop(p) ==
    /\ proc[p].pc # "off"
    /\ proc' = [proc EXCEPT ![p] = Off]
    /\ UNCHANGED <<now, env, registry, revoked, issued, printed, tokens, commands,
                   withdrawn, raced>>

\* _ensure_key_registry, when the process first needs the service: the query ...
EnsureQuery(p) ==
    /\ proc[p].pc = "started"
    /\ proc' = [proc EXCEPT ![p].pc = IF Keys("active") = {} THEN "registering" ELSE "ready"]
    /\ UNCHANGED <<now, env, registry, revoked, issued, printed, tokens, commands,
                   withdrawn, raced>>

FirstKeys(settings) ==
    {[id |-> Key("key-current"), status |-> "active"]} \union
    (IF settings.previous = NULL THEN {}
     ELSE {[id |-> Key("key-previous"), status |-> "previous"]})

\* Bug: the rows are merged, over what is there.
EnsureMerge(p) ==
    LET keys == FirstKeys(proc[p].settings) IN
    /\ proc[p].pc = "registering"
    /\ registry' = {row \in registry : \A k \in keys : k.id # row.id} \union keys
    /\ proc' = [proc EXCEPT ![p].pc = "ready"]
    /\ UNCHANGED <<now, env, revoked, issued, printed, tokens, commands, withdrawn, raced>>

\* ... and the insert.  If another process was first the primary key refuses it: a
\* command ends, a server fails one request and tries again with the next.
EnsureCommit(p) ==
    LET keys  == FirstKeys(proc[p].settings)
        clash == \E k \in keys : k.id \in KeyNames
    IN
    /\ proc[p].pc = "registering"
    /\ registry' = IF clash THEN registry ELSE registry \union keys
    /\ proc' = [proc EXCEPT ![p] = IF clash /\ p \in Terminals THEN Off
                                   ELSE [@ EXCEPT !.pc = IF clash THEN "started" ELSE "ready"]]
    /\ UNCHANGED <<now, env, revoked, issued, printed, tokens, commands, withdrawn, raced>>

-----------------------------------------------------------------------------
(* mint_token and revoke_token                                             *)

\* Bug: no default.
LifetimeGiven(minutes) == minutes

\* expires_minutes or settings.token_expire_minutes
Lifetime(minutes) == IF minutes = 0 THEN TokenExpire ELSE minutes

Mint(p) ==
    /\ p \in Terminals /\ proc[p].pc = "ready"
    /\ \E s \in Subjects, role \in {"agent", "admin"}, minutes \in Lifetimes :
          tokens' = tokens \union
              {[subject |-> s, role |-> role, secret |-> proc[p].settings.secret,
                second |-> now, expires |-> now + Lifetime(minutes)]}
    /\ proc' = [proc EXCEPT ![p] = Off]
    /\ UNCHANGED <<now, env, registry, revoked, issued, printed, commands, withdrawn, raced>>

\* Bug: whose token it is does not enter the id.
TokenIdOfSecond(t) == t.second

\* jti: tok-<second>-<subject>
TokenId(t) == <<t.second, t.subject>>

\* The token is not verified.  If its id is listed there is nothing to do.
RevokeQuery(p, t) ==
    /\ p \in Terminals /\ proc[p].pc = "ready"
    /\ IF TokenId(t) \in revoked
       THEN /\ withdrawn' = withdrawn \union {t}
            /\ proc' = [proc EXCEPT ![p] = Off]
       ELSE /\ proc' = [proc EXCEPT ![p] = [pc |-> "revoking", settings |-> @.settings,
                                            token |-> t]]
            /\ UNCHANGED withdrawn
    /\ UNCHANGED <<now, env, registry, revoked, issued, printed, tokens, commands, raced>>

\* The primary key refuses an id another command has inserted since, and this one ends
\* with an error.
RevokeCommit(p) ==
    LET t == proc[p].token IN
    /\ proc[p].pc = "revoking"
    /\ revoked' = revoked \union {TokenId(t)}
    /\ withdrawn' = IF TokenId(t) \in revoked THEN withdrawn ELSE withdrawn \union {t}
    /\ proc' = [proc EXCEPT ![p] = Off]
    /\ UNCHANGED <<now, env, registry, issued, printed, tokens, commands, raced>>

-----------------------------------------------------------------------------
(* rotate_secret, and the deployment of what it prints                     *)

\* The settings of the process change first; then a key that is active is queried.
RotateQuery(p) ==
    /\ p \in Terminals /\ proc[p].pc = "ready"
    /\ issued' = issued + 1
    /\ \E old \in IF Keys("active") = {} THEN {{}} ELSE {{k} : k \in Keys("active")} :
          proc' = [proc EXCEPT ![p] =
                     [pc |-> "rotating", old |-> old, new |-> KeyOf(now),
                      settings |-> [secret |-> issued + 1, previous |-> @.settings.secret]]]
    /\ raced' = (raced \/ \E q \in Procs : proc[q].pc = "rotating")
    /\ UNCHANGED <<now, env, registry, revoked, printed, tokens, commands, withdrawn>>

\* A second rotation of the same second finds its key id taken, and prints nothing.
RotateCommit(p) ==
    /\ proc[p].pc = "rotating"
    /\ IF proc[p].new \in KeyNames
       THEN UNCHANGED <<registry, printed>>
       ELSE /\ registry' = {row \in registry : row.id \notin proc[p].old} \union
                           {[id |-> k, status |-> "previous"] : k \in proc[p].old} \union
                           {[id |-> proc[p].new, status |-> "active"]}
            /\ printed' = printed \union {proc[p].settings.secret}
    /\ proc' = [proc EXCEPT ![p] = Off]
    /\ UNCHANGED <<now, env, revoked, issued, tokens, commands, withdrawn, raced>>

Serving == {s \in Servers : proc[s].pc = "ready"}

\* The operator sets SECRET_KEY to a secret that was printed and PREVIOUS_SECRET_KEY to
\* the one before, and restarts the servers one by one; the last rollout is over.
Deploy ==
    /\ \A s \in Servers : proc[s].pc # "off" => proc[s].settings = env
    /\ \E k \in printed \ {env.secret, env.previous} :
          env' = [secret |-> k, previous |-> env.secret]
    /\ UNCHANGED <<now, proc, registry, revoked, issued, printed, tokens, commands,
                   withdrawn, raced>>

Next ==
    \/ Tick
    \/ Deploy
    \/ \E p \in Procs : Launch(p) \/ Stop(p) \/ EnsureQuery(p) \/ EnsureCommit(p)
    \/ \E p \in Terminals :
          \/ Mint(p)
          \/ \E t \in tokens : RevokeQuery(p, t)
          \/ RevokeCommit(p)
          \/ RotateQuery(p)
          \/ RotateCommit(p)

Spec == Init /\ [][Next]_vars

-----------------------------------------------------------------------------
(* authenticate_bearer_token                                               *)

\* Bug: only the current secret is tried.
CandidatesCurrent(s) == {proc[s].settings.secret}

\* _decode_with_secrets: the current secret, then the previous one.
Candidates(s) == {proc[s].settings.secret, proc[s].settings.previous}

\* A token is good through its last second.
Decodes(s, t) == t.secret \in Candidates(s) /\ now <= t.expires

Accepts(s, t) == Decodes(s, t) /\ TokenId(t) \notin revoked

-----------------------------------------------------------------------------
(* Properties                                                              *)

\* Tokens of one subject made in one second share their id.
Withdrawn(t) == \E w \in withdrawn : w.subject = t.subject /\ w.second = t.second

\* A token that was revoked is refused by every server from then on, through restarts
\* and rotations; one that was not is refused for no other reason than its age, its
\* secret, or a token of the same subject and second that was revoked.
RevocationIsExact ==
    \A s \in Serving, t \in tokens : Decodes(s, t) => (Accepts(s, t) <=> ~Withdrawn(t))

\* While the servers are restarted one by one with a new secret, a token signed with
\* the secret before it is good at each of them, on either side of its restart; and
\* when all are, so is one signed with the new secret.
NobodyLockedOut ==
    \A t \in tokens :
        (/\ now <= t.expires /\ ~Withdrawn(t)
         /\ \/ t.secret = env.previous
            \/ t.secret = env.secret /\ \A s \in Serving : proc[s].settings = env)
        => \A s \in Serving : Accepts(s, t)

\* However processes start on an empty registry and keys are rotated, one key is
\* active, unless two rotations overlapped.
OneActiveKey ==
    /\ registry # {} => Keys("active") # {}
    /\ ~raced => Cardinality(Keys("active")) <= 1
=============================================================================
