-------------------------- MODULE AuthTokensProofs --------------------------
(***************************************************************************)
(* Theorems about AuthTokens, for any servers, terminals and secrets:      *)
(* revocation is exact, a rollout locks nobody out and the registry keeps  *)
(* one active key.                                                         *)
(***************************************************************************)
EXTENDS AuthTokens, FiniteSetTheorems, TLAPS

-----------------------------------------------------------------------------
(* The inductive invariant                                                 *)

\* The ids listed are those of the tokens whose revocation was reported.
RevokedOK == revoked = {TokenId(t) : t \in withdrawn}

\* A token being revoked is one that was minted.
HeldOK == \A p \in Procs : proc[p].pc = "revoking" => proc[p].token \in tokens

\* A server has the settings deployed, or signs with the secret before; terminals alone
\* revoke and rotate.
ServersOK ==
    \A s \in Servers : proc[s].pc # "off" =>
        /\ proc[s].pc \in {"started", "registering", "ready"}
        /\ proc[s].settings = env \/ proc[s].settings.secret = env.previous

Rotating == {p \in Procs : proc[p].pc = "rotating"}

\* A process that is past the first query has seen an active key; the first key stays,
\* in one status or the other; and the one rotation under way has the active key.
RegistryOK ==
    /\ registry # {} => Key("key-current") \in KeyNames /\ Keys("active") # {}
    /\ \A p \in Procs : proc[p].pc \in {"ready", "revoking", "rotating"} => registry # {}
    /\ ~raced =>
          /\ \A j, k \in Keys("active") : j = k
          /\ \A p, q \in Rotating : p = q
          /\ \A p \in Rotating : Keys("active") \subseteq proc[p].old

IInv == TypeOK /\ RevokedOK /\ HeldOK /\ ServersOK /\ RegistryOK

-----------------------------------------------------------------------------
(* Processes                                                               *)

\* What a process holds, by where it is.
LEMMA ProcessIs ==
    ASSUME NEW x \in Process
    PROVE  /\ x.pc \in {"off", "started", "registering", "ready", "revoking", "rotating"}
           /\ x.pc = "off" => x = Off
           /\ x.pc # "off" => x.settings \in Settings
           /\ x.pc = "revoking" => x.token \in Token
           /\ x.pc = "rotating" => x.old \subseteq KeyIds /\ x.new \in KeyIds
BY DEF Process, Off

LEMMA Continued ==
    ASSUME NEW x \in Process, x.pc \in {"started", "registering", "ready"},
           NEW pc \in {"started", "registering", "ready"}
    PROVE  /\ [x EXCEPT !.pc = pc] \in Process
           /\ [x EXCEPT !.pc = pc].pc = pc
           /\ [x EXCEPT !.pc = pc].settings = x.settings
<1>1. x \in [pc : {"started", "registering", "ready"}, settings : Settings]
  BY DEF Process, Off
<1> QED
  BY <1>1 DEF Process

LEMMA OffIs == Off \in Process /\ Off.pc = "off"
BY DEF Process, Off

LEMMA Started ==
    ASSUME NEW s \in Settings
    PROVE  [pc |-> "started", settings |-> s] \in Process
BY DEF Process

LEMMA Revoking ==
    ASSUME NEW s \in Settings, NEW t \in Token
    PROVE  [pc |-> "revoking", settings |-> s, token |-> t] \in Process
BY DEF Process

LEMMA RotatingIs ==
    ASSUME NEW s \in Settings, NEW old \in SUBSET KeyIds, NEW new \in KeyIds
    PROVE  [pc |-> "rotating", old |-> old, new |-> new, settings |-> s] \in Process
BY DEF Process

LEMMA KeyTypes ==
    ASSUME TypeOK
    PROVE  /\ \A status : Keys(status) \subseteq KeyIds
           /\ KeyOf(now) \in KeyIds
           /\ \A s \in Settings : FirstKeys(s) \subseteq Row
BY DEF TypeOK, Keys, KeyIds, KeyOf, Key, FirstKeys, Row

\* A key is active if a row says so.
LEMMA KeysAre ==
    ASSUME NEW k, NEW status
    PROVE  /\ k \in Keys(status) <=> \E row \in registry : row.id = k /\ row.status = status
           /\ k \in KeyNames <=> \E row \in registry : row.id = k
BY DEF Keys, KeyNames

-----------------------------------------------------------------------------
(* Steps                                                                   *)

\* A step that leaves the registry alone, and in which one process goes on.
LEMMA OwnStep ==
    ASSUME IInv, NEW p \in Procs, NEW x \in Process, proc' = [proc EXCEPT ![p] = x],
           UNCHANGED <<now, env, registry>>, tokens \subseteq tokens',
           x.pc = "revoking" => x.token \in tokens',
           x.pc \in {"revoking", "rotating"} => p \notin Servers,
           (p \in Servers /\ x.pc # "off") =>
              x.settings = env \/ x.settings.secret = env.previous,
           x.pc \in {"ready", "revoking", "rotating"} => registry # {},
           raced' \in BOOLEAN, raced => raced',
           x.pc = "rotating" =>
              /\ Rotating # {} => raced'
              /\ ~raced' => Keys("active") \subseteq x.old
    PROVE  HeldOK' /\ ServersOK' /\ RegistryOK' /\ proc' \in [Procs -> Process]
<1>0. proc \in [Procs -> Process] /\ proc' \in [Procs -> Process] /\ proc'[p] = x
      /\ \A q \in Procs \ {p} : proc'[q] = proc[q]
  BY DEF IInv, TypeOK
<1>1. ServersOK'
  <2> SUFFICES ASSUME NEW s \in Servers, proc'[s].pc # "off"
               PROVE  /\ proc'[s].pc \in {"started", "registering", "ready"}
                      /\ proc'[s].settings = env \/ proc'[s].settings.secret = env.previous
    BY DEF ServersOK
  <2>1. s \in Procs
    BY DEF Procs
  <2>2. CASE s = p
    <3>1. x.pc \in {"off", "started", "registering", "ready", "revoking", "rotating"}
      BY ProcessIs
    <3>2. x.pc \in {"started", "registering", "ready"}
      BY <1>0, <2>2, <3>1
    <3>3. x.settings = env \/ x.settings.secret = env.previous
      BY <2>2, <3>2
    <3> QED
      BY <1>0, <2>2, <3>2, <3>3
  <2>3. CASE s # p
    BY <1>0, <2>1, <2>3 DEF IInv, ServersOK
  <2> QED
    BY <2>2, <2>3
<1>2. \A status : Keys(status)' = Keys(status)
  BY DEF Keys
<1>3. KeyNames' = KeyNames
  BY DEF KeyNames
<1>4. ASSUME ~raced'
      PROVE  /\ \A q, r \in Rotating' : q = r
             /\ \A q \in Rotating' : Keys("active") \subseteq proc'[q].old
  <2>1. \A q \in Rotating' : q = p \/ q \in Rotating
    BY <1>0 DEF Rotating
  <2>2. /\ \A q, r \in Rotating : q = r
        /\ \A q \in Rotating : Keys("active") \subseteq proc[q].old
    BY <1>4 DEF IInv, RegistryOK
  <2>3. CASE x.pc = "rotating"
    <3>1. Rotating = {}
      BY <1>4, <2>3
    <3> QED
      BY <1>0, <1>4, <2>1, <2>3, <3>1
  <2>4. CASE x.pc # "rotating"
    <3>1. \A q \in Rotating' : q \in Rotating /\ proc'[q] = proc[q]
      BY <1>0, <2>1, <2>4 DEF Rotating
    <3> QED
      BY <2>2, <3>1
  <2> QED
    BY <2>3, <2>4
<1>5. RegistryOK'
  BY <1>0, <1>2, <1>3, <1>4 DEF IInv, RegistryOK
<1>6. HeldOK'
  <2> SUFFICES ASSUME NEW q \in Procs, proc'[q].pc = "revoking" PROVE proc'[q].token \in tokens'
    BY DEF HeldOK
  <2>1. CASE q = p
    BY <1>0, <2>1
  <2>2. CASE q # p
    BY <1>0, <2>2 DEF IInv, HeldOK
  <2> QED
    BY <2>1, <2>2
<1> QED
  BY <1>0, <1>1, <1>5, <1>6

\* A step in which the history of tokens and revocations does not change.
LEMMA SameTokens ==
    ASSUME IInv, UNCHANGED <<now, env, revoked, issued, printed, tokens, withdrawn>>,
           proc' \in [Procs -> Process], registry' \subseteq Row,
           commands' \in Nat, raced' \in BOOLEAN
    PROVE  TypeOK' /\ RevokedOK'
<1>1. TypeOK'
  BY DEF IInv, TypeOK
<1>2. RevokedOK'
  BY DEF IInv, RevokedOK
<1> QED
  BY <1>1, <1>2

LEMMA TickStep == IInv /\ Tick => IInv'
<1> SUFFICES ASSUME IInv, Tick PROVE IInv'
  OBVIOUS
<1>1. /\ now' = now + 1
      /\ UNCHANGED <<env, proc, registry, revoked, issued, printed, tokens, commands,
                     withdrawn, raced>>
  BY DEF Tick
<1>2. TypeOK'
  BY <1>1 DEF IInv, TypeOK
<1>3. RevokedOK' /\ HeldOK' /\ ServersOK'
  BY <1>1 DEF IInv, RevokedOK, HeldOK, ServersOK
<1>4. (\A status : Keys(status)' = Keys(status)) /\ KeyNames' = KeyNames /\ Rotating' = Rotating
  BY <1>1 DEF Keys, KeyNames, Rotating
<1>5. RegistryOK'
  BY <1>1, <1>4 DEF IInv, RegistryOK
<1> QED
  BY <1>2, <1>3, <1>5 DEF IInv

\* All servers have the settings before: the secret they sign with is the previous one.
LEMMA DeployStep == IInv /\ Deploy => IInv'
<1> SUFFICES ASSUME IInv, Deploy PROVE IInv'
  OBVIOUS
<1>1. PICK k \in printed : env' = [secret |-> k, previous |-> env.secret]
  BY DEF Deploy
<1>2. /\ \A s \in Servers : proc[s].pc # "off" => proc[s].settings = env
      /\ UNCHANGED <<now, proc, registry, revoked, issued, printed, tokens, commands,
                     withdrawn, raced>>
  BY DEF Deploy
<1>3. env' \in Settings /\ env'.previous = env.secret
  BY <1>1 DEF IInv, TypeOK, Settings
<1>4. TypeOK'
  BY <1>2, <1>3 DEF IInv, TypeOK
<1>5. RevokedOK' /\ HeldOK'
  BY <1>2 DEF IInv, RevokedOK, HeldOK
<1>6. ServersOK'
  BY <1>2, <1>3 DEF IInv, ServersOK
<1>7. (\A status : Keys(status)' = Keys(status)) /\ KeyNames' = KeyNames /\ Rotating' = Rotating
  BY <1>2 DEF Keys, KeyNames, Rotating
<1>8. RegistryOK'
  BY <1>2, <1>7 DEF IInv, RegistryOK
<1> QED
  BY <1>4, <1>5, <1>6, <1>8 DEF IInv

LEMMA LifeStep ==
    ASSUME IInv, NEW p \in Procs, Launch(p) \/ Stop(p) \/ EnsureQuery(p)
    PROVE  IInv'
<1>1. /\ proc \in [Procs -> Process] /\ proc[p] \in Process /\ env \in Settings
      /\ commands \in Nat /\ raced \in BOOLEAN /\ registry \subseteq Row
  BY DEF IInv, TypeOK
<1>2. ASSUME NEW x \in Process, proc' = [proc EXCEPT ![p] = x],
             x.pc \in {"off", "started", "registering", "ready"},
             (p \in Servers /\ x.pc # "off") =>
                x.settings = env \/ x.settings.secret = env.previous,
             x.pc = "ready" => registry # {},
             UNCHANGED <<now, env, registry, revoked, issued, printed, tokens, withdrawn,
                         raced>>,
             commands' \in Nat
      PROVE  IInv'
  <2>1. HeldOK' /\ ServersOK' /\ RegistryOK' /\ proc' \in [Procs -> Process]
    BY <1>1, <1>2, OwnStep
  <2>2. TypeOK' /\ RevokedOK'
    BY <1>1, <1>2, <2>1, SameTokens
  <2> QED
    BY <2>1, <2>2 DEF IInv
<1>3. CASE Launch(p)
  <2> DEFINE x == [pc |-> "started", settings |-> env]
  <2>1. x \in Process /\ x.pc = "started" /\ x.settings = env
    BY <1>1, Started
  <2>2. proc' = [proc EXCEPT ![p] = x]
        /\ UNCHANGED <<now, env, registry, revoked, issued, printed, tokens, withdrawn, raced>>
        /\ commands' \in Nat
    BY <1>1, <1>3 DEF Launch
  <2> HIDE DEF x
  <2> QED
    BY <1>2, <2>1, <2>2
<1>4. CASE Stop(p)
  BY <1>1, <1>2, <1>4, OffIs DEF Stop
<1>5. CASE EnsureQuery(p)
  <2> DEFINE pc == IF Keys("active") = {} THEN "registering" ELSE "ready"
             x == [proc[p] EXCEPT !.pc = pc]
  <2>1. /\ proc' = [proc EXCEPT ![p] = x] /\ proc[p].pc = "started"
        /\ UNCHANGED <<now, env, registry, revoked, issued, printed, tokens, withdrawn, raced,
                       commands>>
    BY <1>5 DEF EnsureQuery
  <2>2. pc \in {"started", "registering", "ready"} /\ (pc = "ready" => registry # {})
    BY KeysAre DEF Keys
  <2> HIDE DEF pc
  <2>3. x \in Process /\ x.pc = pc /\ x.settings = proc[p].settings
    BY <1>1, <2>1, <2>2, Continued
  <2>4. p \in Servers => proc[p].settings = env \/ proc[p].settings.secret = env.previous
    BY <2>1 DEF IInv, ServersOK
  <2> HIDE DEF x
  <2> QED
    BY <1>1, <1>2, <2>1, <2>2, <2>3, <2>4
<1> QED
  BY <1>3, <1>4, <1>5

\* The first keys are added to an empty registry or not at all.
LEMMA EnsureCommitStep ==
    ASSUME IInv, NEW p \in Procs, EnsureCommit(p)
    PROVE  IInv'
<1> DEFINE keys == FirstKeys(proc[p].settings)
           clash == \E k \in keys : k.id \in KeyNames
           pc == IF clash THEN "started" ELSE "ready"
           x == IF clash /\ p \in Terminals THEN Off ELSE [proc[p] EXCEPT !.pc = pc]
<1>1. /\ proc[p].pc = "registering" /\ proc' = [proc EXCEPT ![p] = x]
      /\ registry' = IF clash THEN registry ELSE registry \union keys
      /\ UNCHANGED <<now, env, revoked, issued, printed, tokens, commands, withdrawn, raced>>
  BY DEF EnsureCommit
<1>2. /\ proc \in [Procs -> Process] /\ proc[p] \in Process /\ proc[p].settings \in Settings
      /\ commands \in Nat /\ raced \in BOOLEAN /\ registry \subseteq Row
  BY <1>1, ProcessIs DEF IInv, TypeOK
<1>3. keys \subseteq Row /\ [id |-> Key("key-current"), status |-> "active"] \in keys
  BY <1>2, KeyTypes DEF FirstKeys, IInv
<1>4. clash \/ registry = {}
  BY <1>3 DEF IInv, RegistryOK
<1>5. pc \in {"started", "registering", "ready"}
  OBVIOUS
<1>6. /\ x \in Process /\ x.pc \in {"off", "started", "ready"}
      /\ x.pc = "ready" => ~clash
      /\ x.pc # "off" => x.settings = proc[p].settings
  <2>1. /\ [proc[p] EXCEPT !.pc = pc] \in Process /\ [proc[p] EXCEPT !.pc = pc].pc = pc
        /\ [proc[p] EXCEPT !.pc = pc].settings = proc[p].settings
    <3> HIDE DEF pc
    <3> QED
      BY <1>1, <1>2, <1>5, Continued
  <2> QED
    BY <2>1, OffIs
<1>7. p \in Servers => proc[p].settings = env \/ proc[p].settings.secret = env.previous
  BY <1>1 DEF IInv, ServersOK
<1>8. CASE clash
  <2>1. x.pc # "ready" /\ UNCHANGED registry
    BY <1>1, <1>6, <1>8
  <2> HIDE DEF x, clash, keys
  <2>2. HeldOK' /\ ServersOK' /\ RegistryOK' /\ proc' \in [Procs -> Process]
    BY <1>1, <1>2, <1>6, <1>7, <2>1, OwnStep
  <2>3. TypeOK' /\ RevokedOK'
    BY <1>1, <1>2, <2>1, <2>2, SameTokens
  <2> QED
    BY <2>2, <2>3 DEF IInv
<1>9. CASE ~clash
  <2>1. registry = {} /\ registry' = keys /\ x = [proc[p] EXCEPT !.pc = "ready"]
    BY <1>1, <1>4, <1>9
  <2>2. /\ \A q \in Procs : proc[q].pc \notin {"ready", "revoking", "rotating"}
        /\ proc' \in [Procs -> Process] /\ proc'[p] = x
        /\ \A q \in Procs \ {p} : proc'[q] = proc[q]
    BY <1>1, <1>2, <1>6, <2>1 DEF IInv, RegistryOK
  <2>3. Keys("active")' = {Key("key-current")} /\ Key("key-current") \in KeyNames'
    <3>1. \A row \in keys : row.status = "active" => row.id = Key("key-current")
      BY DEF FirstKeys
    <3>2. \E row \in keys : row.id = Key("key-current") /\ row.status = "active"
      BY <1>3
    <3>3. registry' = keys
      BY <2>1
    <3> HIDE DEF keys
    <3> QED
      BY <3>1, <3>2, <3>3 DEF Keys, KeyNames
  <2>4. Rotating' = {} /\ registry' # {}
    <3>1. registry' # {}
      BY <1>3, <2>1
    <3> HIDE DEF x, keys
    <3> QED
      BY <1>6, <2>2, <3>1 DEF Rotating
  <2>5. RegistryOK'
    BY <2>3, <2>4 DEF RegistryOK
  <2> HIDE DEF x, keys, clash
  <2>6. ServersOK'
    <3> SUFFICES ASSUME NEW s \in Servers, proc'[s].pc # "off"
                 PROVE  /\ proc'[s].pc \in {"started", "registering", "ready"}
                        /\ proc'[s].settings = env \/ proc'[s].settings.secret = env.previous
      BY <1>1 DEF ServersOK
    <3>1. CASE s = p
      BY <1>6, <1>7, <2>2, <3>1
    <3>2. CASE s # p
      BY <2>2, <3>2 DEF IInv, ServersOK, Procs
    <3> QED
      BY <3>1, <3>2
  <2>7. TypeOK' /\ RevokedOK'
    BY <1>1, <1>2, <1>3, <2>1, <2>2, SameTokens
  <2>8. HeldOK'
    <3> SUFFICES ASSUME NEW q \in Procs PROVE proc'[q].pc # "revoking"
      BY DEF HeldOK
    <3>1. CASE q = p
      BY <1>6, <2>2, <3>1
    <3>2. CASE q # p
      BY <2>2, <3>2
    <3> QED
      BY <3>1, <3>2
  <2> QED
    BY <2>5, <2>6, <2>7, <2>8 DEF IInv
<1> QED
  BY <1>8, <1>9

LEMMA MintStep ==
    ASSUME IInv, NEW p \in Terminals, Mint(p)
    PROVE  IInv'
<1>1. PICK s \in Subjects, role \in {"agent", "admin"}, minutes \in Lifetimes :
         tokens' = tokens \union
            {[subject |-> s, role |-> role, secret |-> proc[p].settings.secret,
              second |-> now, expires |-> now + Lifetime(minutes)]}
  BY DEF Mint
<1>2. /\ p \in Procs /\ proc[p] \in Process /\ proc[p].pc = "ready"
      /\ proc' = [proc EXCEPT ![p] = Off]
      /\ UNCHANGED <<now, env, registry, revoked, issued, printed, commands, withdrawn, raced>>
  BY DEF IInv, TypeOK, Mint, Procs
<1>3. HeldOK' /\ ServersOK' /\ RegistryOK' /\ proc' \in [Procs -> Process]
  <2>1. tokens \subseteq tokens' /\ raced' \in BOOLEAN
    BY <1>1, <1>2 DEF IInv, TypeOK
  <2> QED
    BY <1>2, <2>1, OffIs, OwnStep
<1>4. proc[p].settings.secret \in Nat
  BY <1>2, ProcessIs DEF Settings
<1>5. Lifetime(minutes) \in Int /\ Lifetime(minutes) \in Lasting
  BY AuthAssumption DEF Lifetime, Lasting
<1>a. now \in Nat
  BY DEF IInv, TypeOK
<1>6. tokens' \subseteq Token /\ \A t \in tokens' : t.expires - t.second \in Lasting
  BY <1>1, <1>4, <1>5, <1>a DEF IInv, TypeOK, Token
<1>7. TypeOK'
  BY <1>1, <1>2, <1>3, <1>6 DEF IInv, TypeOK
<1>8. RevokedOK'
  BY <1>2 DEF IInv, RevokedOK
<1> QED
  BY <1>3, <1>7, <1>8 DEF IInv

LEMMA RevokeStep ==
    ASSUME IInv, NEW p \in Terminals,
           (\E t \in tokens : RevokeQuery(p, t)) \/ RevokeCommit(p)
    PROVE  IInv'
<1>0. /\ p \in Procs /\ p \notin Servers /\ proc \in [Procs -> Process] /\ proc[p] \in Process
      /\ registry \subseteq Row /\ raced \in BOOLEAN /\ withdrawn \subseteq tokens
      /\ revoked \subseteq Nat \X Subjects
      /\ revoked = {TokenId(t) : t \in withdrawn}
  BY AuthAssumption DEF IInv, TypeOK, RevokedOK, Procs
<1>1. ASSUME NEW x \in Process, proc' = [proc EXCEPT ![p] = x], x.pc \in {"off", "revoking"},
             x.pc = "revoking" => x.token \in tokens, proc[p].pc \in {"ready", "revoking"},
             UNCHANGED <<now, env, registry, issued, printed, tokens, commands, raced>>,
             withdrawn' \subseteq tokens, revoked' \subseteq Nat \X Subjects,
             revoked' = {TokenId(t) : t \in withdrawn'}
      PROVE  IInv'
  <2>1. registry # {}
    BY <1>0, <1>1 DEF IInv, RegistryOK
  <2>2. HeldOK' /\ ServersOK' /\ RegistryOK' /\ proc' \in [Procs -> Process]
    BY <1>0, <1>1, <2>1, OwnStep
  <2>3. TypeOK' /\ RevokedOK'
    BY <1>1, <2>2 DEF IInv, TypeOK, RevokedOK
  <2> QED
    BY <2>2, <2>3 DEF IInv
<1>2. ASSUME NEW t \in tokens, RevokeQuery(p, t) PROVE IInv'
  <2>1. /\ proc[p].pc = "ready"
        /\ UNCHANGED <<now, env, registry, revoked, issued, printed, tokens, commands, raced>>
    BY <1>2 DEF RevokeQuery
  <2>2. CASE TokenId(t) \in revoked
    <3>1. withdrawn' = withdrawn \union {t} /\ proc' = [proc EXCEPT ![p] = Off]
      BY <1>2, <2>2 DEF RevokeQuery
    <3>2. revoked' = {TokenId(u) : u \in withdrawn'}
      BY <1>0, <2>1, <2>2, <3>1
    <3> QED
      BY <1>0, <1>1, <2>1, <3>1, <3>2, OffIs
  <2>3. CASE TokenId(t) \notin revoked
    <3> DEFINE x == [pc |-> "revoking", settings |-> proc[p].settings, token |-> t]
    <3>1. proc' = [proc EXCEPT ![p] = x] /\ UNCHANGED withdrawn
      BY <1>2, <2>3 DEF RevokeQuery
    <3>2. x \in Process /\ x.pc = "revoking" /\ x.token = t
      <4>1. proc[p].settings \in Settings /\ t \in Token
        BY <1>0, <2>1, ProcessIs DEF IInv, TypeOK
      <4> QED
        BY <4>1, Revoking
    <3> HIDE DEF x
    <3>3. revoked' = {TokenId(u) : u \in withdrawn'}
      BY <1>0, <2>1, <3>1
    <3> QED
      BY <1>0, <1>1, <2>1, <3>1, <3>2, <3>3
  <2> QED
    BY <2>2, <2>3
<1>3. CASE RevokeCommit(p)
  <2> DEFINE t == proc[p].token
  <2>1. /\ proc[p].pc = "revoking" /\ proc' = [proc EXCEPT ![p] = Off]
        /\ revoked' = revoked \union {TokenId(t)}
        /\ withdrawn' = IF TokenId(t) \in revoked THEN withdrawn ELSE withdrawn \union {t}
        /\ UNCHANGED <<now, env, registry, issued, printed, tokens, commands, raced>>
    BY <1>3 DEF RevokeCommit
  <2>2. t \in tokens /\ TokenId(t) \in Nat \X Subjects
    BY <1>0, <2>1 DEF IInv, HeldOK, TypeOK, Token, TokenId
  <2> HIDE DEF t
  <2>3. revoked' = {TokenId(u) : u \in withdrawn'}
    <3>1. CASE TokenId(t) \in revoked
      BY <1>0, <2>1, <3>1
    <3>2. CASE TokenId(t) \notin revoked
      BY <1>0, <2>1, <3>2
    <3> QED
      BY <3>1, <3>2
  <2> QED
    BY <1>0, <1>1, <2>1, <2>2, <2>3, OffIs
<1> QED
  BY <1>2, <1>3

LEMMA RotateQueryStep ==
    ASSUME IInv, NEW p \in Terminals, RotateQuery(p)
    PROVE  IInv'
<1>0. /\ p \in Procs /\ p \notin Servers /\ proc \in [Procs -> Process] /\ proc[p] \in Process
      /\ raced \in BOOLEAN /\ issued \in Nat /\ proc[p].pc = "ready"
  BY AuthAssumption DEF IInv, TypeOK, Procs, RotateQuery
<1>1. PICK old \in IF Keys("active") = {} THEN {{}} ELSE {{k} : k \in Keys("active")} :
         proc' = [proc EXCEPT ![p] =
                    [pc |-> "rotating", old |-> old, new |-> KeyOf(now),
                     settings |-> [secret |-> issued + 1,
                                   previous |-> proc[p].settings.secret]]]
  BY <1>0 DEF RotateQuery
<1> DEFINE new == KeyOf(now)
           s == [secret |-> issued + 1, previous |-> proc[p].settings.secret]
           x == [pc |-> "rotating", old |-> old, new |-> new, settings |-> s]
<1>2. /\ issued' = issued + 1 /\ raced' = (raced \/ Rotating # {})
      /\ UNCHANGED <<now, env, registry, revoked, printed, tokens, commands, withdrawn>>
  BY DEF RotateQuery, Rotating
<1>3. registry # {} /\ Keys("active") # {}
  BY <1>0 DEF IInv, RegistryOK
<1>4. /\ old \in SUBSET KeyIds
      /\ (\A j, k \in Keys("active") : j = k) => Keys("active") \subseteq old
  BY <1>3, KeyTypes DEF IInv
<1>5. s \in Settings
  BY <1>0, ProcessIs DEF Settings
<1>6. new \in KeyIds
  BY KeyTypes DEF IInv
<1> HIDE DEF s, new
<1>7. x \in Process /\ x.pc = "rotating" /\ x.old = old
  BY <1>4, <1>5, <1>6, RotatingIs
<1>8. proc' = [proc EXCEPT ![p] = x]
  BY <1>1 DEF s, new
<1> HIDE DEF x
<1>9. /\ Rotating # {} => raced'
      /\ ~raced' => Keys("active") \subseteq x.old
      /\ raced' \in BOOLEAN /\ (raced => raced')
  BY <1>0, <1>2, <1>4, <1>7 DEF IInv, RegistryOK
<1>10. HeldOK' /\ ServersOK' /\ RegistryOK' /\ proc' \in [Procs -> Process]
  BY <1>0, <1>2, <1>3, <1>7, <1>8, <1>9, OwnStep
<1>11. TypeOK'
  BY <1>0, <1>2, <1>9, <1>10 DEF IInv, TypeOK
<1>12. RevokedOK'
  BY <1>2 DEF IInv, RevokedOK
<1> QED
  BY <1>10, <1>11, <1>12 DEF IInv

\* A process that ends leaves the tokens held and the servers as they are.
LEMMA Ended ==
    ASSUME IInv, NEW p \in Procs, proc' = [proc EXCEPT ![p] = Off], UNCHANGED <<env, tokens>>
    PROVE  HeldOK' /\ ServersOK' /\ proc' \in [Procs -> Process]
<1>1. /\ proc \in [Procs -> Process] /\ proc' \in [Procs -> Process] /\ proc'[p] = Off
      /\ \A q \in Procs \ {p} : proc'[q] = proc[q]
  BY OffIs DEF IInv, TypeOK
<1>2. HeldOK'
  <2> SUFFICES ASSUME NEW q \in Procs, proc'[q].pc = "revoking" PROVE proc'[q].token \in tokens'
    BY DEF HeldOK
  <2>1. q # p
    BY <1>1, OffIs
  <2> QED
    BY <1>1, <2>1 DEF IInv, HeldOK
<1>3. ServersOK'
  <2> SUFFICES ASSUME NEW s \in Servers, proc'[s].pc # "off"
               PROVE  /\ proc'[s].pc \in {"started", "registering", "ready"}
                      /\ proc'[s].settings = env \/ proc'[s].settings.secret = env.previous
    BY DEF ServersOK
  <2>1. s # p /\ s \in Procs
    BY <1>1, OffIs DEF Procs
  <2> QED
    BY <1>1, <2>1 DEF IInv, ServersOK
<1> QED
  BY <1>1, <1>2, <1>3

\* The rows of the key retired stay, as previous ones: no key name is lost.
LEMMA RotateCommitStep ==
    ASSUME IInv, NEW p \in Terminals, RotateCommit(p)
    PROVE  IInv'
<1>1. /\ p \in Procs /\ proc \in [Procs -> Process] /\ proc[p] \in Process
      /\ registry \subseteq Row /\ raced \in BOOLEAN
  BY DEF IInv, TypeOK, Procs
<1>2. /\ proc[p].pc = "rotating" /\ proc' = [proc EXCEPT ![p] = Off]
      /\ UNCHANGED <<now, env, revoked, issued, tokens, commands, withdrawn, raced>>
  BY DEF RotateCommit
<1>3. registry # {}
  BY <1>1, <1>2 DEF IInv, RegistryOK
<1>4. CASE proc[p].new \in KeyNames
  <2>1. UNCHANGED <<registry, printed>>
    BY <1>4 DEF RotateCommit
  <2>2. HeldOK' /\ ServersOK' /\ RegistryOK' /\ proc' \in [Procs -> Process]
    BY <1>1, <1>2, <1>3, <2>1, OffIs, OwnStep
  <2>3. TypeOK' /\ RevokedOK'
    BY <1>1, <1>2, <2>1, <2>2, SameTokens DEF IInv, TypeOK
  <2> QED
    BY <2>2, <2>3 DEF IInv
<1>5. CASE proc[p].new \notin KeyNames
  <2>1. PICK old, new : old = proc[p].old /\ new = proc[p].new
    OBVIOUS
  <2>2. /\ registry' = {row \in registry : row.id \notin old} \union
                       {[id |-> k, status |-> "previous"] : k \in old} \union
                       {[id |-> new, status |-> "active"]}
        /\ printed' = printed \union {proc[p].settings.secret}
    BY <1>5, <2>1 DEF RotateCommit
  <2>3. /\ old \subseteq KeyIds /\ new \in KeyIds /\ proc[p].settings.secret \in Nat
    BY <1>1, <1>2, <2>1, ProcessIs DEF Settings
  <2>4. HeldOK' /\ ServersOK' /\ proc' \in [Procs -> Process]
    BY <1>1, <1>2, Ended
  <2>5. TypeOK'
    <3>1. registry' \subseteq Row
      BY <1>1, <2>2, <2>3 DEF Row
    <3> QED
      BY <1>2, <2>2, <2>3, <2>4, <3>1 DEF IInv, TypeOK
  <2>6. RevokedOK'
    BY <1>2 DEF IInv, RevokedOK
  <2>7. /\ [id |-> new, status |-> "active"] \in registry'
        /\ \A row \in registry :
              row \in registry' \/ [id |-> row.id, status |-> "previous"] \in registry'
        /\ \A row \in registry' : row.status = "active" =>
              row.id = new \/ (row \in registry /\ row.id \notin old)
    BY <2>2
  <2>8. registry' # {} /\ new \in Keys("active")' /\ Key("key-current") \in KeyNames'
    <3>1. \E row \in registry : row.id = Key("key-current")
      BY <1>3, KeysAre DEF IInv, RegistryOK
    <3>2. \E row \in registry' : row.id = Key("key-current")
      BY <2>7, <3>1
    <3> QED
      BY <2>7, <3>2 DEF Keys, KeyNames
  <2>9. ASSUME ~raced'
        PROVE  /\ \A j, k \in Keys("active")' : j = k
               /\ Rotating' = {}
    <3>1. Keys("active") \subseteq old /\ Rotating = {p}
      BY <1>1, <1>2, <2>1, <2>9 DEF IInv, RegistryOK, Rotating
    <3>2. \A k \in Keys("active")' : k = new
      BY <2>7, <3>1 DEF Keys
    <3>3. Rotating' = {}
      BY <1>1, <1>2, <3>1, OffIs DEF Rotating
    <3> QED
      BY <3>2, <3>3
  <2>10. RegistryOK'
    BY <2>8, <2>9 DEF RegistryOK
  <2> QED
    BY <2>4, <2>5, <2>6, <2>10 DEF IInv
<1> QED
  BY <1>4, <1>5

-----------------------------------------------------------------------------
(* Theorems                                                                *)

LEMMA InitIInv == Init => IInv
<1> SUFFICES ASSUME Init PROVE IInv
  OBVIOUS
<1>1. TypeOK
  BY OffIs DEF Init, TypeOK, Settings
<1>2. RevokedOK /\ HeldOK /\ ServersOK
  BY OffIs DEF Init, RevokedOK, HeldOK, ServersOK, Procs
<1>3. RegistryOK
  BY OffIs DEF Init, RegistryOK, Keys, Rotating
<1> QED
  BY <1>1, <1>2, <1>3 DEF IInv

LEMMA NextIInv == IInv /\ [Next]_vars => IInv'
<1> SUFFICES ASSUME IInv, [Next]_vars PROVE IInv'
  OBVIOUS
<1>1. CASE Tick
  BY <1>1, TickStep
<1>2. CASE Deploy
  BY <1>2, DeployStep
<1>3. ASSUME NEW p \in Procs, Launch(p) \/ Stop(p) \/ EnsureQuery(p) PROVE IInv'
  BY <1>3, LifeStep
<1>4. ASSUME NEW p \in Procs, EnsureCommit(p) PROVE IInv'
  BY <1>4, EnsureCommitStep
<1>5. ASSUME NEW p \in Terminals, Mint(p) PROVE IInv'
  BY <1>5, MintStep
<1>6. ASSUME NEW p \in Terminals, (\E t \in tokens : RevokeQuery(p, t)) \/ RevokeCommit(p)
      PROVE  IInv'
  BY <1>6, RevokeStep
<1>7. ASSUME NEW p \in Terminals, RotateQuery(p) PROVE IInv'
  BY <1>7, RotateQueryStep
<1>8. ASSUME NEW p \in Terminals, RotateCommit(p) PROVE IInv'
  BY <1>8, RotateCommitStep
<1>9. CASE UNCHANGED vars
  <2>1. TypeOK' /\ RevokedOK' /\ HeldOK' /\ ServersOK'
    BY <1>9 DEF vars, IInv, TypeOK, RevokedOK, HeldOK, ServersOK
  <2>2. (\A status : Keys(status)' = Keys(status)) /\ KeyNames' = KeyNames /\ Rotating' = Rotating
    BY <1>9 DEF vars, Keys, KeyNames, Rotating
  <2>3. RegistryOK'
    BY <1>9, <2>2 DEF vars, IInv, RegistryOK
  <2> QED
    BY <2>1, <2>3 DEF IInv
<1> QED
  BY <1>1, <1>2, <1>3, <1>4, <1>5, <1>6, <1>7, <1>8, <1>9 DEF Next

LEMMA Inductive == Spec => []IInv
BY InitIInv, NextIInv, PTL DEF Spec

\* Processes, keys and tokens keep their types, and every token lasts as long as was
\* asked for, negative times included, or as the settings say.
THEOREM TypeCorrect == Spec => []TypeOK
<1>1. IInv => TypeOK
  BY DEF IInv
<1> QED
  BY <1>1, Inductive, PTL

\* A token is listed if and only if it, or one of the same subject and second, was
\* revoked: no more tokens are refused, and no fewer.
LEMMA Listed ==
    ASSUME RevokedOK, NEW t
    PROVE  TokenId(t) \in revoked <=> Withdrawn(t)
BY DEF RevokedOK, TokenId, Withdrawn

\* What auth-revoke-token reported revoked, authenticate_bearer_token refuses, and
\* nothing else, for any servers, restarts and rotations.
THEOREM RevocationsAreExact == Spec => []RevocationIsExact
<1>1. IInv => RevocationIsExact
  BY Listed DEF IInv, RevocationIsExact, Accepts
<1> QED
  BY <1>1, Inductive, PTL

\* During a rollout every server accepts what was signed with the secret before, and
\* after it what is signed with the new one, while it lasts and is not revoked.
THEOREM RolloutLocksNobodyOut == Spec => []NobodyLockedOut
<1>1. ASSUME IInv PROVE NobodyLockedOut
  <2> SUFFICES ASSUME NEW t \in tokens, now <= t.expires, ~Withdrawn(t),
                      \/ t.secret = env.previous
                      \/ t.secret = env.secret /\ \A s \in Serving : proc[s].settings = env,
                      NEW s \in Serving
               PROVE  Accepts(s, t)
    BY DEF NobodyLockedOut
  <2>1. s \in Servers /\ proc[s].pc = "ready"
    BY DEF Serving
  <2>2. proc[s].settings = env \/ proc[s].settings.secret = env.previous
    BY <1>1, <2>1 DEF IInv, ServersOK
  <2>3. t.secret \in Candidates(s)
    BY <2>2 DEF Candidates
  <2>4. TokenId(t) \notin revoked
    BY <1>1, Listed DEF IInv
  <2> QED
    BY <2>3, <2>4 DEF Accepts, Decodes
<1> QED
  BY <1>1, Inductive, PTL

\* The first start makes one key active and every rotation replaces it, whatever
\* processes do; two rotations that overlap are the exception.
THEOREM OneKeyIsActive == Spec => []OneActiveKey
<1>1. ASSUME IInv PROVE OneActiveKey
  <2>1. registry # {} => Keys("active") # {}
    BY <1>1 DEF IInv, RegistryOK
  <2>2. ASSUME ~raced PROVE Cardinality(Keys("active")) <= 1
    <3>1. \A j, k \in Keys("active") : j = k
      BY <1>1, <2>2 DEF IInv, RegistryOK
    <3>2. Keys("active") = {} \/ \E k : Keys("active") = {k}
      BY <3>1
    <3>3. CASE Keys("active") = {}
      BY <3>3, FS_EmptySet
    <3>4. CASE \E k : Keys("active") = {k}
      BY <3>4, FS_Singleton
    <3> QED
      BY <3>2, <3>3, <3>4
  <2> QED
    BY <2>1, <2>2 DEF OneActiveKey
<1> QED
  BY <1>1, Inductive, PTL
=============================================================================
