-------------------------- MODULE CapabilityProofs --------------------------
(***************************************************************************)
(* Theorems about capability manifests.  In the database, for any number   *)
(* of administrators, manifests and commands: a scope has one active       *)
(* manifest until one is added beside it, or while an activation is        *)
(* between its UPDATE and its commit; and the store implements the         *)
(* register.  From files, for any number of kernels, files and edits: what *)
(* a load leaves, and which manifest a caller gets of it.                  *)
(***************************************************************************)
EXTENDS CapabilityStore, CapabilityLookup, SequenceTheorems, FiniteSetTheorems, TLAPS

-----------------------------------------------------------------------------
(* The table                                                               *)

LEMMA Typed ==
    ASSUME TypeOK
    PROVE  /\ manifests \in Seq(Row) /\ Len(manifests) \in Nat
           /\ \A i \in 1..Len(manifests) : manifests[i] \in Row
BY LenProperties, ElementOfSeq DEF TypeOK

\* A function on 1..n is a sequence of length n.
LEMMA FunctionIsSeq ==
    ASSUME NEW S, NEW n \in Nat, NEW f \in [1..n -> S]
    PROVE  f \in Seq(S) /\ Len(f) = n
<1>1. f \in Seq(S)
  BY SeqDef
<1>2. DOMAIN f = 1..n /\ DOMAIN f = 1..Len(f) /\ Len(f) \in Nat
  BY <1>1, LenProperties
<1> QED
  BY <1>1, <1>2

\* A loaded row, and the row it was loaded from.
LEMMA LoadedRow ==
    ASSUME TypeOK, NEW p \in Admins, session[p] # Done
    PROVE  /\ session[p] \in Command
           /\ session[p].op # "create" =>
                 /\ session[p].id \in 1..Len(manifests)
                 /\ session[p].seen.scope = manifests[session[p].id].scope
<1>1. session[p] \in Command
  BY DEF TypeOK
<1>2. session[p].op # "none"
  BY <1>1 DEF Command
<1> QED
  BY <1>1, <1>2 DEF TypeOK

\* What a commit that adds no row leaves in the table, w.
WriteOK(w, p, active, tools) ==
    LET c == session[p] IN
    /\ w \in Seq(Row) /\ Len(w) = Len(manifests)
    /\ \A i \in 1..Len(manifests) :
          /\ w[i].scope = manifests[i].scope
          /\ i = c.id =>
                /\ w[i].active = Flushed(manifests[i].active, c.seen.active, active)
                /\ w[i].tools = Flushed(manifests[i].tools, c.seen.tools, tools)
          /\ (i # c.id /\ i \in Siblings(p)) =>
                w[i].active = FALSE /\ w[i].tools = manifests[i].tools
          /\ (i # c.id /\ i \notin Siblings(p)) => w[i] = manifests[i]

LEMMA WrittenIs ==
    ASSUME TypeOK, NEW p \in Admins, session[p] # Done, session[p].op # "create",
           NEW active \in BOOLEAN, NEW tools \in ToolSets
    PROVE  WriteOK(Written(p, active, tools), p, active, tools)
<1> DEFINE w == Written(p, active, tools)
           c == session[p]
<1>1. /\ manifests \in Seq(Row) /\ Len(manifests) \in Nat
      /\ \A i \in 1..Len(manifests) : manifests[i] \in Row
      /\ c.id \in 1..Len(manifests) /\ c.seen \in Row
  BY Typed, LoadedRow DEF Command
<1>2. ASSUME NEW i \in 1..Len(manifests)
      PROVE  /\ w[i] \in Row
             /\ w[i].scope = manifests[i].scope
             /\ i = c.id =>
                   /\ w[i].active = Flushed(manifests[i].active, c.seen.active, active)
                   /\ w[i].tools = Flushed(manifests[i].tools, c.seen.tools, tools)
             /\ (i # c.id /\ i \in Siblings(p)) =>
                   w[i].active = FALSE /\ w[i].tools = manifests[i].tools
             /\ (i # c.id /\ i \notin Siblings(p)) => w[i] = manifests[i]
  <2>1. manifests[i] \in Row
    BY <1>1
  <2>2. CASE i = c.id
    <3> DEFINE a == Flushed(manifests[i].active, c.seen.active, active)
               t == Flushed(manifests[i].tools, c.seen.tools, tools)
    <3>1. a \in BOOLEAN /\ t \in ToolSets
      BY <2>1 DEF Row, Flushed
    <3>2. w[i] = [manifests[i] EXCEPT !.active = a, !.tools = t]
      BY <2>2 DEF Written
    <3> HIDE DEF a, t, w
    <3>3. /\ w[i] \in Row /\ w[i].scope = manifests[i].scope
          /\ w[i].active = a /\ w[i].tools = t
      BY <2>1, <3>1, <3>2 DEF Row
    <3> QED
      BY <2>2, <3>3 DEF a, t
  <2>3. CASE i # c.id /\ i \in Siblings(p)
    <3>1. w[i] = [manifests[i] EXCEPT !.active = FALSE]
      BY <2>3 DEF Written
    <3> HIDE DEF w
    <3>2. w[i] \in Row /\ w[i].scope = manifests[i].scope
          /\ w[i].active = FALSE /\ w[i].tools = manifests[i].tools
      BY <2>1, <3>1 DEF Row
    <3> QED
      BY <2>3, <3>2
  <2>4. CASE i # c.id /\ i \notin Siblings(p)
    <3>1. w[i] = manifests[i]
      BY <2>4 DEF Written
    <3> QED
      BY <2>1, <2>4, <3>1
  <2> QED
    BY <2>2, <2>3, <2>4
<1>3. w \in [1..Len(manifests) -> Row]
  BY <1>2 DEF Written
<1> HIDE DEF w
<1>4. w \in Seq(Row) /\ Len(w) = Len(manifests)
  BY <1>1, <1>3, FunctionIsSeq
<1> QED
  BY <1>2, <1>4 DEF w, WriteOK

\* The row a bump inserts.
LEMMA VersionIs ==
    ASSUME TypeOK, NEW p \in Admins, session[p] # Done
    PROVE  /\ Version(p) \in Row
           /\ Version(p).scope = session[p].seen.scope
           /\ Version(p).tools = session[p].seen.tools
           /\ Version(p).active = session[p].activate
<1> DEFINE x == session[p].seen
           a == session[p].activate
           v == x.version + 1
<1>1. /\ x \in Row /\ a \in BOOLEAN /\ Version(p) = [x EXCEPT !.version = v, !.active = a]
      /\ v \in Nat \ {0}
  BY LoadedRow DEF Command, Version, Row
<1> HIDE DEF x, a, v
<1>2. /\ Version(p) \in Row /\ Version(p).scope = x.scope
      /\ Version(p).tools = x.tools /\ Version(p).active = a
  BY <1>1 DEF Row
<1> QED
  BY <1>2 DEF x, a

-----------------------------------------------------------------------------
(* Types                                                                   *)

LEMMA BeginTyped ==
    ASSUME TypeOK, NEW p \in Admins, NEW c \in Command, Begin(p, c),
           c.op # "create" => /\ c.id \in 1..Len(manifests)
                              /\ c.seen.scope = manifests[c.id].scope
    PROVE  TypeOK'
BY DEF TypeOK, Begin

\* A commit that keeps the scopes of the rows, and ends its session, keeps the types.
LEMMA EndTyped ==
    ASSUME TypeOK, NEW p \in Admins, NEW op, End(p, op),
           manifests' \in Seq(Row), Len(manifests) <= Len(manifests'),
           \A i \in 1..Len(manifests) : manifests'[i].scope = manifests[i].scope,
           loose' \subseteq Scopes
    PROVE  TypeOK'
<1>1. session' = [session EXCEPT ![p] = Done] /\ commands' = commands
  BY DEF End
<1>2. session' \in [Admins -> Command \union {Done}]
  BY <1>1 DEF TypeOK
<1>3. ASSUME NEW q \in Admins, session'[q].op \notin {"none", "create"}
      PROVE  /\ session'[q].id \in 1..Len(manifests')
             /\ session'[q].seen.scope = manifests'[session'[q].id].scope
  <2>1. q # p
    BY <1>1, <1>3 DEF TypeOK, Done
  <2>2. session'[q] = session[q]
    BY <1>1, <2>1 DEF TypeOK
  <2>3. session[q].id \in 1..Len(manifests)
        /\ session[q].seen.scope = manifests[session[q].id].scope
    BY <1>3, <2>2 DEF TypeOK
  <2>4. Len(manifests) \in Nat /\ Len(manifests') \in Nat
    BY LenProperties DEF TypeOK
  <2> QED
    BY <2>2, <2>3, <2>4
<1> QED
  BY <1>1, <1>2, <1>3 DEF TypeOK

LEMMA ReadTyped ==
    ASSUME TypeOK, NEW p \in Admins, CreateList(p) \/ Load(p)
    PROVE  TypeOK'
<1>1. CASE CreateList(p)
  <2>0. PICK s \in Scopes, tools \in ToolSets, activate \in BOOLEAN :
           \E last \in {0} \union {manifests[i].version : i \in Listed(s)} :
              Begin(p, [op |-> "create", id |-> 0, tools |-> tools, activate |-> activate,
                        upTo |-> 0, seen |-> [scope |-> s, version |-> last + 1, active |-> activate,
                                  tools |-> tools]])
    BY <1>1 DEF CreateList
  <2>1. PICK last \in {0} \union {manifests[i].version : i \in Listed(s)} :
           Begin(p, [op |-> "create", id |-> 0, tools |-> tools, activate |-> activate,
                     upTo |-> 0, seen |-> [scope |-> s, version |-> last + 1, active |-> activate,
                               tools |-> tools]])
    BY <2>0
  <2> DEFINE c == [op |-> "create", id |-> 0, tools |-> tools, activate |-> activate,
                   upTo |-> 0, seen |-> [scope |-> s, version |-> last + 1, active |-> activate,
                             tools |-> tools]]
  <2>2. last \in Nat
    BY Typed DEF Listed, Row
  <2>3. c \in Command /\ c.op = "create" /\ Begin(p, c)
    BY <2>1, <2>2 DEF Command, Row
  <2> HIDE DEF c
  <2> QED
    BY <2>3, BeginTyped
<1>2. CASE Load(p)
  <2>1. PICK i \in 1..Len(manifests), tools \in ToolSets, activate \in BOOLEAN,
             op \in {"activate", "deactivate", "update", "bump"} :
           Begin(p, [op |-> op, id |-> i, seen |-> manifests[i], tools |-> tools,
                     activate |-> activate, upTo |-> 0])
    BY <1>2 DEF Load
  <2> DEFINE c == [op |-> op, id |-> i, seen |-> manifests[i], tools |-> tools,
                   activate |-> activate, upTo |-> 0]
  <2>2. c \in Command /\ c.id = i /\ c.seen = manifests[i] /\ Begin(p, c)
    BY <2>1, Typed DEF Command
  <2> HIDE DEF c
  <2> QED
    BY <2>2, BeginTyped
<1> QED
  BY <1>1, <1>2

LEMMA UpdateTyped ==
    ASSUME TypeOK, NEW p \in Admins, UpdateSiblings(p)
    PROVE  TypeOK'
<1>1. session[p] \in Command /\ Len(manifests) \in Nat
  BY LoadedRow, Typed DEF UpdateSiblings, Done
<1> DEFINE c == [session[p] EXCEPT !.upTo = Len(manifests)]
<1>2. /\ c \in Command /\ c.op = session[p].op /\ c.id = session[p].id
      /\ c.seen = session[p].seen
  BY <1>1 DEF Command
<1>3. session' = [session EXCEPT ![p] = c] /\ UNCHANGED <<manifests, commands, loose>>
  BY DEF UpdateSiblings
<1> HIDE DEF c
<1> QED
  BY <1>2, <1>3 DEF TypeOK

LEMMA AbortTyped ==
    ASSUME TypeOK, NEW p \in Admins, Abort(p)
    PROVE  TypeOK'
BY DEF TypeOK, Abort, Done

-----------------------------------------------------------------------------
(* What each commit does to the table                                      *)

\* The three commands that change rows in place.
InPlace(p, active, tools) ==
    /\ session[p] # Done /\ session[p].op # "create"
    /\ active \in BOOLEAN /\ tools \in ToolSets
    /\ manifests' = Written(p, active, tools)

LEMMA InPlaceWrites ==
    ASSUME TypeOK, NEW p \in Admins,
           NEW active, NEW tools, InPlace(p, active, tools)
    PROVE  /\ WriteOK(manifests', p, active, tools)
           /\ active \in BOOLEAN
           /\ session[p] # Done /\ session[p].op # "create"
BY WrittenIs, Zenon DEF InPlace

LEMMA ActivateIsInPlace ==
    ASSUME TypeOK, NEW p \in Admins, ActivateManifest(p)
    PROVE  InPlace(p, TRUE, session[p].tools)
<1>1. session[p].op = "activate" /\ session[p] # Done
  BY DEF ActivateManifest, End, Done
<1> QED
  BY <1>1, LoadedRow DEF ActivateManifest, InPlace, Command

LEMMA DeactivateIsInPlace ==
    ASSUME TypeOK, NEW p \in Admins, DeactivateManifest(p)
    PROVE  InPlace(p, FALSE, session[p].tools)
<1>1. session[p].op = "deactivate" /\ session[p] # Done
  BY DEF DeactivateManifest, End, Done
<1> QED
  BY <1>1, LoadedRow DEF DeactivateManifest, InPlace, Command

LEMMA UpdateIsInPlace ==
    ASSUME TypeOK, NEW p \in Admins, UpdateManifestTools(p)
    PROVE  InPlace(p, session[p].activate \/ session[p].seen.active, session[p].tools)
<1>1. session[p].op = "update" /\ session[p] # Done
  BY DEF UpdateManifestTools, End, Done
<1> QED
  BY <1>1, LoadedRow DEF UpdateManifestTools, InPlace, Command, Row

\* The two that add one, create_manifest and create_next_version.
LEMMA CreateIs ==
    ASSUME TypeOK, NEW p \in Admins, CreateManifest(p)
    PROVE  /\ session[p].op = "create" /\ session[p] # Done
           /\ session[p].seen \in Row
           /\ manifests' \in Seq(Row) /\ Len(manifests') = Len(manifests) + 1
           /\ \A i \in 1..Len(manifests) : manifests'[i] = manifests[i]
           /\ manifests'[Len(manifests) + 1] = session[p].seen
<1>1. session[p].op = "create" /\ session[p] # Done
  BY DEF CreateManifest, End, Done
<1>2. session[p].seen \in Row
  BY <1>1, LoadedRow DEF Command
<1> QED
  BY <1>1, <1>2, Typed, AppendProperties DEF CreateManifest

\* create_next_version clears the old row, in the same commit, if it is active.
Cleared(p) == session[p].seen.active /\ ~session[p].activate

LEMMA BumpIs ==
    ASSUME TypeOK, NEW p \in Admins, CreateNextVersion(p)
    PROVE  \E w : /\ WriteOK(w, p, Cleared(p), session[p].tools)
                  /\ manifests' \in Seq(Row) /\ Len(manifests') = Len(manifests) + 1
                  /\ \A i \in 1..Len(manifests) : manifests'[i] = w[i]
                  /\ manifests'[Len(manifests) + 1] = Version(p)
<1>1. session[p].op = "bump" /\ session[p] # Done /\ session[p].op # "create"
  BY DEF CreateNextVersion, End, Done
<1>2. Cleared(p) \in BOOLEAN /\ session[p].tools \in ToolSets
  BY <1>1, LoadedRow DEF Cleared, Command
<1> DEFINE w == Written(p, Cleared(p), session[p].tools)
<1>3. WriteOK(w, p, Cleared(p), session[p].tools)
  BY <1>1, <1>2, WrittenIs, Zenon
<1>4. manifests' = Append(w, Version(p))
  BY DEF CreateNextVersion, Cleared
<1> HIDE DEF w
<1>5. Version(p) \in Row
  BY <1>1, VersionIs
<1>6. w \in Seq(Row) /\ Len(w) = Len(manifests)
  BY <1>3 DEF WriteOK
<1>7. /\ manifests' \in Seq(Row) /\ Len(manifests') = Len(manifests) + 1
      /\ \A i \in 1..Len(manifests) : manifests'[i] = w[i]
      /\ manifests'[Len(manifests) + 1] = Version(p)
  BY <1>4, <1>5, <1>6, AppendProperties
<1> QED
  BY <1>3, <1>7

-----------------------------------------------------------------------------
(* One active manifest                                                     *)

LEMMA NextTyped == TypeOK /\ [Next]_vars => TypeOK'
<1> SUFFICES ASSUME TypeOK, [Next]_vars PROVE TypeOK'
  OBVIOUS
<1>1. CASE UNCHANGED vars
  BY <1>1 DEF vars, TypeOK
<1>2. ASSUME NEW p \in Admins, CreateList(p) \/ Load(p) PROVE TypeOK'
  BY <1>2, ReadTyped
<1>3. ASSUME NEW p \in Admins, NEW op, NEW active, NEW tools,
             End(p, op), InPlace(p, active, tools), loose' \subseteq Scopes
      PROVE  TypeOK'
  <2>1. /\ manifests' \in Seq(Row) /\ Len(manifests') = Len(manifests)
        /\ \A i \in 1..Len(manifests) : manifests'[i].scope = manifests[i].scope
    BY <1>3, InPlaceWrites DEF WriteOK
  <2> QED
    BY <1>3, <2>1, EndTyped, Typed
<1>4. ASSUME NEW p \in Admins, CreateManifest(p) PROVE TypeOK'
  <2>1. session[p].seen.scope \in Scopes
    BY <1>4, CreateIs DEF Row
  <2>2. loose' \subseteq Scopes
    BY <1>4, <2>1 DEF CreateManifest, Loosen, TypeOK
  <2>3. /\ manifests' \in Seq(Row) /\ Len(manifests) <= Len(manifests')
        /\ \A i \in 1..Len(manifests) : manifests'[i].scope = manifests[i].scope
    BY <1>4, CreateIs, Typed
  <2>4. End(p, "create")
    BY <1>4 DEF CreateManifest
  <2> QED
    BY <2>2, <2>3, <2>4, EndTyped
<1>5. ASSUME NEW p \in Admins, ActivateManifest(p) PROVE TypeOK'
  <2>1. loose' \subseteq Scopes
    BY <1>5, ActivateIsInPlace, LoadedRow DEF ActivateManifest, Settle, TypeOK, InPlace, Command, Row
  <2> QED
    BY <1>3, <1>5, <2>1, ActivateIsInPlace DEF ActivateManifest
<1>6. ASSUME NEW p \in Admins, DeactivateManifest(p) PROVE TypeOK'
  BY <1>3, <1>6, DeactivateIsInPlace DEF DeactivateManifest, TypeOK
<1>7. ASSUME NEW p \in Admins, UpdateManifestTools(p) PROVE TypeOK'
  <2>1. loose' \subseteq Scopes
    BY <1>7, UpdateIsInPlace, LoadedRow DEF UpdateManifestTools, Settle, TypeOK, InPlace, Command, Row
  <2> QED
    BY <1>3, <1>7, <2>1, UpdateIsInPlace DEF UpdateManifestTools
<1>8. ASSUME NEW p \in Admins, CreateNextVersion(p) PROVE TypeOK'
  <2>1. session[p] # Done /\ session[p] \in Command
    BY <1>8, LoadedRow DEF CreateNextVersion, End, Done
  <2>2. /\ manifests' \in Seq(Row) /\ Len(manifests') = Len(manifests) + 1
        /\ \A i \in 1..Len(manifests) : manifests'[i].scope = manifests[i].scope
    BY <1>8, BumpIs DEF WriteOK
  <2>3. session[p].seen.scope \in Scopes
    BY <2>1 DEF Command, Row
  <2>4. loose' \subseteq Scopes
    BY <1>8, <2>3 DEF CreateNextVersion, Loosen, TypeOK
  <2>5. Len(manifests) <= Len(manifests')
    BY <2>2, Typed
  <2> QED
    BY <1>8, <2>2, <2>4, <2>5, EndTyped DEF CreateNextVersion
<1> QED
  BY <1>1, <1>2, <1>4, <1>5, <1>6, <1>7, <1>8, UpdateTyped, AbortTyped DEF Next

\* A commit that makes no row active, but row k of an activation.
LEMMA InPlaceKeepsSingle ==
    ASSUME TypeOK, SingleActive, NEW p \in Admins,
           NEW active, NEW tools, InPlace(p, active, tools),
           active => session[p].upTo # 0 \/ session[p].seen.active,
           IF session[p].upTo = 0 THEN loose' = loose ELSE Settle(p)
    PROVE  SingleActive'
<1> DEFINE c == session[p]
<1>1. /\ Len(manifests') = Len(manifests) /\ Len(manifests) \in Nat
      /\ c.id \in 1..Len(manifests) /\ c.seen.scope = manifests[c.id].scope
      /\ c.seen \in Row /\ active \in BOOLEAN /\ c.upTo \in Nat
  BY InPlaceWrites, LoadedRow, Typed DEF WriteOK, Command
<1>2. \A i \in 1..Len(manifests) :
         /\ manifests'[i].scope = manifests[i].scope
         /\ i = c.id => manifests'[i].active =
                           Flushed(manifests[i].active, c.seen.active, active)
         /\ (i # c.id /\ i \in Siblings(p)) => manifests'[i].active = FALSE
         /\ (i # c.id /\ i \notin Siblings(p)) => manifests'[i] = manifests[i]
  <2>1. WriteOK(manifests', p, active, tools)
    BY InPlaceWrites
  <2> QED
    BY <1>1, <2>1 DEF WriteOK
<1> SUFFICES ASSUME NEW s \in Scopes \ loose', NEW i \in ActiveIn(s)', NEW j \in ActiveIn(s)'
             PROVE  i = j
  BY DEF SingleActive
<1>3. /\ i \in 1..Len(manifests) /\ manifests'[i].scope = s /\ manifests'[i].active
      /\ j \in 1..Len(manifests) /\ manifests'[j].scope = s /\ manifests'[j].active
  BY <1>1 DEF ActiveIn
<1>4. CASE c.upTo # 0 /\ s = c.seen.scope
  <2>1. ActiveIn(s) \subseteq 1..c.upTo
    BY <1>4 DEF Settle
  <2>2. ASSUME NEW k \in 1..Len(manifests), manifests'[k].scope = s, manifests'[k].active
        PROVE  k = c.id
    <3> SUFFICES ASSUME k # c.id PROVE FALSE
      OBVIOUS
    <3>1. k \notin Siblings(p)
      BY <1>2, <2>2
    <3>2. k \in ActiveIn(s)
      BY <1>2, <2>2, <3>1 DEF ActiveIn
    <3>3. manifests[k].scope = c.seen.scope
      BY <1>2, <1>4, <2>2
    <3> QED
      BY <2>1, <3>1, <3>2, <3>3 DEF Siblings
  <2> QED
    BY <1>3, <2>2
<1>5. CASE ~(c.upTo # 0 /\ s = c.seen.scope)
  <2>1. ASSUME NEW k \in 1..Len(manifests), manifests'[k].scope = s, manifests'[k].active
        PROVE  k \in ActiveIn(s)
    <3>1. CASE k = c.id
      <4>1. s = c.seen.scope /\ c.upTo = 0
        BY <1>1, <1>2, <1>5, <2>1, <3>1
      <4>2. manifests[k].active
        BY <1>1, <1>2, <2>1, <3>1, <4>1 DEF Flushed, Row
      <4> QED
        BY <1>2, <2>1, <4>2 DEF ActiveIn
    <3>2. CASE k # c.id
      BY <1>2, <2>1, <3>2 DEF ActiveIn
    <3> QED
      BY <3>1, <3>2
  <2>2. s \in Scopes \ loose
    BY <1>5 DEF Settle
  <2> QED
    BY <1>3, <2>1, <2>2 DEF SingleActive
<1> QED
  BY <1>4, <1>5

\* The options of a command that its op fixes; only an activation sends an UPDATE.
SessionsOK ==
    \A p \in Admins :
        /\ session[p].op = "create" => session[p].seen.active = session[p].activate
        /\ session[p].op \notin {"none", "update"} => session[p].tools = session[p].seen.tools
        /\ session[p].op = "activate" => session[p].activate = TRUE
        /\ session[p].op = "deactivate" => session[p].activate = FALSE
        /\ (session[p].op # "none" /\ ~(session[p].op \in {"activate", "update"} /\ session[p].activate))
              => session[p].upTo = 0

LEMMA NextSessions == TypeOK /\ SessionsOK /\ [Next]_vars => SessionsOK'
<1> SUFFICES ASSUME TypeOK, SessionsOK, [Next]_vars PROVE SessionsOK'
  OBVIOUS
<1>1. CASE UNCHANGED vars
  BY <1>1 DEF vars, SessionsOK
<1>2. ASSUME NEW p \in Admins, NEW op, End(p, op) PROVE SessionsOK'
  BY <1>2 DEF End, Done, SessionsOK, TypeOK
<1>3. ASSUME NEW p \in Admins, NEW c, Begin(p, c),
             c.op = "create" => c.seen.active = c.activate,
             c.op \notin {"none", "update"} => c.tools = c.seen.tools,
             c.op = "activate" => c.activate = TRUE,
             c.op = "deactivate" => c.activate = FALSE,
             c.upTo = 0
      PROVE  SessionsOK'
  BY <1>3 DEF Begin, SessionsOK, TypeOK
<1>4. ASSUME NEW p \in Admins, CreateList(p) PROVE SessionsOK'
  <2>1. PICK s, tools, activate, last :
           Begin(p, [op |-> "create", id |-> 0, tools |-> tools, activate |-> activate,
                     upTo |-> 0, seen |-> [scope |-> s, version |-> last + 1, active |-> activate,
                               tools |-> tools]])
    BY <1>4 DEF CreateList
  <2> QED
    BY <2>1, <1>3
<1>5. ASSUME NEW p \in Admins, Load(p) PROVE SessionsOK'
  <2>1. PICK i \in 1..Len(manifests), tools \in ToolSets, activate \in BOOLEAN,
             op \in {"activate", "deactivate", "update", "bump"} :
           /\ op # "update" => tools = manifests[i].tools
           /\ op \notin {"update", "bump"} => activate = (op = "activate")
           /\ Begin(p, [op |-> op, id |-> i, seen |-> manifests[i], tools |-> tools,
                        activate |-> activate, upTo |-> 0])
    BY <1>5 DEF Load
  <2> DEFINE c == [op |-> op, id |-> i, seen |-> manifests[i], tools |-> tools,
                   activate |-> activate, upTo |-> 0]
  <2>2. /\ c.op # "create"
        /\ c.op \notin {"none", "update"} => c.tools = c.seen.tools
        /\ c.op = "activate" => c.activate = TRUE
        /\ c.op = "deactivate" => c.activate = FALSE
        /\ c.upTo = 0
        /\ Begin(p, c)
    BY <2>1
  <2> HIDE DEF c
  <2> QED
    BY <2>2, <1>3
<1>6. ASSUME NEW p \in Admins, UpdateSiblings(p) PROVE SessionsOK'
  <2>1. session[p] \in Command /\ session[p].op \in {"activate", "update"} /\ session[p].activate
    BY <1>6, LoadedRow DEF UpdateSiblings, Done
  <2> DEFINE c == [session[p] EXCEPT !.upTo = Len(manifests)]
  <2>2. /\ c.op = session[p].op /\ c.seen = session[p].seen /\ c.tools = session[p].tools
        /\ c.activate = session[p].activate
    BY <2>1 DEF Command
  <2>3. session' = [session EXCEPT ![p] = c]
    BY <1>6 DEF UpdateSiblings
  <2> HIDE DEF c
  <2> QED
    BY <2>1, <2>2, <2>3 DEF SessionsOK, TypeOK
<1>7. ASSUME NEW p \in Admins, Abort(p) PROVE SessionsOK'
  BY <1>7 DEF Abort, Done, SessionsOK, TypeOK
<1> QED
  BY <1>1, <1>2, <1>4, <1>5, <1>6, <1>7 DEF Next, CreateManifest, ActivateManifest,
     DeactivateManifest, UpdateManifestTools, CreateNextVersion

\* A row k is added to a table w in which no row is active that was not, and the others
\* in its scope, if it is active, are inactive.
LEMMA AddKeepsSingle ==
    ASSUME TypeOK, SingleActive, NEW w, NEW x \in Row, NEW replaced,
           Len(manifests') = Len(manifests) + 1,
           \A i \in 1..Len(manifests) :
              /\ manifests'[i] = w[i] /\ w[i].scope = manifests[i].scope
              /\ w[i].active => manifests[i].active
              /\ (x.active /\ i \in replaced) => ~w[i].active,
           manifests'[Len(manifests) + 1] = x,
           loose' = IF x.active /\ ActiveIn(x.scope) \ replaced # {} THEN loose \union {x.scope}
                    ELSE loose
    PROVE  SingleActive'
<1> SUFFICES ASSUME NEW s \in Scopes \ loose', NEW i \in ActiveIn(s)', NEW j \in ActiveIn(s)'
             PROVE  i = j
  BY DEF SingleActive
<1> DEFINE n == Len(manifests) + 1
<1>1. Len(manifests) \in Nat
  BY Typed
<1>2. \A k \in ActiveIn(s)' :
         /\ k \in 1..Len(manifests) \/ k = n
         /\ k = n => x.active /\ x.scope = s
         /\ k \in 1..Len(manifests) => k \in ActiveIn(s) /\ (x.active => k \notin replaced)
  BY <1>1 DEF ActiveIn
<1>3. s \in Scopes \ loose /\ (s = x.scope => ~(x.active /\ ActiveIn(x.scope) \ replaced # {}))
  OBVIOUS
<1>4. (i = n \/ j = n) => i = n /\ j = n
  BY <1>2, <1>3
<1> QED
  BY <1>2, <1>3, <1>4 DEF SingleActive

LEMMA CreateKeepsSingle ==
    ASSUME TypeOK, SessionsOK, SingleActive, NEW p \in Admins, CreateManifest(p)
    PROVE  SingleActive'
<1>1. /\ session[p].seen \in Row /\ Len(manifests') = Len(manifests) + 1
      /\ \A i \in 1..Len(manifests) : manifests'[i] = manifests[i]
      /\ manifests'[Len(manifests) + 1] = session[p].seen
      /\ session[p].seen.active = session[p].activate
  BY CreateIs DEF SessionsOK
<1>2. loose' = IF session[p].seen.active /\ ActiveIn(session[p].seen.scope) \ {} # {}
               THEN loose \union {session[p].seen.scope} ELSE loose
  BY <1>1 DEF CreateManifest, Loosen
<1> DEFINE x == session[p].seen
<1> HIDE DEF x
<1> DEFINE w == manifests
           replaced == {}
<1> HIDE DEF w, replaced
<1>3. \A i \in 1..Len(manifests) :
         /\ manifests'[i] = w[i] /\ w[i].scope = manifests[i].scope
         /\ w[i].active => manifests[i].active
         /\ (x.active /\ i \in replaced) => ~w[i].active
  BY <1>1 DEF w, replaced
<1>4. /\ x \in Row /\ manifests'[Len(manifests) + 1] = x
      /\ Len(manifests') = Len(manifests) + 1
      /\ loose' = IF x.active /\ ActiveIn(x.scope) \ replaced # {}
                  THEN loose \union {x.scope} ELSE loose
  BY <1>1, <1>2 DEF x, replaced
<1> QED
  BY <1>3, <1>4, AddKeepsSingle

LEMMA BumpKeepsSingle ==
    ASSUME TypeOK, SingleActive, NEW p \in Admins, CreateNextVersion(p)
    PROVE  SingleActive'
<1> DEFINE c == session[p]
           replaced == IF c.seen.active THEN {c.id} ELSE {}
<1>1. c # Done /\ c.op = "bump" /\ c \in Command /\ c.id \in 1..Len(manifests)
  BY LoadedRow DEF CreateNextVersion, End, Done
<1>2. PICK w : /\ WriteOK(w, p, Cleared(p), c.tools)
               /\ Len(manifests') = Len(manifests) + 1
               /\ \A i \in 1..Len(manifests) : manifests'[i] = w[i]
               /\ manifests'[Len(manifests) + 1] = Version(p)
  BY BumpIs
<1>3. Version(p) \in Row /\ Version(p).scope = c.seen.scope /\ Version(p).active = c.activate
  BY <1>1, VersionIs
<1>4. ASSUME NEW i \in 1..Len(manifests)
      PROVE  /\ w[i].scope = manifests[i].scope
             /\ w[i].active => manifests[i].active
             /\ (c.activate /\ i \in replaced) => ~w[i].active
  BY <1>1, <1>2 DEF WriteOK, Flushed, Cleared, Command, Row
<1>5. loose' = IF Version(p).active /\ ActiveIn(Version(p).scope) \ replaced # {}
               THEN loose \union {Version(p).scope} ELSE loose
  BY <1>3 DEF CreateNextVersion, Loosen
<1> DEFINE x == Version(p)
<1> HIDE DEF x, replaced
<1>6. \A i \in 1..Len(manifests) :
         /\ manifests'[i] = w[i] /\ w[i].scope = manifests[i].scope
         /\ w[i].active => manifests[i].active
         /\ (x.active /\ i \in replaced) => ~w[i].active
  BY <1>2, <1>3, <1>4 DEF x
<1>7. /\ x \in Row /\ manifests'[Len(manifests) + 1] = x
      /\ Len(manifests') = Len(manifests) + 1
      /\ loose' = IF x.active /\ ActiveIn(x.scope) \ replaced # {}
                  THEN loose \union {x.scope} ELSE loose
  BY <1>2, <1>3, <1>5 DEF x
<1> QED
  BY <1>6, <1>7, AddKeepsSingle

-----------------------------------------------------------------------------
(* The invariant holds                                                     *)

IInv == TypeOK /\ SessionsOK /\ SingleActive

LEMMA InitIInv == Init => IInv
<1> SUFFICES ASSUME Init PROVE IInv
  OBVIOUS
<1>1. manifests \in Seq(Row) /\ Len(manifests) = 0
  BY EmptySeq DEF Init
<1> QED
  BY <1>1 DEF Init, IInv, TypeOK, SessionsOK, SingleActive, ActiveIn, Done

LEMMA NextIInv == IInv /\ [Next]_vars => IInv'
<1> SUFFICES ASSUME TypeOK, SessionsOK, SingleActive, [Next]_vars PROVE IInv'
  BY DEF IInv
<1>1. TypeOK' /\ SessionsOK'
  BY NextTyped, NextSessions
<1>a. ASSUME UNCHANGED <<manifests, loose>> PROVE SingleActive'
  <2>1. \A s : ActiveIn(s)' = ActiveIn(s)
    BY <1>a DEF ActiveIn
  <2> QED
    BY <1>a, <2>1 DEF SingleActive
<1>2. ASSUME UNCHANGED vars PROVE SingleActive'
  BY <1>a, <1>2 DEF vars
<1>3. ASSUME NEW p \in Admins, CreateList(p) \/ Load(p) PROVE SingleActive'
  BY <1>a, <1>3 DEF CreateList, Load, Begin
<1>b. ASSUME NEW p \in Admins, UpdateSiblings(p) \/ Abort(p) PROVE SingleActive'
  BY <1>a, <1>b DEF UpdateSiblings, Abort
<1>4. ASSUME NEW p \in Admins, ActivateManifest(p) PROVE SingleActive'
  BY <1>4, ActivateIsInPlace, InPlaceKeepsSingle DEF ActivateManifest
<1>5. ASSUME NEW p \in Admins, DeactivateManifest(p) PROVE SingleActive'
  <2>1. session[p].upTo = 0
    BY <1>5 DEF DeactivateManifest, End, SessionsOK
  <2> QED
    BY <1>5, <2>1, DeactivateIsInPlace, InPlaceKeepsSingle DEF DeactivateManifest
<1>6. ASSUME NEW p \in Admins, UpdateManifestTools(p) PROVE SingleActive'
  <2>1. ~session[p].activate => session[p].upTo = 0
    BY <1>6 DEF UpdateManifestTools, End, SessionsOK
  <2>2. /\ (session[p].activate \/ session[p].seen.active) =>
              session[p].upTo # 0 \/ session[p].seen.active
        /\ IF session[p].upTo = 0 THEN loose' = loose ELSE Settle(p)
    BY <1>6, <2>1 DEF UpdateManifestTools
  <2> QED
    BY <1>6, <2>2, UpdateIsInPlace, InPlaceKeepsSingle
<1>7. ASSUME NEW p \in Admins, CreateManifest(p) PROVE SingleActive'
  BY <1>7, CreateKeepsSingle
<1>8. ASSUME NEW p \in Admins, CreateNextVersion(p) PROVE SingleActive'
  BY <1>8, BumpKeepsSingle
<1>9. SingleActive'
  BY <1>2, <1>3, <1>b, <1>4, <1>5, <1>6, <1>7, <1>8 DEF Next
<1> QED
  BY <1>1, <1>9 DEF IInv

LEMMA Inductive == Spec => []IInv
BY InitIInv, NextIInv, PTL DEF Spec

\* Rows and commands have their shape, and a command is about a row there is.
THEOREM TypeCorrect == Spec => []TypeOK
<1>1. IInv => TypeOK
  BY DEF IInv
<1> QED
  BY <1>1, Inductive, PTL

\* However many commands overlap, on however stale a row, activate_manifest and
\* create_next_version leave one manifest active, until one is added active beside it, or
\* is while an activation is between its UPDATE and its commit.
THEOREM OneManifestActive == Spec => []SingleActive
<1>1. IInv => SingleActive
  BY DEF IInv
<1> QED
  BY <1>1, Inductive, PTL

-----------------------------------------------------------------------------
(* The register                                                            *)

\* What the register sees of table m.
EntryAt(m, i) == [scope |-> m[i].scope, tools |-> m[i].tools]

Entries(m) == [i \in 1..Len(m) |-> EntryAt(m, i)]

InForce == [s \in Scopes |-> ActiveIn(s)]

LEMMA EntriesTyped ==
    ASSUME NEW m \in Seq(Row)
    PROVE  /\ Entries(m) \in Seq([scope : Scopes, tools : ToolSets])
           /\ Len(Entries(m)) = Len(m)
           /\ \A i \in 1..Len(m) : Entries(m)[i] = EntryAt(m, i)
<1>0. \A i \in 1..Len(m) : m[i] \in Row
  BY ElementOfSeq
<1>1. Entries(m) \in [1..Len(m) -> [scope : Scopes, tools : ToolSets]]
  BY <1>0 DEF Entries, EntryAt, Row
<1> QED
  BY <1>1, LenProperties, FunctionIsSeq DEF Entries

\* A commit in place changes the tools of one entry at most.
LEMMA EntriesInPlace ==
    ASSUME NEW m \in Seq(Row), NEW n \in Seq(Row), Len(n) = Len(m),
           NEW k \in 1..Len(m), NEW tools \in ToolSets,
           \A i \in 1..Len(m) : n[i].scope = m[i].scope,
           n[k].tools = tools,
           \A i \in 1..Len(m) : i # k => n[i].tools = m[i].tools
    PROVE  Entries(n) = [Entries(m) EXCEPT ![k].tools = tools]
<1>1. \A i \in 1..Len(m) : EntryAt(n, i) = IF i = k THEN [EntryAt(m, i) EXCEPT !.tools = tools]
                                         ELSE EntryAt(m, i)
  BY DEF EntryAt
<1> QED
  BY <1>1 DEF Entries

\* An entry is given the tools it has.
LEMMA EntriesKept ==
    ASSUME NEW m \in Seq(Row), NEW k \in 1..Len(m), NEW tools, m[k].tools = tools
    PROVE  [Entries(m) EXCEPT ![k].tools = tools] = Entries(m)
<1> DEFINE e == Entries(m)
<1>1. e \in [1..Len(m) -> [scope : Scopes, tools : ToolSets]] /\ e[k].tools = tools
  <2>1. \A i \in 1..Len(m) : m[i] \in Row
    BY ElementOfSeq
  <2> QED
    BY <2>1 DEF Entries, EntryAt, Row
<1> HIDE DEF e
<1>2. [e[k] EXCEPT !.tools = tools] = e[k]
  BY <1>1
<1>3. [e EXCEPT ![k].tools = tools] = e
  BY <1>1, <1>2
<1> QED
  BY <1>3 DEF e

LEMMA EntriesAppend ==
    ASSUME NEW m \in Seq(Row), NEW n \in Seq(Row), Len(n) = Len(m) + 1,
           NEW e \in [scope : Scopes, tools : ToolSets],
           \A i \in 1..Len(m) : EntryAt(n, i) = EntryAt(m, i),
           EntryAt(n, Len(m) + 1) = e
    PROVE  Entries(n) = Append(Entries(m), e)
<1> DEFINE T == [scope : Scopes, tools : ToolSets]
           b == Entries(n)
           a == Append(Entries(m), e)
<1>1. /\ b \in Seq(T) /\ Len(b) = Len(m) + 1
      /\ \A i \in 1..(Len(m) + 1) : b[i] = EntryAt(n, i)
  BY EntriesTyped
<1>2. /\ a \in Seq(T) /\ Len(a) = Len(m) + 1
      /\ \A i \in 1..Len(m) : a[i] = EntryAt(m, i)
      /\ a[Len(m) + 1] = e
  <2> DEFINE c == Entries(m)
  <2>1. c \in Seq(T) /\ Len(c) = Len(m) /\ \A i \in 1..Len(m) : c[i] = EntryAt(m, i)
    BY EntriesTyped
  <2> HIDE DEF c, T
  <2>2. e \in T
    BY DEF T
  <2>3. /\ Append(c, e) \in Seq(T) /\ Len(Append(c, e)) = Len(m) + 1
        /\ \A i \in 1..Len(m) : Append(c, e)[i] = c[i]
        /\ Append(c, e)[Len(m) + 1] = e
    BY <2>1, <2>2, AppendProperties
  <2> QED
    BY <2>1, <2>3 DEF c
<1> HIDE DEF a, b, T
<1>3. \A i \in 1..Len(b) : b[i] = a[i]
  BY <1>1, <1>2, LenProperties
<1>4. b = a
  BY <1>1, <1>2, <1>3, SeqEqual
<1> QED
  BY <1>4 DEF a, b

LEMMA RegisterIs ==
    Register!vars = <<Entries(manifests), InForce>>
BY DEF Register!vars, Entries, EntryAt, InForce

\* An in-place commit on a current row k of scope s does to the register what was
\* commanded.
InPlaceEffect(k, s, exclusive, active, tools) ==
    /\ k \in 1..Len(manifests) /\ s \in Scopes
    /\ Entries(manifests') = [Entries(manifests) EXCEPT ![k].tools = tools]
    /\ InForce' = [InForce EXCEPT ![s] = IF exclusive THEN {k}
                                         ELSE IF active THEN @ \union {k} ELSE @ \ {k}]

\* No row of the scope is newer than the UPDATE: it has found them all.
UpToDate(p) ==
    /\ session[p].seen = manifests[session[p].id]
    /\ session[p].upTo # 0 =>
          \A i \in 1..Len(manifests) :
              manifests[i].scope = session[p].seen.scope => i <= session[p].upTo

LEMMA InPlaceOnRegister ==
    ASSUME TypeOK, TypeOK', NEW p \in Admins,
           NEW exclusive \in BOOLEAN, exclusive <=> session[p].upTo # 0,
           NEW active, NEW tools, InPlace(p, active, tools),
           exclusive => active,
           NEW k, k = session[p].id, NEW s, s = manifests[k].scope,
           UpToDate(p)
    PROVE  InPlaceEffect(k, s, exclusive, active, tools)
<1>0. session[p].seen = manifests[k]
  BY DEF UpToDate
<1>1. WriteOK(manifests', p, active, tools)
      /\ exclusive \in BOOLEAN /\ active \in BOOLEAN /\ tools \in ToolSets
  BY InPlaceWrites DEF InPlace
<1>2. k \in 1..Len(manifests) /\ manifests[k] \in Row /\ s \in Scopes
      /\ Len(manifests') = Len(manifests) /\ session[p].upTo \in Nat
  BY <1>1, InPlaceWrites, LoadedRow, Typed DEF WriteOK, Row, Command
<1>s. \A i \in 1..Len(manifests) :
         i # k => (i \in Siblings(p) <=> exclusive /\ manifests[i].scope = s)
  BY <1>0, <1>2 DEF UpToDate, Siblings
<1>3. /\ \A i \in 1..Len(manifests) :
            /\ manifests'[i].scope = manifests[i].scope
            /\ i # k => manifests'[i].tools = manifests[i].tools
            /\ (i # k /\ exclusive /\ manifests[i].scope = s) => manifests'[i].active = FALSE
            /\ (i # k /\ ~(exclusive /\ manifests[i].scope = s)) =>
                  manifests'[i].active = manifests[i].active
      /\ manifests'[k].tools = tools /\ manifests'[k].active = active
  BY <1>0, <1>1, <1>2, <1>s DEF WriteOK, Flushed
<1>a. /\ s = manifests[k].scope /\ k \in 1..Len(manifests)
      /\ exclusive \in BOOLEAN /\ active \in BOOLEAN /\ tools \in ToolSets
  BY <1>1, <1>2
<1>4. Entries(manifests') = [Entries(manifests) EXCEPT ![k].tools = tools]
  <2> DEFINE n == manifests'
  <2>1. /\ manifests \in Seq(Row) /\ n \in Seq(Row) /\ Len(n) = Len(manifests)
        /\ \A i \in 1..Len(manifests) : n[i].scope = manifests[i].scope
        /\ n[k].tools = tools
        /\ \A i \in 1..Len(manifests) : i # k => n[i].tools = manifests[i].tools
    BY <1>2, <1>3 DEF TypeOK
  <2> HIDE DEF n
  <2>2. Entries(n) = [Entries(manifests) EXCEPT ![k].tools = tools]
    BY <1>a, <2>1, EntriesInPlace, SMTT(30)
  <2> QED
    BY <2>2 DEF n
<1>b. \A t, i : i \in ActiveIn(t)' <=>
         i \in 1..Len(manifests) /\ manifests[i].scope = t /\ manifests'[i].active
  BY <1>2, <1>3 DEF ActiveIn
<1>c. \A t, i : i \in ActiveIn(t) <=>
         i \in 1..Len(manifests) /\ manifests[i].scope = t /\ manifests[i].active
  BY DEF ActiveIn
<1>d. \A t, i : i # k => (i \in ActiveIn(t)' <=> i \in ActiveIn(t) /\ ~(exclusive /\ t = s))
  <2> SUFFICES ASSUME NEW t, NEW i, i # k
               PROVE  i \in ActiveIn(t)' <=> i \in ActiveIn(t) /\ ~(exclusive /\ t = s)
    OBVIOUS
  <2>1. CASE i \notin 1..Len(manifests) \/ manifests[i].scope # t
    BY <1>b, <1>c, <2>1
  <2>2. CASE i \in 1..Len(manifests) /\ manifests[i].scope = t /\ exclusive /\ t = s
    BY <1>3, <1>b, <1>c, <2>2
  <2>3. CASE i \in 1..Len(manifests) /\ manifests[i].scope = t /\ ~(exclusive /\ t = s)
    BY <1>3, <1>b, <1>c, <2>3
  <2> QED
    BY <2>1, <2>2, <2>3
<1>e. \A t : k \in ActiveIn(t)' <=> t = s /\ active
  BY <1>3, <1>a, <1>b
<1>5. ActiveIn(s)' = IF exclusive THEN {k}
                     ELSE IF active THEN ActiveIn(s) \union {k} ELSE ActiveIn(s) \ {k}
  <2>1. CASE exclusive
    <3>1. active
      BY <2>1
    <3>2. \A i : i \in ActiveIn(s)' <=> i = k
      BY <1>d, <1>e, <2>1, <3>1
    <3> QED
      BY <2>1, <3>2
  <2>2. CASE ~exclusive /\ active
    <3>1. \A i : i \in ActiveIn(s)' <=> i \in ActiveIn(s) \/ i = k
      BY <1>d, <1>e, <2>2
    <3> QED
      BY <2>2, <3>1
  <2>3. CASE ~exclusive /\ ~active
    <3>1. \A i : i \in ActiveIn(s)' <=> i \in ActiveIn(s) /\ i # k
      BY <1>d, <1>e, <2>3
    <3> QED
      BY <2>3, <3>1
  <2> QED
    BY <2>1, <2>2, <2>3
<1>6. \A t \in Scopes : t # s => ActiveIn(t)' = ActiveIn(t)
  <2> SUFFICES ASSUME NEW t \in Scopes, t # s PROVE ActiveIn(t)' = ActiveIn(t)
    OBVIOUS
  <2>1. \A i : i \in ActiveIn(t)' <=> i \in ActiveIn(t)
    BY <1>a, <1>c, <1>d, <1>e
  <2> QED
    BY <2>1
<1>7. InForce' = [InForce EXCEPT ![s] = IF exclusive THEN {k}
                                        ELSE IF active THEN @ \union {k} ELSE @ \ {k}]
  <2>1. InForce' = [t \in Scopes |-> ActiveIn(t)'] /\ InForce = [t \in Scopes |-> ActiveIn(t)]
    BY DEF InForce
  <2>2. CASE exclusive
    BY <1>2, <1>5, <1>6, <2>1, <2>2
  <2>3. CASE ~exclusive /\ active
    BY <1>2, <1>5, <1>6, <2>1, <2>3
  <2>4. CASE ~exclusive /\ ~active
    BY <1>2, <1>5, <1>6, <2>1, <2>4
  <2> QED
    BY <2>2, <2>3, <2>4
<1> QED
  BY <1>2, <1>4, <1>7 DEF InPlaceEffect

\* A row x is added, and row k is no longer active if it is.
AddEffect(x, k) ==
    /\ Entries(manifests') = Append(Entries(manifests), [scope |-> x.scope, tools |-> x.tools])
    /\ InForce' = IF x.active
                  THEN [InForce EXCEPT ![x.scope] = (@ \ {k}) \union {Len(manifests) + 1}]
                  ELSE InForce

LEMMA AddOnRegister ==
    ASSUME TypeOK, TypeOK', NEW x \in Row,
           Len(manifests') = Len(manifests) + 1,
           \A i \in 1..Len(manifests) : /\ manifests'[i].scope = manifests[i].scope
                                        /\ manifests'[i].tools = manifests[i].tools,
           manifests'[Len(manifests) + 1] = x,
           NEW k,
           \A i \in 1..Len(manifests) :
              /\ (i = k /\ x.active) => ~manifests'[i].active
              /\ ~(i = k /\ x.active) => manifests'[i].active = manifests[i].active,
           k \in 1..Len(manifests) => manifests[k].scope = x.scope
    PROVE  AddEffect(x, k)
<1> DEFINE n == manifests'
           e == [scope |-> x.scope, tools |-> x.tools]
<1>1. /\ manifests \in Seq(Row) /\ n \in Seq(Row) /\ Len(manifests) \in Nat
      /\ e \in [scope : Scopes, tools : ToolSets] /\ x.scope \in Scopes
      /\ x.active \in BOOLEAN
  BY Typed DEF TypeOK, Row
<1>2. \A i \in 1..Len(manifests) : EntryAt(n, i) = EntryAt(manifests, i)
  BY DEF EntryAt
<1>3. EntryAt(n, Len(manifests) + 1) = e
  BY DEF EntryAt
<1>4. Entries(n) = Append(Entries(manifests), e)
  <2> HIDE DEF n, e
  <2> QED
    BY <1>1, <1>2, <1>3, EntriesAppend DEF n
<1>5. ASSUME NEW t, NEW i
      PROVE  i \in ActiveIn(t)' <=>
                \/ i \in ActiveIn(t) /\ ~(i = k /\ x.active)
                \/ i = Len(manifests) + 1 /\ t = x.scope /\ x.active
  <2>1. CASE i \in 1..Len(manifests)
    <3>1. CASE i = k /\ x.active
      BY <1>1, <2>1, <3>1 DEF ActiveIn
    <3>2. CASE ~(i = k /\ x.active)
      BY <1>1, <2>1, <3>2 DEF ActiveIn
    <3> QED
      BY <3>1, <3>2
  <2>2. CASE i = Len(manifests) + 1
    BY <1>1, <2>2 DEF ActiveIn
  <2>3. CASE i \notin 1..(Len(manifests) + 1)
    BY <1>1, <2>3 DEF ActiveIn
  <2> QED
    BY <1>1, <2>1, <2>2, <2>3
<1>6. InForce' = [t \in Scopes |-> ActiveIn(t)'] /\ InForce = [t \in Scopes |-> ActiveIn(t)]
  BY DEF InForce
<1>7. CASE x.active
  <2>1. ActiveIn(x.scope)' = (ActiveIn(x.scope) \ {k}) \union {Len(manifests) + 1}
    BY <1>5, <1>7
  <2>2. \A t \in Scopes : t # x.scope => ActiveIn(t)' = ActiveIn(t)
    <3> SUFFICES ASSUME NEW t \in Scopes, t # x.scope PROVE ActiveIn(t)' = ActiveIn(t)
      OBVIOUS
    <3>1. k \notin ActiveIn(t)
      BY DEF ActiveIn
    <3> QED
      BY <1>5, <3>1
  <2> QED
    BY <1>1, <1>4, <1>6, <1>7, <2>1, <2>2 DEF AddEffect
<1>8. CASE ~x.active
  <2>1. \A t \in Scopes : ActiveIn(t)' = ActiveIn(t)
    <3> SUFFICES ASSUME NEW t \in Scopes PROVE ActiveIn(t)' = ActiveIn(t)
      OBVIOUS
    <3>1. \A i : i \in ActiveIn(t)' <=> i \in ActiveIn(t)
      BY <1>5, <1>8
    <3> QED
      BY <3>1
  <2> QED
    BY <1>4, <1>6, <1>8, <2>1 DEF AddEffect
<1> QED
  BY <1>1, <1>7, <1>8 DEF AddEffect

\* Every commit on a current row is the step of the register that was commanded.
LEMMA CommitOnRegister ==
    ASSUME IInv, TypeOK', NEW p \in Admins,
           session[p].op \notin {"none", "create"} => UpToDate(p),
           \/ CreateManifest(p) \/ ActivateManifest(p) \/ DeactivateManifest(p)
           \/ UpdateManifestTools(p) \/ CreateNextVersion(p)
    PROVE  Commanded(p) /\ session[p] # Done /\ session'[p] = Done
<1> DEFINE k == session[p].id
           s == manifests[k].scope
<1>0. TypeOK /\ SessionsOK
  BY DEF IInv
<1>1. session[p] # Done /\ session'[p] = Done
  <2>1. PICK op \in {"create", "activate", "deactivate", "update", "bump"} : End(p, op)
    BY DEF CreateManifest, ActivateManifest, DeactivateManifest, UpdateManifestTools,
       CreateNextVersion
  <2> QED
    BY <1>0, <2>1 DEF End, Done, TypeOK
<1>a. /\ k \in 1..Len(manifests) => manifests[k] \in Row /\ Entries(manifests)[k] = EntryAt(manifests, k)
                                    /\ (k \in InForce[s] <=> manifests[k].active)
      /\ Entries(manifests) \in Seq([scope : Scopes, tools : ToolSets])
      /\ Len(Entries(manifests)) = Len(manifests)
  BY <1>0, Typed, EntriesTyped DEF InForce, ActiveIn, Row
<1>b. /\ Entries(manifests) = [i \in 1..Len(manifests) |->
                        [scope |-> manifests[i].scope, tools |-> manifests[i].tools]]
      /\ Entries(manifests') = [i \in 1..Len(manifests') |->
                        [scope |-> manifests'[i].scope, tools |-> manifests'[i].tools]]
  BY DEF Entries, EntryAt
<1>2. CASE ActivateManifest(p)
  <2>1. /\ session[p].op = "activate" /\ session[p].seen = manifests[k]
        /\ session[p].tools = manifests[k].tools /\ UpToDate(p) /\ session[p].upTo # 0
    BY <1>0, <1>2 DEF ActivateManifest, End, SessionsOK, UpToDate
  <2>2. /\ k \in 1..Len(manifests) /\ s \in Scopes
        /\ Entries(manifests') = [Entries(manifests) EXCEPT ![k].tools = session[p].tools]
        /\ InForce' = [InForce EXCEPT ![s] = {k}]
    <3> DEFINE exclusive == TRUE
               active == TRUE
               t == session[p].tools
    <3>1. /\ InPlace(p, active, t) /\ (exclusive => active) /\ exclusive \in BOOLEAN
          /\ exclusive <=> session[p].upTo # 0
      BY <1>0, <1>2, <2>1, ActivateIsInPlace
    <3> HIDE DEF exclusive, active, t
    <3>2. InPlaceEffect(k, s, exclusive, active, t)
      BY <1>0, <2>1, <3>1, InPlaceOnRegister
    <3> QED
      BY <3>2 DEF InPlaceEffect, exclusive, active, t
  <2>3. Entries(manifests') = Entries(manifests) /\ Entries(manifests)[k].scope = s
    <3>1. Entries(manifests)[k].scope = s /\ Entries(manifests)[k].tools = session[p].tools
      BY <1>a, <2>1, <2>2 DEF EntryAt
    <3>2. [Entries(manifests) EXCEPT ![k].tools = session[p].tools] = Entries(manifests)
      BY <1>0, <2>1, <2>2, EntriesKept DEF TypeOK
    <3> QED
      BY <2>2, <3>1, <3>2
  <2>4. Register!Activate(k)
    BY <1>b, <2>2, <2>3 DEF Register!Activate, InForce
  <2> QED
    BY <1>1, <2>1, <2>4 DEF Commanded
<1>3. CASE DeactivateManifest(p)
  <2>1. /\ session[p].op = "deactivate" /\ session[p].seen = manifests[k]
        /\ session[p].tools = manifests[k].tools /\ UpToDate(p) /\ session[p].upTo = 0
    BY <1>0, <1>3 DEF DeactivateManifest, End, SessionsOK, UpToDate
  <2>2. /\ k \in 1..Len(manifests) /\ s \in Scopes
        /\ Entries(manifests') = [Entries(manifests) EXCEPT ![k].tools = session[p].tools]
        /\ InForce' = [InForce EXCEPT ![s] = @ \ {k}]
    <3> DEFINE exclusive == FALSE
               active == FALSE
               t == session[p].tools
    <3>1. /\ InPlace(p, active, t) /\ (exclusive => active) /\ exclusive \in BOOLEAN
          /\ exclusive <=> session[p].upTo # 0
      BY <1>0, <1>3, <2>1, DeactivateIsInPlace
    <3> HIDE DEF exclusive, active, t
    <3>2. InPlaceEffect(k, s, exclusive, active, t)
      BY <1>0, <2>1, <3>1, InPlaceOnRegister
    <3> QED
      BY <3>2 DEF InPlaceEffect, exclusive, active, t
  <2>3. Entries(manifests') = Entries(manifests) /\ Entries(manifests)[k].scope = s
    <3>1. Entries(manifests)[k].scope = s /\ Entries(manifests)[k].tools = session[p].tools
      BY <1>a, <2>1, <2>2 DEF EntryAt
    <3>2. [Entries(manifests) EXCEPT ![k].tools = session[p].tools] = Entries(manifests)
      BY <1>0, <2>1, <2>2, EntriesKept DEF TypeOK
    <3> QED
      BY <2>2, <3>1, <3>2
  <2>4. Register!Deactivate(k)
    BY <1>b, <2>2, <2>3 DEF Register!Deactivate, InForce
  <2> QED
    BY <1>1, <2>1, <2>4 DEF Commanded
<1>4. CASE UpdateManifestTools(p)
  <2> DEFINE tools == session[p].tools
             activate == session[p].activate
  <2>a. session[p].activate \in BOOLEAN /\ (session[p].activate <=> session[p].upTo # 0)
    BY <1>0, <1>1, <1>4, LoadedRow DEF UpdateManifestTools, End, SessionsOK, Command
  <2>1. /\ session[p].op = "update" /\ session[p].seen = manifests[k] /\ UpToDate(p)
    BY <1>0, <1>1, <1>4, LoadedRow DEF UpdateManifestTools, End, UpToDate, SessionsOK, Command
  <2>2. /\ k \in 1..Len(manifests) /\ s \in Scopes
        /\ Entries(manifests') = [Entries(manifests) EXCEPT ![k].tools = tools]
        /\ InForce' = [InForce EXCEPT ![s] =
                          IF activate THEN {k}
                          ELSE IF activate \/ manifests[k].active THEN @ \union {k} ELSE @ \ {k}]
    <3> DEFINE exclusive == session[p].activate
               active == session[p].activate \/ session[p].seen.active
               t == session[p].tools
    <3>1. /\ InPlace(p, active, t) /\ (exclusive => active) /\ exclusive \in BOOLEAN
          /\ exclusive <=> session[p].upTo # 0
      <4>1. InPlace(p, active, t)
        BY <1>0, <1>4, UpdateIsInPlace
      <4>2. exclusive => active
        OBVIOUS
      <4>3. exclusive \in BOOLEAN /\ (exclusive <=> session[p].upTo # 0)
        BY <2>a, Zenon
      <4> QED
        BY <4>1, <4>2, <4>3, Zenon
    <3> HIDE DEF exclusive, active, t
    <3>2. InPlaceEffect(k, s, exclusive, active, t)
      BY <1>0, <2>1, <3>1, InPlaceOnRegister
    <3> QED
      BY <2>1, <3>2 DEF InPlaceEffect, exclusive, active, t
  <2>3. Entries(manifests)[k].scope = s /\ InForce[s] = ActiveIn(s)
    BY <1>a, <2>2 DEF EntryAt, InForce
  <2>4. InForce' = IF activate THEN [InForce EXCEPT ![s] = {k}] ELSE InForce
    <3>1. CASE activate
      BY <2>2, <3>1
    <3>2. CASE ~activate /\ manifests[k].active
      <4>1. InForce[s] \union {k} = InForce[s]
        BY <1>a, <2>2, <3>2
      <4> QED
        BY <2>2, <3>2, <4>1 DEF InForce
    <3>3. CASE ~activate /\ ~manifests[k].active
      <4>1. InForce[s] \ {k} = InForce[s]
        BY <1>a, <2>2, <3>3
      <4> QED
        BY <2>2, <3>3, <4>1 DEF InForce
    <3> QED
      BY <3>1, <3>2, <3>3
  <2>5. Register!UpdateTools(k, tools, activate)
    BY <1>b, <2>2, <2>3, <2>4 DEF Register!UpdateTools, InForce
  <2> QED
    BY <1>1, <2>1, <2>5 DEF Commanded
<1>5. CASE CreateManifest(p)
  <2> DEFINE x == session[p].seen
  <2>1. /\ session[p].op = "create" /\ x \in Row
        /\ x.active = session[p].activate /\ x.tools = session[p].tools
        /\ Len(manifests') = Len(manifests) + 1
        /\ \A i \in 1..Len(manifests) : manifests'[i] = manifests[i]
        /\ manifests'[Len(manifests) + 1] = x
    BY <1>0, <1>5, CreateIs DEF SessionsOK
  <2>2. /\ 0 \notin 1..Len(manifests) /\ 0 \notin ActiveIn(x.scope) /\ x.scope \in Scopes
        /\ InForce[x.scope] \ {0} = InForce[x.scope]
    BY <1>0, <2>1, Typed DEF ActiveIn, InForce, Row
  <2>3. /\ Entries(manifests') =
              Append(Entries(manifests), [scope |-> x.scope, tools |-> x.tools])
        /\ InForce' = IF x.active
                      THEN [InForce EXCEPT ![x.scope] = (@ \ {0}) \union {Len(manifests) + 1}]
                      ELSE InForce
    <3> DEFINE z == 0
    <3>1. ASSUME NEW i \in 1..Len(manifests)
          PROVE  /\ manifests'[i].scope = manifests[i].scope
                 /\ manifests'[i].tools = manifests[i].tools
                 /\ (i = z /\ x.active) => ~manifests'[i].active
                 /\ ~(i = z /\ x.active) => manifests'[i].active = manifests[i].active
      BY <2>1, <2>2
    <3> HIDE DEF x, z
    <3>2. z \in 1..Len(manifests) => manifests[z].scope = x.scope
      BY <2>2 DEF z
    <3>3. AddEffect(x, z)
      BY <1>0, <2>1, <3>1, <3>2, AddOnRegister
    <3> QED
      BY <3>3 DEF AddEffect, z
  <2>4. Register!Create(x.scope, session[p].tools, session[p].activate)
    BY <1>a, <1>b, <2>1, <2>2, <2>3 DEF Register!Create, InForce
  <2> QED
    BY <1>1, <2>1, <2>4 DEF Commanded
<1>6. CASE CreateNextVersion(p)
  <2> DEFINE x == Version(p)
  <2>1. /\ session[p].op = "bump" /\ session[p].seen = manifests[k]
        /\ session[p].tools = manifests[k].tools /\ Siblings(p) = {}
    BY <1>0, <1>6 DEF CreateNextVersion, End, SessionsOK, UpToDate, Siblings
  <2>2. PICK w : /\ WriteOK(w, p, Cleared(p), session[p].tools)
                 /\ Len(manifests') = Len(manifests) + 1
                 /\ \A i \in 1..Len(manifests) : manifests'[i] = w[i]
                 /\ manifests'[Len(manifests) + 1] = x
    BY <1>0, <1>6, BumpIs
  <2>3. /\ x \in Row /\ x.scope = s /\ x.tools = manifests[k].tools
        /\ x.active = session[p].activate /\ k \in 1..Len(manifests) /\ s \in Scopes
    BY <1>0, <1>1, <2>1, VersionIs, LoadedRow, Typed DEF Row
  <2> HIDE DEF x
  <2>4. ASSUME NEW i \in 1..Len(manifests)
        PROVE  /\ manifests'[i].scope = manifests[i].scope
               /\ manifests'[i].tools = manifests[i].tools
               /\ (i = k /\ x.active) => ~manifests'[i].active
               /\ ~(i = k /\ x.active) => manifests'[i].active = manifests[i].active
    BY <1>0, <2>1, <2>2, <2>3, Typed DEF WriteOK, Flushed, Cleared, Row
  <2>5. /\ Entries(manifests') =
              Append(Entries(manifests), [scope |-> x.scope, tools |-> x.tools])
        /\ InForce' = IF x.active
                      THEN [InForce EXCEPT ![x.scope] = (@ \ {k}) \union {Len(manifests) + 1}]
                      ELSE InForce
    <3>1. k \in 1..Len(manifests) => manifests[k].scope = x.scope
      BY <2>3
    <3> HIDE DEF k
    <3>2. AddEffect(x, k)
      BY <1>0, <2>2, <2>3, <2>4, <3>1, AddOnRegister
    <3> QED
      BY <3>2 DEF AddEffect
  <2>6. Entries(manifests)[k] = [scope |-> x.scope, tools |-> x.tools]
        /\ Entries(manifests)[k].scope = s
    BY <1>a, <2>3 DEF EntryAt
  <2>7. Register!Bump(k, session[p].activate)
    BY <1>a, <1>b, <2>3, <2>5, <2>6 DEF Register!Bump, InForce
  <2> QED
    BY <1>1, <2>1, <2>3, <2>7 DEF Commanded
<1> QED
  BY <1>2, <1>3, <1>4, <1>5, <1>6

Commit(p) ==
    \/ CreateManifest(p) \/ ActivateManifest(p) \/ DeactivateManifest(p)
    \/ UpdateManifestTools(p) \/ CreateNextVersion(p)

LEMMA CommitOrNot ==
    ASSUME [Next]_vars
    PROVE  (\E p \in Admins : Commit(p)) \/ UNCHANGED <<manifests, Register!vars>>
<1>1. ASSUME UNCHANGED manifests PROVE UNCHANGED <<manifests, Register!vars>>
  BY <1>1, RegisterIs DEF Register!vars, ActiveIn
<1>2. ASSUME NEW p \in Admins, CreateList(p) \/ Load(p) \/ UpdateSiblings(p) \/ Abort(p)
      PROVE  UNCHANGED manifests
  BY <1>2 DEF CreateList, Load, Begin, UpdateSiblings, Abort
<1>3. ASSUME UNCHANGED vars PROVE UNCHANGED manifests
  BY <1>3 DEF vars
<1> QED
  BY <1>1, <1>2, <1>3 DEF Next, Commit

\* A commit made while no command works on an outdated row, and no UPDATE sent has missed
\* a row of its scope, is the step of the register that was commanded, whatever else goes
\* on; only commits change the register.
THEOREM CurrentCommitsImplement == Spec => ImplementsWhileCurrent
<1>1. ASSUME IInv, [Next]_vars
      PROVE  [Current => \/ UNCHANGED <<manifests, Register!vars>>
                         \/ \E p \in Admins : /\ session[p] # Done /\ session'[p] = Done
                                              /\ Commanded(p)]_vars
  <2> SUFFICES ASSUME Current
               PROVE  \/ UNCHANGED <<manifests, Register!vars>>
                      \/ \E p \in Admins : /\ session[p] # Done /\ session'[p] = Done
                                           /\ Commanded(p)
    OBVIOUS
  <2>1. TypeOK'
    BY <1>1, NextTyped DEF IInv
  <2>2. ASSUME NEW p \in Admins, Commit(p)
        PROVE  session[p] # Done /\ session'[p] = Done /\ Commanded(p)
    BY <1>1, <2>1, <2>2, CommitOnRegister DEF Commit, Current, UpToDate
  <2> QED
    BY <1>1, <2>2, CommitOrNot
<1> QED
  BY <1>1, Inductive, PTL DEF Spec, ImplementsWhileCurrent

\* One administrator at a time never works on an outdated row ...
LEMMA AloneIsCurrent ==
    ASSUME NEW a, Admins = {a}
    PROVE  IInv /\ Current /\ [Next]_vars => Current'
<1> SUFFICES ASSUME IInv, Current, [Next]_vars PROVE Current'
  OBVIOUS
<1>1. CASE UNCHANGED vars
  BY <1>1 DEF vars, Current
<1>2. CASE CreateList(a)
  BY <1>2 DEF IInv, TypeOK, CreateList, Begin, Current
<1>3. CASE Load(a)
  <2>1. PICK i \in 1..Len(manifests) : \E tools, activate, op :
           Begin(a, [op |-> op, id |-> i, seen |-> manifests[i], tools |-> tools,
                     activate |-> activate, upTo |-> 0])
    BY <1>3 DEF Load
  <2> QED
    BY <2>1 DEF IInv, TypeOK, Begin, Current
<1>4. CASE Commit(a)
  <2>1. PICK op : End(a, op)
    BY <1>4 DEF Commit, CreateManifest, ActivateManifest, DeactivateManifest,
       UpdateManifestTools, CreateNextVersion
  <2> QED
    BY <2>1 DEF IInv, TypeOK, End, Done, Current
<1>5. CASE Abort(a)
  BY <1>5 DEF IInv, TypeOK, Abort, Done, Current
<1>6. CASE UpdateSiblings(a)
  <2>1. session[a] \in Command /\ Len(manifests) \in Nat
    BY <1>6, LoadedRow, Typed DEF IInv, UpdateSiblings, Done
  <2> DEFINE c == [session[a] EXCEPT !.upTo = Len(manifests)]
  <2>2. c.op = session[a].op /\ c.id = session[a].id /\ c.seen = session[a].seen
        /\ c.upTo = Len(manifests)
    BY <2>1 DEF Command
  <2>3. session' = [session EXCEPT ![a] = c] /\ manifests' = manifests
    BY <1>6 DEF UpdateSiblings
  <2> HIDE DEF c
  <2>4. session'[a] = c
    BY <2>3 DEF IInv, TypeOK
  <2>5. c.op \notin {"none", "create"} => c.seen = manifests[c.id]
    BY <2>2 DEF Current
  <2>6. \A i \in 1..Len(manifests) : i <= c.upTo
    BY <2>1, <2>2
  <2> QED
    BY <2>3, <2>4, <2>5, <2>6 DEF Current
<1> QED
  BY <1>1, <1>2, <1>3, <1>4, <1>5, <1>6 DEF Next, Commit

\* ... so that commands given one after the other implement the register.
THEOREM StoreImplementsRegister ==
    ASSUME NEW a, Admins = {a}
    PROVE  Spec => ImplementsRegister
<1>1. Init => Register!Init /\ Current
  <2> SUFFICES ASSUME Init PROVE Register!Init /\ Current
    OBVIOUS
  <2>1. manifests = <<>> /\ Len(manifests) = 0
    BY EmptySeq DEF Init
  <2>2. [i \in 1..Len(manifests) |->
            [scope |-> manifests[i].scope, tools |-> manifests[i].tools]] = <<>>
    BY <2>1
  <2> QED
    BY <2>1, <2>2 DEF Init, Register!Init, ActiveIn, Current, Done
<1>2. IInv /\ Current /\ [Next]_vars => [Register!Next]_(Register!vars)
  <2> SUFFICES ASSUME IInv, Current, [Next]_vars, Commit(a)
               PROVE  Register!Next
    BY CommitOrNot DEF Commit
  <2>1. TypeOK' /\ TypeOK /\ SessionsOK
    BY NextTyped DEF IInv
  <2>2. Commanded(a) /\ session[a] # Done
    BY <2>1, CommitOnRegister DEF Commit, Current, UpToDate
  <2> DEFINE c == session[a]
             e == [i \in 1..Len(manifests) |->
                      [scope |-> manifests[i].scope, tools |-> manifests[i].tools]]
  <2>3. /\ c \in Command /\ c.seen.scope \in Scopes /\ c.tools \in ToolSets
        /\ c.activate \in BOOLEAN
        /\ c.op # "create" => c.id \in 1..Len(manifests)
    BY <2>1, <2>2, LoadedRow DEF Command, Row
  <2>4. Len(e) = Len(manifests)
    BY <2>1, EntriesTyped, Typed DEF Entries, EntryAt
  <2>5. CASE c.op = "create"
    <3>1. Register!Create(c.seen.scope, c.tools, c.activate)
      BY <2>2, <2>5 DEF Commanded
    <3>2. \E s \in Scopes, tools \in ToolSets, activate \in BOOLEAN :
             Register!Create(s, tools, activate)
      BY <2>3, <3>1 DEF Register!Create
    <3> QED
      BY <3>2 DEF Register!Next
  <2>6. CASE c.op = "activate"
    <3>1. Register!Activate(c.id)
      BY <2>2, <2>6 DEF Commanded
    <3> QED
      BY <2>3, <2>4, <2>6, <3>1 DEF Register!Next
  <2>7. CASE c.op = "deactivate"
    <3>1. Register!Deactivate(c.id)
      BY <2>2, <2>7 DEF Commanded
    <3> QED
      BY <2>3, <2>4, <2>7, <3>1 DEF Register!Next
  <2>8. CASE c.op = "update"
    <3>1. Register!UpdateTools(c.id, c.tools, c.activate)
      BY <2>2, <2>8 DEF Commanded
    <3>2. \E tools \in ToolSets, activate \in BOOLEAN :
             Register!UpdateTools(c.id, tools, activate)
      BY <2>3, <3>1 DEF Register!UpdateTools
    <3>3. c.id \in 1..Len(e)
      BY <2>3, <2>4, <2>8
    <3> QED
      BY <3>2, <3>3 DEF Register!Next
  <2>9. CASE c.op = "bump"
    <3>1. Register!Bump(c.id, c.activate)
      BY <2>2, <2>9 DEF Commanded
    <3>2. \E activate \in BOOLEAN : Register!Bump(c.id, activate)
      BY <2>3, <3>1 DEF Register!Bump
    <3>3. c.id \in 1..Len(e)
      BY <2>3, <2>4, <2>9
    <3> QED
      BY <3>2, <3>3 DEF Register!Next
  <2> QED
    BY <2>3, <2>5, <2>6, <2>7, <2>8, <2>9 DEF Command
<1>3. IInv /\ Current /\ [Next]_vars => Current'
  BY AloneIsCurrent
<1> QED
  BY <1>1, <1>2, <1>3, Inductive, PTL DEF Spec, ImplementsRegister, Register!Spec

-----------------------------------------------------------------------------
(* What a kernel has loaded                                                *)

\* A dictionary: a key has one entry, and so has a place in the order of insertion.
Ordered(E) ==
    /\ IsFiniteSet(E)
    /\ \A e \in E : e.at < Cardinality(E)
    /\ \A e, f \in E : e.at = f.at \/ Key(e.manifest.scope) = Key(f.manifest.scope) => e = f

\* Of files nobody edits since they were listed, the entries are those opened so far.
Fresh(k) ==
    (asOf[k] = edits /\ manager[k].pc # "none") =>
        /\ {e.manifest : e \in manager[k].entries} \subseteq OnDisk
        /\ \A f \in Files : disk[f] \in Manifest =>
              \/ f \in manager[k].todo
              \/ \E e \in manager[k].entries : Key(e.manifest.scope) = Key(disk[f].scope)

ManagerOK(k) ==
    /\ Ordered(manager[k].entries)
    /\ asOf[k] <= edits
    /\ manager[k].pc = "ready" => manager[k].todo = {}
    /\ Fresh(k)

LookupInv == LookupTypeOK /\ \A k \in Kernels : ManagerOK(k)

\* An entry for a key that has none comes last; one for a key that has one takes its
\* place.
LEMMA WithIs ==
    ASSUME NEW E \in SUBSET Entry, Ordered(E), NEW m \in Manifest
    PROVE  \E n \in Entry :
              /\ n.manifest = m
              /\ With(E, m) = (E \ Same(E, m)) \union {n}
              /\ Ordered(With(E, m))
<1>1. Cardinality(E) \in Nat /\ IsFiniteSet(E)
  BY FS_CardinalityType DEF Ordered
<1>2. CASE Same(E, m) = {}
  <2> DEFINE c == Cardinality(E)
             n == [at |-> c, manifest |-> m]
  <2>1. n \in Entry /\ n.at = c /\ n.manifest = m
    BY <1>1 DEF Entry
  <2>2. With(E, m) = E \union {n}
    BY <1>2 DEF With
  <2>3. \A e \in E : e.at < c /\ e.at \in Nat /\ Key(e.manifest.scope) # Key(m.scope)
    BY <1>2 DEF Ordered, Same, Entry
  <2> HIDE DEF n
  <2>4. n \notin E
    BY <2>1, <2>3
  <2>5. IsFiniteSet(E \union {n}) /\ Cardinality(E \union {n}) = c + 1
    BY <1>1, <2>4, FS_AddElement
  <2>6. Ordered(E \union {n})
    <3>1. \A e \in E \union {n} : e.at < c + 1
      BY <1>1, <2>1, <2>3
    <3>2. ASSUME NEW e \in E \union {n}, NEW f \in E \union {n},
                 e.at = f.at \/ Key(e.manifest.scope) = Key(f.manifest.scope)
          PROVE  e = f
      BY <1>1, <2>1, <2>3, <3>2 DEF Ordered
    <3> QED
      BY <2>5, <3>1, <3>2 DEF Ordered
  <2> QED
    BY <1>2, <2>1, <2>2, <2>6
<1>3. CASE Same(E, m) # {}
  <2>1. PICK o \in E : Key(o.manifest.scope) = Key(m.scope)
    BY <1>3 DEF Same
  <2>2. Same(E, m) = {o}
    BY <2>1 DEF Same, Ordered
  <2> DEFINE i == o.at
             n == [at |-> i, manifest |-> m]
             F == E \ {o}
  <2>3. n \in Entry /\ n.at = i /\ n.manifest = m /\ i \in Nat /\ i < Cardinality(E)
    BY DEF Entry, Ordered
  <2>4. With(E, m) = F \union {n}
    <3>1. {e.at : e \in Same(E, m)} = {i}
      BY <2>2
    <3> QED
      BY <1>3, <2>2, <3>1 DEF With
  <2>5. \A e \in F : /\ e \in E /\ e.at < Cardinality(E) /\ e.at # i
                     /\ Key(e.manifest.scope) # Key(m.scope)
    BY <2>1 DEF Ordered
  <2>6. IsFiniteSet(F) /\ Cardinality(F) = Cardinality(E) - 1
    BY <1>1, FS_RemoveElement
  <2> HIDE DEF n, i, F
  <2>7. n \notin F
    BY <2>3, <2>5
  <2>8. IsFiniteSet(F \union {n}) /\ Cardinality(F \union {n}) = Cardinality(E)
    <3>1. IsFiniteSet(F \union {n}) /\ Cardinality(F \union {n}) = Cardinality(F) + 1
      BY <2>6, <2>7, FS_AddElement
    <3> QED
      BY <1>1, <2>6, <3>1
  <2>9. Ordered(F \union {n})
    <3>1. \A e \in F \union {n} : e.at < Cardinality(E)
      BY <2>3, <2>5
    <3>2. ASSUME NEW e \in F \union {n}, NEW f \in F \union {n},
                 e.at = f.at \/ Key(e.manifest.scope) = Key(f.manifest.scope)
          PROVE  e = f
      BY <2>3, <2>5, <3>2 DEF Ordered
    <3> QED
      BY <2>8, <3>1, <3>2 DEF Ordered
  <2> QED
    BY <2>2, <2>3, <2>4, <2>9 DEF F
<1> QED
  BY <1>2, <1>3

\* The steps of one kernel.
LEMMA ManagerStep ==
    ASSUME LookupInv, NEW k \in Kernels, NEW m \in Manager,
           manager' = [manager EXCEPT ![k] = m], UNCHANGED <<disk, edits>>,
           asOf' \in [Kernels -> Nat], \A l \in Kernels \ {k} : asOf'[l] = asOf[l],
           ManagerOK(k)'
    PROVE  LookupInv'
<1>1. LookupTypeOK'
  BY DEF LookupInv, LookupTypeOK
<1>2. ASSUME NEW l \in Kernels \ {k} PROVE ManagerOK(l)'
  <2>1. manager'[l] = manager[l] /\ asOf'[l] = asOf[l] /\ disk' = disk /\ edits' = edits
    BY DEF LookupInv, LookupTypeOK
  <2>2. ManagerOK(l)
    BY DEF LookupInv
  <2> QED
    BY <2>1, <2>2 DEF ManagerOK, Fresh, OnDisk
<1> QED
  BY <1>1, <1>2 DEF LookupInv

LEMMA NothingLoaded == Ordered({})
BY FS_EmptySet DEF Ordered

LEMMA ListStep ==
    ASSUME LookupInv, NEW k \in Kernels, List(k)
    PROVE  LookupInv'
<1> DEFINE m == [pc |-> "loading", entries |-> {}, todo |-> {f \in Files : disk[f] # Absent}]
<1>1. /\ m \in Manager /\ m.pc = "loading" /\ m.entries = {}
      /\ m.todo = {f \in Files : disk[f] # Absent}
      /\ manager' = [manager EXCEPT ![k] = m]
  BY DEF Manager, List
<1> HIDE DEF m
<1>2. manager'[k] = m /\ UNCHANGED <<disk, edits>> /\ asOf' = [asOf EXCEPT ![k] = edits]
      /\ edits \in Nat /\ asOf'[k] = edits
  BY <1>1 DEF List, LookupInv, LookupTypeOK
<1>3. ManagerOK(k)'
  <2>1. Fresh(k)'
    BY <1>1, <1>2, LookupAssumption DEF Fresh
  <2> QED
    BY <1>1, <1>2, <2>1, NothingLoaded DEF ManagerOK
<1>4. asOf' \in [Kernels -> Nat] /\ \A l \in Kernels \ {k} : asOf'[l] = asOf[l]
  BY <1>2 DEF LookupInv, LookupTypeOK
<1> QED
  BY <1>1, <1>2, <1>3, <1>4, ManagerStep

LEMMA LoadFileStep ==
    ASSUME LookupInv, NEW k \in Kernels, LoadFile(k)
    PROVE  LookupInv'
<1>1. PICK f \in manager[k].todo :
         manager' = [manager EXCEPT ![k].todo = @ \ {f},
                                    ![k].entries = IF disk[f] \in {Absent, Broken} THEN @
                                                   ELSE With(@, disk[f])]
  BY DEF LoadFile
<1> DEFINE E == manager[k].entries
           D == IF disk[f] \in {Absent, Broken} THEN E ELSE With(E, disk[f])
           T == manager[k].todo \ {f}
           m == [manager[k] EXCEPT !.todo = T, !.entries = D]
<1>2. /\ manager[k] \in Manager /\ E \in SUBSET Entry /\ ManagerOK(k) /\ f \in Files
      /\ manager[k].pc = "loading"
      /\ disk[f] \in Manifest \/ disk[f] \in {Absent, Broken}
      /\ UNCHANGED <<disk, edits, asOf>>
  BY DEF LookupInv, LookupTypeOK, Manager, LoadFile
<1>3. manager' = [manager EXCEPT ![k] = m]
  BY <1>1
<1>4. /\ D \in SUBSET Entry /\ Ordered(D)
      /\ disk[f] \notin Manifest => D = E
      /\ disk[f] \in Manifest =>
            \E n \in Entry : n.manifest = disk[f] /\ D = (E \ Same(E, disk[f])) \union {n}
  <2>1. CASE disk[f] \in {Absent, Broken}
    BY <1>2, <2>1, LookupAssumption DEF ManagerOK
  <2>2. CASE disk[f] \in Manifest
    <3>1. D = With(E, disk[f]) /\ Ordered(E)
      BY <1>2, <2>2, LookupAssumption DEF ManagerOK
    <3>2. PICK n \in Entry :
             /\ n.manifest = disk[f]
             /\ With(E, disk[f]) = (E \ Same(E, disk[f])) \union {n}
             /\ Ordered(With(E, disk[f]))
      BY <1>2, <2>2, <3>1, WithIs
    <3> QED
      BY <1>2, <2>2, <3>1, <3>2
  <2> QED
    BY <1>2, <2>1, <2>2
<1> HIDE DEF D, T
<1>5. m \in Manager /\ m.pc = "loading" /\ m.todo = T /\ m.entries = D
  BY <1>2, <1>4 DEF Manager, T
<1> HIDE DEF m
<1>6. manager'[k] = m
  BY <1>3 DEF LookupInv, LookupTypeOK
<1>7. Fresh(k)'
  <2> SUFFICES ASSUME asOf[k] = edits
               PROVE  /\ {e.manifest : e \in D} \subseteq OnDisk
                      /\ \A g \in Files : disk[g] \in Manifest =>
                            g \in T \/ \E e \in D : Key(e.manifest.scope) = Key(disk[g].scope)
    BY <1>2, <1>5, <1>6 DEF Fresh, OnDisk
  <2>1. /\ {e.manifest : e \in E} \subseteq OnDisk
        /\ \A g \in Files : disk[g] \in Manifest =>
              g \in T \union {f} \/ \E e \in E : Key(e.manifest.scope) = Key(disk[g].scope)
    BY <1>2 DEF ManagerOK, Fresh, T
  <2>2. CASE disk[f] \notin Manifest
    BY <1>4, <2>1, <2>2
  <2>3. CASE disk[f] \in Manifest
    <3>1. PICK n \in Entry : n.manifest = disk[f] /\ D = (E \ Same(E, disk[f])) \union {n}
      BY <1>4, <2>3
    <3>2. n.manifest \in OnDisk
      BY <1>2, <2>3, <3>1 DEF OnDisk
    <3>3. \A e \in E : e \in D \/ Key(e.manifest.scope) = Key(n.manifest.scope)
      BY <3>1 DEF Same
    <3> QED
      BY <2>1, <3>1, <3>2, <3>3
  <2> QED
    BY <2>2, <2>3
<1>8. ManagerOK(k)'
  BY <1>2, <1>4, <1>5, <1>6, <1>7 DEF ManagerOK
<1>9. asOf' \in [Kernels -> Nat] /\ \A l \in Kernels \ {k} : asOf'[l] = asOf[l]
  BY <1>2 DEF LookupInv, LookupTypeOK
<1> QED
  BY <1>2, <1>3, <1>5, <1>8, <1>9, ManagerStep

\* The directory has been gone through, or the process ends.
LEMMA LoadedStep ==
    ASSUME LookupInv, NEW k \in Kernels, Loaded(k)
    PROVE  LookupInv'
<1> DEFINE m == [manager[k] EXCEPT !.pc = "ready"]
<1>1. /\ m \in Manager /\ m.pc = "ready" /\ m.entries = manager[k].entries
      /\ m.todo = manager[k].todo /\ manager' = [manager EXCEPT ![k] = m]
  BY DEF Manager, Loaded, LookupInv, LookupTypeOK
<1> HIDE DEF m
<1>2. /\ manager'[k] = m /\ manager[k].pc = "loading" /\ manager[k].todo = {}
      /\ UNCHANGED <<disk, edits, asOf>> /\ ManagerOK(k)
      /\ asOf' \in [Kernels -> Nat]
  BY <1>1 DEF Loaded, LookupInv, LookupTypeOK
<1>3. ManagerOK(k)'
  BY <1>1, <1>2 DEF ManagerOK, Fresh, OnDisk
<1> QED
  BY <1>1, <1>2, <1>3, ManagerStep

LEMMA StopStep ==
    ASSUME LookupInv, NEW k \in Kernels, Stop(k)
    PROVE  LookupInv'
<1> DEFINE m == [pc |-> "none", todo |-> {}, entries |-> {}]
<1>1. /\ m \in Manager /\ m.pc = "none" /\ m.entries = {}
      /\ manager' = [manager EXCEPT ![k] = m]
  BY DEF Manager, Stop
<1> HIDE DEF m
<1>2. /\ manager'[k] = m /\ UNCHANGED <<disk, edits, asOf>> /\ ManagerOK(k)
      /\ asOf' \in [Kernels -> Nat]
  BY <1>1 DEF Stop, LookupInv, LookupTypeOK
<1>3. ManagerOK(k)'
  BY <1>1, <1>2, NothingLoaded DEF ManagerOK, Fresh
<1> QED
  BY <1>1, <1>2, <1>3, ManagerStep

\* After an edit no kernel's listing is that of the disk.
LEMMA EditStep ==
    ASSUME LookupInv, NEW f \in Files, NEW content \in Manifest \union {Absent, Broken},
           Edit(f, content)
    PROVE  LookupInv'
<1>1. LookupTypeOK'
  BY DEF Edit, LookupInv, LookupTypeOK
<1>2. ASSUME NEW k \in Kernels PROVE ManagerOK(k)'
  <2>1. /\ asOf[k] \in Nat /\ edits \in Nat /\ asOf[k] <= edits /\ edits' = edits + 1
        /\ UNCHANGED <<manager, asOf>> /\ ManagerOK(k)
    BY DEF Edit, LookupInv, LookupTypeOK, ManagerOK
  <2>2. asOf'[k] # edits' /\ asOf'[k] <= edits'
    BY <2>1
  <2> QED
    BY <2>1, <2>2 DEF ManagerOK, Fresh
<1> QED
  BY <1>1, <1>2 DEF LookupInv

LEMMA InitLookupInv == LookupInit => LookupInv
<1> SUFFICES ASSUME LookupInit PROVE LookupInv
  OBVIOUS
<1>1. LookupTypeOK
  BY DEF LookupInit, LookupTypeOK, Manager
<1>2. ASSUME NEW k \in Kernels PROVE ManagerOK(k)
  <2>1. manager[k].pc = "none" /\ manager[k].entries = {} /\ asOf[k] = 0 /\ edits = 0
    BY DEF LookupInit
  <2> QED
    BY <2>1, NothingLoaded DEF ManagerOK, Fresh
<1> QED
  BY <1>1, <1>2 DEF LookupInv

LEMMA NextLookupInv == LookupInv /\ [LookupNext]_lookupVars => LookupInv'
<1> SUFFICES ASSUME LookupInv, [LookupNext]_lookupVars PROVE LookupInv'
  OBVIOUS
<1>1. CASE UNCHANGED lookupVars
  BY <1>1 DEF lookupVars, LookupInv, LookupTypeOK, ManagerOK, Fresh, OnDisk
<1> QED
  BY <1>1, ListStep, LoadFileStep, LoadedStep, StopStep, EditStep DEF LookupNext

LEMMA LookupInductive == LookupSpec => []LookupInv
BY InitLookupInv, NextLookupInv, PTL DEF LookupSpec

-----------------------------------------------------------------------------
(* Which manifest is found                                                 *)

\* The scopes _find_manifest asks for, one after the other.
LEMMA Asked ==
    ASSUME NEW who \in Scopes
    PROVE  /\ Narrow(who) \in Scopes /\ Wide(who) \in Scopes
           /\ Narrow(who).agent = who.agent /\ Narrow(who).tenant = who.tenant
           /\ Wide(who).agent = who.agent /\ Wide(who).tenant = NULL
BY DEF Scopes, Narrow, Wide

LEMMA FindIs ==
    ASSUME NEW k \in Kernels, NEW who \in Scopes
    PROVE  Find(k, who) = IF Keyed(k, who) # {} THEN Keyed(k, who)
                          ELSE IF Keyed(k, Narrow(who)) # {} THEN Keyed(k, Narrow(who))
                          ELSE IF Keyed(k, Wide(who)) # {} THEN Keyed(k, Wide(who))
                          ELSE First(Eligible(k, who))
BY DEF Find

\* However it is found, it is one.
LEMMA FoundIsOne ==
    ASSUME LookupInv, NEW k \in Kernels, NEW who \in Scopes
    PROVE  /\ Find(k, who) \subseteq manager[k].entries
           /\ \A e, f \in Find(k, who) : e = f
<1>1. /\ Ordered(manager[k].entries)
      /\ \A e \in manager[k].entries : e.at \in Nat
  BY DEF LookupInv, ManagerOK, LookupTypeOK, Manager, Entry
<1>2. ASSUME NEW s
      PROVE  Keyed(k, s) \subseteq manager[k].entries /\ \A e, f \in Keyed(k, s) : e = f
  BY <1>1 DEF Keyed, Ordered
<1>3. /\ First(Eligible(k, who)) \subseteq manager[k].entries
      /\ \A e, f \in First(Eligible(k, who)) : e = f
  <2>1. Eligible(k, who) \subseteq manager[k].entries
    BY DEF Eligible
  <2>2. \A e, f \in First(Eligible(k, who)) : e.at <= f.at /\ f.at <= e.at
    BY DEF First
  <2> QED
    BY <1>1, <2>1, <2>2 DEF First, Ordered
<1> QED
  BY <1>2, <1>3, FindIs

\* Of files nobody edits, no two of one key, a kernel has for a key exactly what is on
\* the disk for it.
LEMMA KeyedIsOnDisk ==
    ASSUME LookupInv, NEW k \in Ready, asOf[k] = edits, Unambiguous, NEW s \in Scopes
    PROVE  {e.manifest : e \in Keyed(k, s)} = {m \in OnDisk : Key(m.scope) = Key(s)}
<1>1. k \in Kernels /\ manager[k].pc = "ready" /\ manager[k].todo = {} /\ ManagerOK(k)
  BY DEF Ready, LookupInv, ManagerOK
<1>2. /\ {e.manifest : e \in manager[k].entries} \subseteq OnDisk
      /\ \A f \in Files : disk[f] \in Manifest =>
            \E e \in manager[k].entries : Key(e.manifest.scope) = Key(disk[f].scope)
  BY <1>1 DEF ManagerOK, Fresh
<1>3. \A m, n \in OnDisk : Key(m.scope) = Key(n.scope) => m = n
  BY DEF OnDisk, Unambiguous
<1>4. \A e \in Keyed(k, s) : e.manifest \in OnDisk /\ Key(e.manifest.scope) = Key(s)
  BY <1>2 DEF Keyed
<1>5. ASSUME NEW m \in OnDisk, Key(m.scope) = Key(s)
      PROVE  \E e \in Keyed(k, s) : e.manifest = m
  <2>1. PICK f \in Files : disk[f] = m /\ m \in Manifest
    BY DEF OnDisk
  <2>2. PICK e \in manager[k].entries : Key(e.manifest.scope) = Key(s)
    BY <1>2, <1>5, <2>1
  <2>3. e.manifest = m
    BY <1>2, <1>3, <1>5, <2>2
  <2> QED
    BY <2>2, <2>3 DEF Keyed
<1> QED
  BY <1>4, <1>5

\* Two such kernels find the same for a scope either has a key for.
LEMMA SameKeyed ==
    ASSUME LookupInv, NEW k \in Ready, NEW l \in Ready, asOf[k] = edits, asOf[l] = edits,
           Unambiguous, NEW who \in Scopes,
           \E m \in OnDisk, s \in Tried(who) : Key(m.scope) = Key(s)
    PROVE  {e.manifest : e \in Find(k, who)} = {e.manifest : e \in Find(l, who)}
<1>0. PICK m \in OnDisk, t \in Tried(who) : Key(m.scope) = Key(t)
  OBVIOUS
<1>1. k \in Kernels /\ l \in Kernels
  BY DEF Ready
<1>2. \A s \in Tried(who) :
         /\ {e.manifest : e \in Keyed(k, s)} = {e.manifest : e \in Keyed(l, s)}
         /\ Keyed(k, s) # {} <=> Keyed(l, s) # {}
  <2> SUFFICES ASSUME NEW s \in Tried(who)
               PROVE  /\ {e.manifest : e \in Keyed(k, s)} = {e.manifest : e \in Keyed(l, s)}
                      /\ Keyed(k, s) # {} <=> Keyed(l, s) # {}
    OBVIOUS
  <2>1. {e.manifest : e \in Keyed(k, s)} = {e.manifest : e \in Keyed(l, s)}
    <3>1. s \in Scopes
      BY Asked DEF Tried
    <3>2. {e.manifest : e \in Keyed(k, s)} = {n \in OnDisk : Key(n.scope) = Key(s)}
      BY <3>1, KeyedIsOnDisk
    <3>3. {e.manifest : e \in Keyed(l, s)} = {n \in OnDisk : Key(n.scope) = Key(s)}
      BY <3>1, KeyedIsOnDisk
    <3> QED
      BY <3>2, <3>3
  <2> QED
    BY <2>1
<1>3. \E s \in Tried(who) : Keyed(k, s) # {}
  <2>1. t \in Scopes
    BY Asked DEF Tried
  <2>2. {e.manifest : e \in Keyed(k, t)} = {n \in OnDisk : Key(n.scope) = Key(t)}
    BY <2>1, KeyedIsOnDisk
  <2>3. Keyed(k, t) # {}
    BY <1>0, <2>2
  <2> QED
    BY <2>3
<1> QED
  BY <1>1, <1>2, <1>3, FindIs DEF Tried

-----------------------------------------------------------------------------
(* Which scopes share a key                                                *)

\* Concatenation, under a name.
Cat(f, g) == f \o g

LEMMA CatIs ==
    ASSUME NEW S, NEW f \in Seq(S), NEW g \in Seq(S)
    PROVE  Cat(f, g) \in Seq(S)
BY ConcatProperties DEF Cat

LEMMA CatAssociative ==
    ASSUME NEW S, NEW f \in Seq(S), NEW g \in Seq(S), NEW h \in Seq(S)
    PROVE  Cat(Cat(f, g), h) = Cat(f, Cat(g, h))
<1>1. (f \o g) \o h = f \o (g \o h)
  BY ConcatAssociative
<1> QED
  BY <1>1 DEF Cat

\* A sequence without a separator is read back from what is joined to it by one.
LEMMA JoinedOnce ==
    ASSUME NEW S, NEW sep \in S, NEW a \in Seq(S \ {sep}), NEW b \in Seq(S \ {sep}),
           NEW u \in Seq(S), NEW v \in Seq(S),
           Cat(a, Cat(<<sep>>, u)) = Cat(b, Cat(<<sep>>, v))
    PROVE  a = b /\ u = v
<1>0. a \o (<<sep>> \o u) = b \o (<<sep>> \o v)
  BY DEF Cat
<1>1. /\ a \in Seq(S) /\ b \in Seq(S) /\ Len(a) \in Nat /\ Len(b) \in Nat
      /\ Len(u) \in Nat /\ Len(v) \in Nat
      /\ \A i \in 1..Len(a) : a[i] \in S \ {sep}
      /\ \A i \in 1..Len(b) : b[i] \in S \ {sep}
  BY LenProperties, ElementOfSeq, SeqMonotonic
<1>2. ASSUME NEW w \in Seq(S)
      PROVE  /\ <<sep>> \o w \in Seq(S) /\ Len(<<sep>> \o w) = 1 + Len(w)
             /\ (<<sep>> \o w)[1] = sep
             /\ \A i \in 1..Len(w) : (<<sep>> \o w)[i + 1] = w[i]
  <2>1. <<sep>> \in Seq(S) /\ Len(<<sep>>) = 1 /\ <<sep>>[1] = sep
    OBVIOUS
  <2>2. Len(w) \in Nat
    BY LenProperties
  <2> QED
    BY <2>1, <2>2, ConcatProperties
<1>3. ASSUME NEW c \in Seq(S), NEW w \in Seq(S), Len(c) \in Nat, Len(w) \in Nat
      PROVE  /\ Len(c \o (<<sep>> \o w)) = Len(c) + 1 + Len(w)
             /\ \A i \in 1..Len(c) : (c \o (<<sep>> \o w))[i] = c[i]
             /\ (c \o (<<sep>> \o w))[Len(c) + 1] = sep
             /\ \A i \in 1..Len(w) : (c \o (<<sep>> \o w))[Len(c) + 1 + i] = w[i]
  <2> DEFINE t == <<sep>> \o w
  <2>1. /\ t \in Seq(S) /\ Len(t) = 1 + Len(w) /\ t[1] = sep
        /\ \A i \in 1..Len(w) : t[i + 1] = w[i]
    BY <1>2
  <2> HIDE DEF t
  <2>2. /\ Len(c \o t) = Len(c) + 1 + Len(w)
        /\ \A i \in 1..(Len(c) + 1 + Len(w)) :
              (c \o t)[i] = IF i <= Len(c) THEN c[i] ELSE t[i - Len(c)]
    <3>1. /\ Len(c \o t) = Len(c) + Len(t)
          /\ \A i \in 1..Len(c) + Len(t) :
                (c \o t)[i] = IF i <= Len(c) THEN c[i] ELSE t[i - Len(c)]
      <4> DEFINE T == Seq(S)
      <4>1. c \in T /\ t \in T
        BY <1>3, <2>1
      <4>2. \A f, g \in T : /\ Len(f \o g) = Len(f) + Len(g)
                            /\ \A i \in 1..Len(f) + Len(g) :
                                  (f \o g)[i] = IF i <= Len(f) THEN f[i] ELSE g[i - Len(f)]
        BY ConcatProperties
      <4> HIDE DEF T
      <4> QED
        BY <4>1, <4>2, Zenon
    <3>2. Len(c) + Len(t) = Len(c) + 1 + Len(w)
      BY <1>3, <2>1
    <3> QED
      BY <3>1, <3>2
  <2>3. \A i \in 1..Len(w) : (c \o t)[Len(c) + 1 + i] = t[i + 1]
    BY <1>3, <2>2
  <2> QED
    BY <1>3, <2>1, <2>2, <2>3 DEF t
<1>4. Len(a) = Len(b)
  <2> DEFINE x == a \o (<<sep>> \o u)
             y == b \o (<<sep>> \o v)
  <2>1. /\ x = y
        /\ \A i \in 1..Len(a) : x[i] = a[i]
        /\ \A i \in 1..Len(b) : y[i] = b[i]
        /\ x[Len(a) + 1] = sep /\ y[Len(b) + 1] = sep
    BY <1>0, <1>1, <1>3
  <2> HIDE DEF x, y
  <2>2. ASSUME Len(a) < Len(b) PROVE FALSE
    <3>1. Len(a) + 1 \in 1..Len(b)
      BY <1>1, <2>2
    <3>2. b[Len(a) + 1] # sep
      BY <1>1, <3>1
    <3>3. y[Len(a) + 1] = b[Len(a) + 1]
      BY <2>1, <3>1
    <3> QED
      BY <2>1, <3>2, <3>3
  <2>3. ASSUME Len(b) < Len(a) PROVE FALSE
    <3>1. Len(b) + 1 \in 1..Len(a)
      BY <1>1, <2>3
    <3>2. a[Len(b) + 1] # sep
      BY <1>1, <3>1
    <3>3. x[Len(b) + 1] = a[Len(b) + 1]
      BY <2>1, <3>1
    <3> QED
      BY <2>1, <3>2, <3>3
  <2> QED
    BY <1>1, <2>2, <2>3
<1>5. a = b
  <2>1. \A i \in 1..Len(a) : a[i] = b[i]
    BY <1>0, <1>1, <1>3, <1>4
  <2> QED
    BY <1>1, <1>4, <2>1, SeqEqual
<1>6. u = v
  <2>1. Len(u) = Len(v)
    BY <1>0, <1>1, <1>3, <1>4
  <2>2. ASSUME NEW i \in 1..Len(u) PROVE u[i] = v[i]
    <3>1. (a \o (<<sep>> \o u))[Len(a) + 1 + i] = u[i]
      BY <1>1, <1>3
    <3>2. (b \o (<<sep>> \o v))[Len(b) + 1 + i] = v[i]
      BY <1>1, <1>3, <2>1
    <3> QED
      BY <1>0, <1>4, <3>1, <3>2
  <2> QED
    BY <2>1, <2>2, SeqEqual
<1> QED
  BY <1>5, <1>6

\* Names of tenants and namespaces that are not empty, nor "_", and do not contain "::".
PlainIn(Atoms) ==
    /\ Agents \subseteq Seq(Atoms)
    /\ Tenants \union Namespaces \subseteq Seq(Atoms \ {"::"}) \ {<<>>, <<"_">>}

LEMMA JoinedRight ==
    ASSUME NEW S, NEW p \in Seq(S), NEW q \in Seq(S), NEW r \in Seq(S), NEW z \in Seq(S)
    PROVE  /\ Cat(Cat(Cat(Cat(p, z), q), z), r) = Cat(p, Cat(z, Cat(q, Cat(z, r))))
           /\ Cat(q, Cat(z, r)) \in Seq(S)
<1>1. /\ Cat(p, z) \in Seq(S) /\ Cat(Cat(p, z), q) \in Seq(S)
      /\ Cat(z, r) \in Seq(S) /\ Cat(q, Cat(z, r)) \in Seq(S)
  BY CatIs
<1>2. Cat(Cat(Cat(Cat(p, z), q), z), r) = Cat(Cat(Cat(p, z), q), Cat(z, r))
  BY <1>1, CatAssociative
<1>3. Cat(Cat(Cat(p, z), q), Cat(z, r)) = Cat(Cat(p, z), Cat(q, Cat(z, r)))
  BY <1>1, CatAssociative
<1>4. Cat(Cat(p, z), Cat(q, Cat(z, r))) = Cat(p, Cat(z, Cat(q, Cat(z, r))))
  BY <1>1, CatAssociative
<1> QED
  BY <1>1, <1>2, <1>3, <1>4

\* Scopes of such names have keys of their own, whatever the agents are called.
LEMMA PlainKeys ==
    ASSUME NEW Atoms, PlainIn(Atoms), NEW s \in Scopes, NEW t \in Scopes, Key(s) = Key(t)
    PROVE  s = t
<1> DEFINE S == Atoms \union {"::", "_"}
           sep == "::"
<1>1. ASSUME NEW part \in Tenants \union Namespaces \union {NULL}
      PROVE  /\ Text(part) \in Seq(S \ {sep})
             /\ part = NULL <=> Text(part) = <<"_">>
             /\ part # NULL => Text(part) = part
  <2>1. "_" \in S \ {sep}
    OBVIOUS
  <2>2. <<"_">> \in Seq(S \ {sep})
    BY <2>1
  <2>3. \A w \in Seq(Atoms \ {"::"}) : w \in Seq(S \ {sep})
    <3>1. Atoms \ {"::"} \subseteq S \ {sep}
      OBVIOUS
    <3> QED
      BY <3>1, SeqMonotonic
  <2> QED
    BY <2>2, <2>3, CapabilityAssumption DEF Text, PlainIn
<1>2. \A w \in Agents : w \in Seq(S)
  <2>1. Atoms \subseteq S
    OBVIOUS
  <2> QED
    BY <2>1, SeqMonotonic DEF PlainIn
<1>3. s \in [agent : Agents, tenant : Tenants \union {NULL}, namespace : Namespaces \union {NULL}]
      /\ t \in [agent : Agents, tenant : Tenants \union {NULL}, namespace : Namespaces \union {NULL}]
  BY DEF Scopes
<1>4. sep \in S
  OBVIOUS
<1> DEFINE p(x) == Text(x.tenant)
           q(x) == Text(x.namespace)
           r(x) == x.agent
           z == <<sep>>
<1>5. ASSUME NEW x \in Scopes
      PROVE  /\ p(x) \in Seq(S \ {sep}) /\ q(x) \in Seq(S \ {sep}) /\ r(x) \in Seq(S)
             /\ Cat(q(x), Cat(z, r(x))) \in Seq(S)
             /\ Key(x) = Cat(p(x), Cat(z, Cat(q(x), Cat(z, r(x)))))
  <2>1. p(x) \in Seq(S \ {sep}) /\ q(x) \in Seq(S \ {sep}) /\ r(x) \in Seq(S)
    BY <1>1, <1>2 DEF Scopes
  <2>2. p(x) \in Seq(S) /\ q(x) \in Seq(S) /\ z \in Seq(S)
    <3>1. S \ {sep} \subseteq S
      OBVIOUS
    <3> HIDE DEF S, sep, p, q
    <3> QED
      BY <2>1, <1>4, <3>1, SeqMonotonic
  <2>3. Key(x) = Cat(Cat(Cat(Cat(p(x), z), q(x)), z), r(x))
    BY DEF Key, Cat
  <2> HIDE DEF S, sep, p, q, r, z
  <2> QED
    BY <2>1, <2>2, <2>3, JoinedRight
<1> HIDE DEF S, sep, p, q, r
<1> DEFINE P == Seq(S \ {sep})
           Q == Seq(S)
<1>a. \A a, b \in P, u, v \in Q :
         Cat(a, Cat(z, u)) = Cat(b, Cat(z, v)) => a = b /\ u = v
  BY <1>4, JoinedOnce
<1>b. ASSUME NEW x \in Scopes
      PROVE  /\ p(x) \in P /\ q(x) \in P /\ r(x) \in Q /\ Cat(q(x), Cat(z, r(x))) \in Q
             /\ Key(x) = Cat(p(x), Cat(z, Cat(q(x), Cat(z, r(x)))))
  BY <1>5
<1> HIDE DEF z, P, Q
<1>6. p(s) = p(t) /\ Cat(q(s), Cat(z, r(s))) = Cat(q(t), Cat(z, r(t)))
  <2>1. Cat(p(s), Cat(z, Cat(q(s), Cat(z, r(s))))) = Cat(p(t), Cat(z, Cat(q(t), Cat(z, r(t)))))
    BY <1>b
  <2> DEFINE w(x) == Cat(q(x), Cat(z, r(x)))
  <2>2. p(s) \in P /\ p(t) \in P /\ w(s) \in Q /\ w(t) \in Q
        /\ Cat(p(s), Cat(z, w(s))) = Cat(p(t), Cat(z, w(t)))
    BY <1>b, <2>1
  <2> HIDE DEF w
  <2>3. \A u, v \in Q : Cat(p(s), Cat(z, u)) = Cat(p(t), Cat(z, v)) => p(s) = p(t) /\ u = v
    BY <1>a, <2>2
  <2>4. p(s) = p(t) /\ w(s) = w(t)
    BY <2>2, <2>3
  <2> QED
    BY <2>4 DEF w
<1>7. q(s) = q(t) /\ r(s) = r(t)
  <2>1. q(s) \in P /\ q(t) \in P /\ r(s) \in Q /\ r(t) \in Q
    BY <1>b
  <2>2. \A u, v \in Q : Cat(q(s), Cat(z, u)) = Cat(q(t), Cat(z, v)) => q(s) = q(t) /\ u = v
    BY <1>a, <2>1
  <2> QED
    BY <1>6, <2>1, <2>2
<1>8. s.tenant = t.tenant /\ s.namespace = t.namespace /\ s.agent = t.agent
  <2> DEFINE none == <<"_">>
  <2>1. \A f \in Tenants \union Namespaces \union {NULL} :
           (f = NULL <=> Text(f) = none) /\ (f # NULL => Text(f) = f)
    BY <1>1
  <2> HIDE DEF none
  <2>2. /\ s.tenant \in Tenants \union {NULL} /\ t.tenant \in Tenants \union {NULL}
        /\ s.namespace \in Namespaces \union {NULL} /\ t.namespace \in Namespaces \union {NULL}
    BY <1>3
  <2> QED
    BY <1>6, <1>7, <2>1, <2>2 DEF p, q, r
<1> QED
  BY <1>3, <1>8

-----------------------------------------------------------------------------
(* Theorems about the lookup                                               *)

\* Whatever is loaded and edited, the files and the dictionaries keep their types, and no
\* entry comes from a file that did not parse.
THEOREM LookupTypeCorrect == LookupSpec => []LookupTypeOK
<1>1. LookupInv => LookupTypeOK
  BY DEF LookupInv
<1> QED
  BY <1>1, LookupInductive, PTL

\* _find_manifest, whatever is in the files and however a load falls among edits: one
\* manifest at most; and for a caller no manifest of another scope shares a key with, one
\* of the caller's agent and no other tenant's, and that for its very scope if there is
\* one.
THEOREM NoOtherTenantsManifest == LookupSpec => []TenantKept
<1>1. ASSUME LookupInv PROVE TenantKept
  <2> SUFFICES ASSUME NEW k \in Ready, NEW who \in Scopes
               PROVE  /\ Cardinality(Find(k, who)) <= 1
                      /\ Told(k, who) =>
                            /\ \A e \in Find(k, who) :
                                  /\ e.manifest.scope.agent = who.agent
                                  /\ who.tenant # NULL =>
                                        e.manifest.scope.tenant \in {NULL, who.tenant}
                            /\ \A e \in manager[k].entries :
                                  e.manifest.scope = who => Find(k, who) = {e}
    BY DEF TenantKept
  <2>0. k \in Kernels
    BY DEF Ready
  <2>1. Find(k, who) \subseteq manager[k].entries /\ \A e, f \in Find(k, who) : e = f
    BY <1>1, <2>0, FoundIsOne
  <2>2. ASSUME Told(k, who), NEW e \in Find(k, who)
        PROVE  /\ e.manifest.scope.agent = who.agent
               /\ who.tenant # NULL => e.manifest.scope.tenant \in {NULL, who.tenant}
    <3>1. CASE \E s \in Tried(who) : e \in Keyed(k, s)
      <4>1. e.manifest.scope \in {who, Narrow(who), Wide(who)}
        BY <2>2, <3>1 DEF Told, Tried, Keyed
      <4> QED
        BY <4>1, Asked
    <3>2. CASE e \in First(Eligible(k, who))
      BY <3>2 DEF First, Eligible
    <3> QED
      BY <2>0, <3>1, <3>2, FindIs DEF Tried
  <2>3. ASSUME NEW e \in manager[k].entries, e.manifest.scope = who PROVE Find(k, who) = {e}
    <3>1. e \in Keyed(k, who)
      BY <2>3 DEF Keyed
    <3>2. Find(k, who) = Keyed(k, who)
      BY <2>0, <3>1, FindIs
    <3> QED
      BY <2>1, <3>1, <3>2
  <2>4. Cardinality(Find(k, who)) <= 1
    <3>1. CASE Find(k, who) = {}
      BY <3>1, FS_EmptySet
    <3>2. ASSUME NEW e \in Find(k, who) PROVE Cardinality(Find(k, who)) = 1
      <4>1. Find(k, who) = {e}
        BY <2>1
      <4> QED
        BY <4>1, FS_Singleton
    <3> QED
      BY <3>1, <3>2
  <2> QED
    BY <2>2, <2>3, <2>4
<1> QED
  BY <1>1, LookupInductive, PTL

\* ... and of tenants and namespaces that are not named "_" and do not contain "::",
\* nobody's keys are those of a manifest for another scope: what TenantKept says then
\* holds of every caller.
THEOREM PlainNamesAreTold ==
    ASSUME NEW Atoms, PlainIn(Atoms)
    PROVE  LookupSpec => [](\A k \in Kernels, who \in Scopes : Told(k, who))
<1>1. ASSUME LookupInv, NEW k \in Kernels, NEW who \in Scopes PROVE Told(k, who)
  <2>1. ASSUME NEW e \in manager[k].entries, NEW s \in Tried(who),
               Key(e.manifest.scope) = Key(s)
        PROVE  e.manifest.scope = s
    <3>1. e.manifest.scope \in Scopes
      BY <1>1 DEF LookupInv, LookupTypeOK, Manager, Entry, Manifest
    <3>2. s \in Scopes
      BY Asked DEF Tried
    <3> QED
      BY <2>1, <3>1, <3>2, PlainKeys
  <2> QED
    BY <2>1 DEF Told
<1>2. LookupInv => \A k \in Kernels, who \in Scopes : Told(k, who)
  BY <1>1
<1> QED
  BY <1>2, LookupInductive, PTL

\* A load nobody edits beside ends with what is on the disk.
THEOREM LoadsGrantWhatIsOnDisk == LookupSpec => []GrantsOnDisk
<1>1. ASSUME LookupInv PROVE GrantsOnDisk
  <2> SUFFICES ASSUME NEW k \in Ready, asOf[k] = edits
               PROVE  /\ {e.manifest : e \in manager[k].entries} \subseteq OnDisk
                      /\ \A m \in OnDisk :
                            \E e \in manager[k].entries : Key(e.manifest.scope) = Key(m.scope)
    BY DEF GrantsOnDisk
  <2>1. manager[k].pc = "ready" /\ manager[k].todo = {} /\ Fresh(k)
    BY <1>1 DEF Ready, LookupInv, ManagerOK
  <2> QED
    BY <2>1 DEF Fresh, OnDisk
<1> QED
  BY <1>1, LookupInductive, PTL

\* The order os.listdir gives changes no answer, if no two files have one key and one of
\* the keys tried is there.
THEOREM KernelsAnswerAlike == LookupSpec => []KernelsAgree
<1>1. ASSUME LookupInv PROVE KernelsAgree
  <2> SUFFICES ASSUME NEW k \in Ready, NEW l \in Ready, NEW who \in Scopes,
                      Unambiguous, asOf[k] = edits, asOf[l] = edits,
                      \E m \in OnDisk, s \in Tried(who) : Key(m.scope) = Key(s)
               PROVE  {c \in Calls : IsToolAllowed(k, who, c)}
                         = {c \in Calls : IsToolAllowed(l, who, c)}
    BY DEF KernelsAgree
  <2>1. {e.manifest : e \in Find(k, who)} = {e.manifest : e \in Find(l, who)}
    BY <1>1, SameKeyed
  <2>2. \A c \in Calls, j \in {k, l} :
           IsToolAllowed(j, who, c) <=> \E n \in {e.manifest : e \in Find(j, who)} : c \in n.calls
    BY DEF IsToolAllowed
  <2> QED
    BY <2>1, <2>2
<1> QED
  BY <1>1, LookupInductive, PTL
=============================================================================
