-------------------------- MODULE CapabilityStore ---------------------------
(***************************************************************************)
(* Versions and activation of capability manifests: CapabilityStore        *)
(* (capability_store.py) and the capability-* commands (cli.py).           *)
(*                                                                         *)
(* Every command is a process of its own.  It reads the row it is about    *)
(* (capability-create: the list of versions), writes, and commits; other   *)
(* commands commit in between.  A session writes the columns whose value   *)
(* differs from the one it has loaded.                                     *)
(*                                                                         *)
(* The database is Postgres at its default isolation, READ COMMITTED: the  *)
(* bulk UPDATE of an activation finds the rows committed when it is sent,  *)
(* and what it writes is seen when the session commits.  Row locks, held   *)
(* until then, make commands wait for one another or end one of them by an *)
(* error; they keep nobody from inserting.  What waits is sent before and  *)
(* takes effect later, in the order of the commits: no more than the order *)
(* is modelled.  SQLite lets one session write at a time, and so has fewer *)
(* behaviours.                                                             *)
(***************************************************************************)
EXTENDS Capabilities, Naturals, Sequences, FiniteSets

CONSTANTS
    Admins,        \* the terminals commands are given at
    ToolSets,      \* values of allowed_tools
    MaxRows,       \* bound on the manifests
    MaxCommands    \* bound on the commands

VARIABLES
    manifests,     \* the rows of capability_manifests, by id
    session,       \* session[p]: the command at p, with what it has read
    commands,      \* commands given so far
    loose          \* history: scopes where a manifest was added active beside another

vars == <<manifests, session, commands, loose>>

-----------------------------------------------------------------------------
Row == [scope : Scopes, version : Nat \ {0}, active : BOOLEAN, tools : ToolSets]

\* id, seen: the row the command is about, and the row as it loaded it; for
\* capability-create seen is the row to be inserted.  tools, activate: its options.
\* upTo: the rows there were when the bulk UPDATE was sent, 0 before.
Command == [op       : {"create", "activate", "deactivate", "update", "bump"},
            id       : Nat,
            seen     : Row,
            tools    : ToolSets,
            activate : BOOLEAN,
            upTo     : Nat]

Done == [op |-> "none"]

TypeOK ==
    /\ manifests \in Seq(Row)
    /\ session \in [Admins -> Command \union {Done}]
    /\ \A p \in Admins :
          session[p].op \notin {"none", "create"} =>
              /\ session[p].id \in 1..Len(manifests)
              /\ session[p].seen.scope = manifests[session[p].id].scope
    /\ commands \in Nat
    /\ loose \subseteq Scopes

Init ==
    /\ manifests = <<>>
    /\ session = [p \in Admins |-> Done]
    /\ commands = 0
    /\ loose = {}

ActiveIn(s) == {i \in 1..Len(manifests) : manifests[i].scope = s /\ manifests[i].active}

-----------------------------------------------------------------------------
(* The read of each command                                                *)

\* list_manifests: a filter that is not given is not applied.
Listed(s) ==
    {i \in 1..Len(manifests) :
        LET other == manifests[i].scope IN
        /\ other.agent = s.agent
        /\ s.tenant = NULL \/ other.tenant = s.tenant
        /\ s.namespace = NULL \/ other.namespace = s.namespace}

Begin(p, command) ==
    /\ session[p] = Done
    /\ commands < MaxCommands
    /\ commands' = commands + 1
    /\ session' = [session EXCEPT ![p] = command]
    /\ UNCHANGED <<manifests, loose>>

\* Bug: the versions of a new scope start from none at all.
CreateListFromZero(p) ==
    \E s \in Scopes, tools \in ToolSets, activate \in BOOLEAN :
    \E last \in {0} \union {manifests[i].version : i \in Listed(s)} :
        /\ \A i \in Listed(s) : manifests[i].version <= last
        /\ Begin(p, [op |-> "create", id |-> 0, tools |-> tools, activate |-> activate,
                     upTo |-> 0, seen |-> [scope |-> s, version |-> last,
                                             active |-> activate, tools |-> tools]])

\* capability-create takes the version after the last one listed.
CreateList(p) ==
    \E s \in Scopes, tools \in ToolSets, activate \in BOOLEAN :
    \E last \in {0} \union {manifests[i].version : i \in Listed(s)} :
        /\ \A i \in Listed(s) : manifests[i].version <= last
        /\ Begin(p, [op |-> "create", id |-> 0, tools |-> tools, activate |-> activate,
                     upTo |-> 0, seen |-> [scope |-> s, version |-> last + 1,
                                             active |-> activate, tools |-> tools]])

\* The others query the row, and return if there is none.
Load(p) ==
    \E i \in 1..Len(manifests), tools \in ToolSets, activate \in BOOLEAN :
    \E op \in {"activate", "deactivate", "update", "bump"} :
        /\ op # "update" => tools = manifests[i].tools
        /\ op \notin {"update", "bump"} => activate = (op = "activate")
        /\ Begin(p, [op |-> op, id |-> i, seen |-> manifests[i], tools |-> tools,
                     activate |-> activate, upTo |-> 0])

-----------------------------------------------------------------------------
(* The write of each command                                               *)

\* What a session flushes of a column: nothing where the value it loaded is kept.
Flushed(stored, seen, new) == IF new = seen THEN stored ELSE new

\* Bug: a scope without a tenant or a namespace is compared as SQL compares NULL.
SiblingsUnlessNull(p) ==
    {j \in 1..session[p].upTo :
        /\ j # session[p].id
        /\ manifests[j].scope = session[p].seen.scope
        /\ NULL \notin {manifests[j].scope.tenant, manifests[j].scope.namespace}}

\* The rows the bulk UPDATE has found, if it was sent; == None becomes IS NULL.
Siblings(p) ==
    {j \in 1..session[p].upTo :
        j # session[p].id /\ manifests[j].scope = session[p].seen.scope}

\* The bulk UPDATE of activate_manifest, and of update_manifest_tools when it activates.
UpdateSiblings(p) ==
    /\ session[p].op \in {"activate", "update"}
    /\ session[p].activate /\ session[p].upTo = 0
    /\ session' = [session EXCEPT ![p].upTo = Len(manifests)]
    /\ UNCHANGED <<manifests, commands, loose>>

\* The table after the commit of what the UPDATE wrote and of the flush of the row itself.
Written(p, active, tools) ==
    LET c == session[p] IN
    [i \in 1..Len(manifests) |->
        IF i = c.id
        THEN [manifests[i] EXCEPT !.active = Flushed(@, c.seen.active, active),
                                  !.tools = Flushed(@, c.seen.tools, tools)]
        ELSE IF i \in Siblings(p)
        THEN [manifests[i] EXCEPT !.active = FALSE]
        ELSE manifests[i]]

End(p, op) ==
    /\ session[p].op = op
    /\ session' = [session EXCEPT ![p] = Done]
    /\ UNCHANGED commands

\* A manifest is added active: is any but those in replaced active beside it?
Loosen(p, replaced) ==
    LET s == session[p].seen.scope IN
    loose' = IF session[p].activate /\ ActiveIn(s) \ replaced # {} THEN loose \union {s}
             ELSE loose

\* An activation leaves the scope to one manifest, unless another was added active since
\* its UPDATE.
Settle(p) ==
    LET s == session[p].seen.scope IN
    loose' = IF ActiveIn(s) \subseteq 1..session[p].upTo THEN loose \ {s}
             ELSE loose \union {s}

\* create_manifest; no other manifest is deactivated.
CreateManifest(p) ==
    /\ End(p, "create")
    /\ Len(manifests) < MaxRows
    /\ manifests' = Append(manifests, session[p].seen)
    /\ Loosen(p, {})

ActivateManifest(p) ==
    /\ End(p, "activate")
    /\ session[p].upTo # 0
    /\ manifests' = Written(p, TRUE, session[p].tools)
    /\ Settle(p)

DeactivateManifest(p) ==
    /\ End(p, "deactivate")
    /\ manifests' = Written(p, FALSE, session[p].tools)
    /\ UNCHANGED loose

\* update_manifest_tools, which activates as well when asked to.
UpdateManifestTools(p) ==
    LET c == session[p] IN
    /\ End(p, "update")
    /\ c.activate => c.upTo # 0
    /\ manifests' = Written(p, c.activate \/ c.seen.active, c.tools)
    /\ IF c.activate THEN Settle(p) ELSE UNCHANGED loose

Version(p) == [session[p].seen EXCEPT !.version = @ + 1, !.active = session[p].activate]

\* Bug: the old version stays active.
CreateNextVersionBeside(p) ==
    LET c == session[p] IN
    /\ End(p, "bump")
    /\ Len(manifests) < MaxRows
    /\ manifests' = Append(manifests, Version(p))
    /\ Loosen(p, IF c.seen.active THEN {c.id} ELSE {})

\* create_next_version: of the row as it was loaded, which alone is deactivated.
CreateNextVersion(p) ==
    LET c == session[p] IN
    /\ End(p, "bump")
    /\ Len(manifests) < MaxRows
    /\ manifests' = Append(Written(p, c.seen.active /\ ~c.activate, c.tools), Version(p))
    /\ Loosen(p, IF c.seen.active THEN {c.id} ELSE {})

\* The database refuses a statement or the commit (a deadlock, a lock not had in time),
\* or the command is killed: what the session wrote is rolled back.
Abort(p) ==
    /\ session[p] # Done
    /\ session' = [session EXCEPT ![p] = Done]
    /\ UNCHANGED <<manifests, commands, loose>>

Next ==
    \E p \in Admins :
        \/ CreateList(p)
        \/ Load(p)
        \/ UpdateSiblings(p)
        \/ CreateManifest(p)
        \/ ActivateManifest(p)
        \/ DeactivateManifest(p)
        \/ UpdateManifestTools(p)
        \/ CreateNextVersion(p)
        \/ Abort(p)

Spec == Init /\ [][Next]_vars

-----------------------------------------------------------------------------
(* Properties                                                              *)

\* However commands overlap, at most one manifest is active in a scope, from its first
\* one or an activation on, until a command adds an active manifest beside an active
\* one, or between the UPDATE of an activation and its commit.  capability-create does,
\* and capability-bump from a row that is not the active one; the bump of the active row
\* replaces it.  That activations and bumps overlap in any order leaves one at most.
SingleActive ==
    \A s \in Scopes \ loose : \A i, j \in ActiveIn(s) : i = j

\* The abstract register, seen through the rows.
Register ==
    INSTANCE ManifestRegister
    WITH entries <- [i \in 1..Len(manifests) |->
                        [scope |-> manifests[i].scope, tools |-> manifests[i].tools]],
         inForce <- [s \in Scopes |-> ActiveIn(s)]

\* Every row a command has loaded is as it was loaded, and no row of the scope has come
\* since the UPDATE of an activation.
Current ==
    \A p \in Admins :
        LET c == session[p] IN
        c.op \notin {"none", "create"} =>
            /\ c.seen = manifests[c.id]
            /\ c.upTo # 0 =>
                  \A i \in 1..Len(manifests) : manifests[i].scope = c.seen.scope => i <= c.upTo

\* What the register does for the command at p.
Commanded(p) ==
    LET c == session[p] IN
    CASE c.op = "create"     -> Register!Create(c.seen.scope, c.tools, c.activate)
      [] c.op = "activate"   -> Register!Activate(c.id)
      [] c.op = "deactivate" -> Register!Deactivate(c.id)
      [] c.op = "update"     -> Register!UpdateTools(c.id, c.tools, c.activate)
      [] c.op = "bump"       -> Register!Bump(c.id, c.activate)

\* A commit made while no command works on an outdated row is exactly the step of the
\* register that was commanded, and only commits change the register: siblings, the
\* flush of changed columns and the copy of the old version fall together.
ImplementsWhileCurrent ==
    [][Current => \/ UNCHANGED <<manifests, Register!vars>>
                  \/ \E p \in Admins : /\ session[p] # Done /\ session'[p] = Done
                                       /\ Commanded(p)]_vars

\* When commands are given one after the other they are always current.
ImplementsRegister == Register!Spec
=============================================================================
