-------------------------- MODULE CapabilityLookup --------------------------
(***************************************************************************)
(* Which manifest a request is checked against: CapabilityManager          *)
(* (capability/manager.py) over the JSON files of policies/capabilities.   *)
(*                                                                         *)
(* Each kernel, of the API server or of an `approval-replay` command,      *)
(* loads the files when it is made and again on reload.  It lists the      *)
(* directory once, in whatever order the system gives, and opens one file  *)
(* after the other, while operators write, replace and remove files.  The  *)
(* rows CapabilityStore keeps in the database are not looked at.           *)
(*                                                                         *)
(* Names are sequences: manifests are kept under a key in which the names  *)
(* are joined, and different scopes may have the same key.                 *)
(*                                                                         *)
(* What a manifest allows is a set of calls: the constraints on            *)
(* parameters, paths, domains and commands look at one call at a time.     *)
(***************************************************************************)
EXTENDS Capabilities, Naturals, Sequences, FiniteSets

CONSTANTS
    Kernels,                       \* processes with a CapabilityManager
    Files,                         \* file names ending in .json
    Calls,                         \* a tool with its parameters
    Absent,                        \* no file of that name
    Broken,                        \* a file that does not parse, or is half written
    MaxEdits                       \* bound on the edits made

Manifest == [scope : Scopes, calls : SUBSET Calls]

ASSUME LookupAssumption ==
    /\ Absent \notin Manifest
    /\ Broken \notin Manifest

VARIABLES
    disk,       \* disk[f]: what is in file f
    manager,    \* manager[k]: what kernel k has loaded, and still has to
    edits,      \* edits made so far
    asOf        \* history: asOf[k], the edits made when k listed the directory

lookupVars == <<disk, manager, edits, asOf>>

-----------------------------------------------------------------------------
(* _manifest_key                                                           *)

\* `part or '_'`: a part that is missing or empty is written as a part named "_" is.
Text(part) == IF part \in {NULL, <<>>} THEN <<"_">> ELSE part

\* The parts are joined as they are, whatever they contain.
Key(s) == Text(s.tenant) \o <<"::">> \o Text(s.namespace) \o <<"::">> \o s.agent

-----------------------------------------------------------------------------
\* An entry of the dictionary self.manifests; at is its place in the order of
\* insertion, which a replaced value keeps.
Entry == [at : Nat, manifest : Manifest]

Manager == [pc : {"none", "loading", "ready"}, todo : SUBSET Files, entries : SUBSET Entry]

\* The state of the loads and of the directory keeps its types; no entry comes from a
\* file that did not parse.
LookupTypeOK ==
    /\ disk \in [Files -> Manifest \union {Absent, Broken}]
    /\ manager \in [Kernels -> Manager]
    /\ edits \in Nat
    /\ asOf \in [Kernels -> Nat]

LookupInit ==
    /\ disk = [f \in Files |-> Absent]
    /\ manager = [k \in Kernels |-> [pc |-> "none", todo |-> {}, entries |-> {}]]
    /\ edits = 0
    /\ asOf = [k \in Kernels |-> 0]

-----------------------------------------------------------------------------
(* _load_manifests                                                         *)

\* Bug: reload forgets to clear.
ListKeeping(k) ==
    /\ manager[k].pc \in {"none", "ready"}
    /\ manager' = [manager EXCEPT ![k].pc = "loading",
                                  ![k].todo = {f \in Files : disk[f] # Absent}]
    /\ asOf' = [asOf EXCEPT ![k] = edits]
    /\ UNCHANGED <<disk, edits>>

\* The kernel is made, or an embedding program calls reload, which clears first:
\* os.listdir.
List(k) ==
    /\ manager[k].pc \in {"none", "ready"}
    /\ manager' = [manager EXCEPT ![k] = [pc |-> "loading", entries |-> {},
                                          todo |-> {f \in Files : disk[f] # Absent}]]
    /\ asOf' = [asOf EXCEPT ![k] = edits]
    /\ UNCHANGED <<disk, edits>>

Same(entries, m) == {e \in entries : Key(e.manifest.scope) = Key(m.scope)}

\* self.manifests[key] = manifest
With(entries, m) ==
    LET at == IF Same(entries, m) = {} THEN {Cardinality(entries)}
              ELSE {e.at : e \in Same(entries, m)}
    IN  (entries \ Same(entries, m)) \union {[at |-> i, manifest |-> m] : i \in at}

\* Bug: the errors of a file are caught after it is entered.
LoadFileUnparsed(k) ==
    /\ manager[k].pc = "loading"
    /\ \E f \in manager[k].todo :
          manager' = [manager EXCEPT ![k].todo = @ \ {f},
                                     ![k].entries = @ \union {[at |-> Cardinality(@), manifest |-> disk[f]]}]
    /\ UNCHANGED <<disk, edits, asOf>>

\* The next file is opened.  One that is gone or does not parse is skipped.
LoadFile(k) ==
    /\ manager[k].pc = "loading"
    /\ \E f \in manager[k].todo :
          manager' = [manager EXCEPT ![k].todo = @ \ {f},
                                     ![k].entries = IF disk[f] \in {Absent, Broken} THEN @
                                                    ELSE With(@, disk[f])]
    /\ UNCHANGED <<disk, edits, asOf>>

Loaded(k) ==
    /\ manager[k].pc = "loading"
    /\ manager[k].todo = {}
    /\ manager' = [manager EXCEPT ![k].pc = "ready"]
    /\ UNCHANGED <<disk, edits, asOf>>

\* The process ends, and may be started again.
Stop(k) ==
    /\ manager[k].pc # "none"
    /\ manager' = [manager EXCEPT ![k] = [pc |-> "none", todo |-> {}, entries |-> {}]]
    /\ UNCHANGED <<disk, edits, asOf>>

\* An operator writes, replaces or removes a file, or is in the middle of it.
Edit(f, content) ==
    /\ edits < MaxEdits
    /\ disk[f] # content
    /\ disk' = [disk EXCEPT ![f] = content]
    /\ edits' = edits + 1
    /\ UNCHANGED <<manager, asOf>>

LookupNext ==
    \/ \E k \in Kernels : List(k) \/ LoadFile(k) \/ Loaded(k) \/ Stop(k)
    \/ \E f \in Files, content \in Manifest \union {Absent, Broken} : Edit(f, content)

LookupSpec == LookupInit /\ [][LookupNext]_lookupVars

-----------------------------------------------------------------------------
(* _find_manifest and is_tool_allowed                                      *)

Narrow(who) == [who EXCEPT !.namespace = NULL]
Wide(who) == [who EXCEPT !.tenant = NULL, !.namespace = NULL]

\* The scopes whose keys are tried, in this order.
Tried(who) == {who, Narrow(who), Wide(who)}

\* self.manifests.get(key)
Keyed(k, scope) == {e \in manager[k].entries : Key(e.manifest.scope) = Key(scope)}

\* Bug: the tenant of the caller is not looked at.
EligibleAnyTenant(k, who) == {e \in manager[k].entries : e.manifest.scope.agent = who.agent}

\* The fallback: a caller without a tenant is given any, and the namespace is not
\* looked at.
Eligible(k, who) ==
    {e \in manager[k].entries :
        /\ e.manifest.scope.agent = who.agent
        /\ who.tenant # NULL => e.manifest.scope.tenant \in {NULL, who.tenant}}

First(entries) == {e \in entries : \A f \in entries : e.at <= f.at}

\* Bug: the keys are not tried; the dictionary is searched in its order.
FindInOrder(k, who) == First(Eligible(k, who))

\* The manifest that applies, as a set of one, or none.
Find(k, who) ==
    IF Keyed(k, who) # {} THEN Keyed(k, who)
    ELSE IF Keyed(k, Narrow(who)) # {} THEN Keyed(k, Narrow(who))
    ELSE IF Keyed(k, Wide(who)) # {} THEN Keyed(k, Wide(who))
    ELSE First(Eligible(k, who))

IsToolAllowed(k, who, call) == \E e \in Find(k, who) : call \in e.manifest.calls

-----------------------------------------------------------------------------
(* Properties                                                              *)

Ready == {k \in Kernels : manager[k].pc = "ready"}

\* No manifest loaded has a key tried for the caller but is for another scope.
Told(k, who) ==
    \A e \in manager[k].entries, s \in Tried(who) :
        Key(e.manifest.scope) = Key(s) => e.manifest.scope = s

\* A caller whose keys are told apart from those of the manifests loaded is never
\* checked against a manifest of another tenant or of another agent, and a manifest for
\* its very scope overrides every other: whatever else is loaded, two scopes with one key
\* included, and however the load fell among edits.  Nobody is found two manifests.
TenantKept ==
    \A k \in Ready, who \in Scopes :
        /\ Cardinality(Find(k, who)) <= 1
        /\ Told(k, who) =>
              /\ \A e \in Find(k, who) :
                    /\ e.manifest.scope.agent = who.agent
                    /\ who.tenant # NULL => e.manifest.scope.tenant \in {NULL, who.tenant}
              /\ \A e \in manager[k].entries :
                    e.manifest.scope = who => Find(k, who) = {e}

OnDisk == {disk[f] : f \in Files} \intersect Manifest

Unambiguous == \A f, g \in Files : (disk[f] \in Manifest /\ disk[g] \in Manifest /\ f # g) =>
                                       Key(disk[f].scope) # Key(disk[g].scope)

\* Once a kernel is made or reloads, it grants what is on the disk: a removed grant is
\* gone, a replaced one replaced, and every file's key is entered, provided nobody edits
\* since the directory was listed.
GrantsOnDisk ==
    \A k \in Ready :
        asOf[k] = edits =>
            /\ {e.manifest : e \in manager[k].entries} \subseteq OnDisk
            /\ \A m \in OnDisk :
                  \E e \in manager[k].entries : Key(e.manifest.scope) = Key(m.scope)

\* Two kernels that loaded the same files give a caller the same answer, in whatever
\* order each was given them, if no two files have one key and some file has the key of
\* the caller's scope, its tenant or its agent alone.
KernelsAgree ==
    \A k, l \in Ready, who \in Scopes :
        (/\ Unambiguous /\ asOf[k] = edits /\ asOf[l] = edits
         /\ \E m \in OnDisk, s \in Tried(who) : Key(m.scope) = Key(s))
        => {c \in Calls : IsToolAllowed(k, who, c)} = {c \in Calls : IsToolAllowed(l, who, c)}
=============================================================================
