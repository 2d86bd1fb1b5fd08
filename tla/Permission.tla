----------------------------- MODULE Permission -----------------------------
(***************************************************************************)
(* kit/permission: the Config of roles and permissions that the handlers   *)
(* of one node share through SharedConfig, and its copy on another node,   *)
(* kept up to date with Snapshot and ApplySnapshot.  Every method holds    *)
(* the Config's lock throughout and is one step; SharedConfig is two, the  *)
(* lookup in sharedConfigs and LoadOrStore of a Config built meanwhile.    *)
(* Permission lists are sets, Go maps functions on their keys; nil and     *)
(* empty are one value, as the clone functions make them.                  *)
(***************************************************************************)
EXTENDS Naturals, Sequences

CONSTANTS
  Members,    \* nodeIDs other than 0
  Roles,      \* role names
  Perms,      \* permission strings, Wildcard among them
  Wildcard,
  Handlers,   \* goroutines that call SharedConfig, once each
  Settings,   \* Settings[k]: the texts in the k-th core config
  Addresses,  \* where core configs are allocated
  MaxChanges  \* bound on UpsertNode and InvalidateNodes calls

ASSUME PermAssumption ==
  /\ "node" \in Roles /\ Wildcard \in Perms /\ "none" \notin Handlers
  /\ Members \subseteq Nat \ {0} /\ MaxChanges \in Nat /\ Settings # <<>>

\* What the texts of a core config may say: each is there or not, and lists
\* entries of which some are ill-formed.
ASSUME SettingsAssumption ==
  \A k \in DOMAIN Settings :
    LET s == Settings[k] IN
    /\ "role"  \in DOMAIN s => s.role \in Roles
    /\ "perms" \in DOMAIN s => s.perms \subseteq Perms
    /\ "nodes" \in DOMAIN s => s.nodes \in Seq([key : Members, val : Roles, ok : BOOLEAN])
    /\ "roles" \in DOMAIN s => s.roles \in Seq([key : Roles, val : SUBSET Perms, ok : BOOLEAN])

VARIABLES
  cfgOf,      \* the core config each handler was given
  addr,       \* the address of each core config
  sharedConfigs, \* by address: the handler whose Config is stored, or "none"
  building,   \* handlers that found nothing in sharedConfigs
  inst,       \* the Config SharedConfig returned, named by who built it, or "none"
  conf,       \* the contents of the Config each handler built, once it did
  replica,    \* the Config of the other node
  wire,       \* snapshots on their way to it
  synced,     \* history: the Config whose present contents were sent last
  changes     \* history: changes made so far

permVars == <<cfgOf, addr, sharedConfigs, building, inst, conf, replica, wire, synced, changes>>

-----------------------------------------------------------------------------
(* Reading a core config *)

\* The texts hold entries in order: parseNodeRoles and parseRolePerms drop the
\* ill-formed and keep the last of each key.
Parsed(text) ==
  LET Good == {i \in DOMAIN text : text[i].ok}
      Last(k) == CHOOSE i \in Good : text[i].key = k /\ \A j \in Good : text[j].key = k => j <= i
  IN  [k \in {text[i].key : i \in Good} |-> text[Last(k)].val]

Base == [role |-> "node", perms |-> {Wildcard}, nodes |-> <<>>, roles |-> <<>>]

\* NewConfig and Load: a key that is not in the core config keeps its default.
NewConfig(s) ==
  [role  |-> IF "role" \in DOMAIN s THEN s.role ELSE Base.role,
   perms |-> IF "perms" \in DOMAIN s THEN s.perms ELSE Base.perms,
   nodes |-> IF "nodes" \in DOMAIN s THEN Parsed(s.nodes) ELSE Base.nodes,
   roles |-> IF "roles" \in DOMAIN s THEN Parsed(s.roles) ELSE Base.roles]

PermInit ==
  /\ cfgOf \in [Handlers -> DOMAIN Settings]
  /\ addr \in [DOMAIN Settings -> Addresses]
  /\ sharedConfigs = [a \in Addresses |-> "none"]
  /\ building = {} /\ inst = [h \in Handlers |-> "none"]
  /\ conf = [h \in Handlers |-> Base]
  /\ replica = NewConfig(<<>>) /\ wire = <<>> /\ synced = "none" /\ changes = 0

-----------------------------------------------------------------------------
(* SharedConfig *)

Key(h) == addr[cfgOf[h]]

\* sharedConfigs.Load.  A core config gets the address of an earlier one only
\* after that was collected, when its handlers had their Config.
LookUp(h) ==
  /\ inst[h] = "none" /\ h \notin building
  /\ \A g \in Handlers : (Key(g) = Key(h) /\ cfgOf[g] < cfgOf[h]) => inst[g] # "none"
  /\ IF sharedConfigs[Key(h)] # "none"
     THEN inst' = [inst EXCEPT ![h] = sharedConfigs[Key(h)]] /\ UNCHANGED building
     ELSE building' = building \cup {h} /\ UNCHANGED inst
  /\ UNCHANGED <<cfgOf, addr, sharedConfigs, conf, replica, wire, synced, changes>>

\* Faulty variant: Store in place of LoadOrStore.
StoreOwn(h) ==
  /\ h \in building /\ building' = building \ {h}
  /\ conf' = [conf EXCEPT ![h] = NewConfig(Settings[cfgOf[h]])]
  /\ sharedConfigs' = [sharedConfigs EXCEPT ![Key(h)] = h]
  /\ inst' = [inst EXCEPT ![h] = h]
  /\ UNCHANGED <<cfgOf, addr, replica, wire, synced, changes>>

\* NewConfig, then LoadOrStore: the first one stored is everybody's.
LoadOrStore(h) ==
  /\ h \in building /\ building' = building \ {h}
  /\ conf' = [conf EXCEPT ![h] = NewConfig(Settings[cfgOf[h]])]
  /\ LET actual == IF sharedConfigs[Key(h)] = "none" THEN h ELSE sharedConfigs[Key(h)]
     IN  /\ sharedConfigs' = [sharedConfigs EXCEPT ![Key(h)] = actual]
         /\ inst' = [inst EXCEPT ![h] = actual]
  /\ UNCHANGED <<cfgOf, addr, replica, wire, synced, changes>>

-----------------------------------------------------------------------------
(* Changes *)

Without(map, keys) == [k \in DOMAIN map \ keys |-> map[k]]
With(map, key, val) == [k \in DOMAIN map \cup {key} |-> IF k = key THEN val ELSE map[k]]

Change(h, c) ==
  /\ inst[h] # "none" /\ changes < MaxChanges
  /\ conf' = [conf EXCEPT ![inst[h]] = c]
  /\ synced' = IF synced = inst[h] THEN "none" ELSE synced
  /\ changes' = changes + 1
  /\ UNCHANGED <<cfgOf, addr, sharedConfigs, building, inst, replica, wire>>

\* An empty role forgets the node; permissions belong to the role, so they
\* change for all its nodes, and an empty list leaves them as they are.
UpsertNode(h, n, role, perms) ==
  LET c == conf[inst[h]]
  IN  Change(h, IF role = "" THEN [c EXCEPT !.nodes = Without(@, {n})]
                ELSE [c EXCEPT !.nodes = With(@, n, role),
                               !.roles = IF perms = {} THEN @ ELSE With(@, role, perms)])

\* No nodeIDs means all of them.
InvalidateNodes(h, ids) ==
  LET c == conf[inst[h]]
  IN  Change(h, [c EXCEPT !.nodes = IF ids = {} THEN <<>> ELSE Without(@, ids)])

-----------------------------------------------------------------------------
(* Synchronisation *)

\* One snapshot at a time is on its way, and only after a change.
Snapshot(h) ==
  /\ inst[h] # "none" /\ wire = <<>> /\ synced # inst[h]
  /\ wire' = <<conf[inst[h]]>> /\ synced' = inst[h]
  /\ UNCHANGED <<cfgOf, addr, sharedConfigs, building, inst, conf, replica, changes>>

\* Faulty variant: the node roles of the snapshot are added to the old ones.
Merged(c, s) ==
  [role |-> s.role,
   perms |-> IF s.perms = {} THEN c.perms ELSE s.perms,
   nodes |-> [k \in DOMAIN c.nodes \cup DOMAIN s.nodes |->
                IF k \in DOMAIN s.nodes THEN s.nodes[k] ELSE c.nodes[k]],
   roles |-> IF s.roles = <<>> THEN c.roles ELSE s.roles]

\* A part that is nil, which is what an empty one becomes, is not applied.
Applied(c, s) ==
  [role |-> s.role,
   perms |-> IF s.perms = {} THEN c.perms ELSE s.perms,
   nodes |-> IF s.nodes = <<>> THEN c.nodes ELSE s.nodes,
   roles |-> IF s.roles = <<>> THEN c.roles ELSE s.roles]

ApplySnapshot ==
  /\ wire # <<>> /\ wire' = <<>>
  /\ replica' = Applied(replica, Head(wire))
  /\ UNCHANGED <<cfgOf, addr, sharedConfigs, building, inst, conf, synced, changes>>

PermNext ==
  \/ \E h \in Handlers :
       \/ LookUp(h) \/ LoadOrStore(h) \/ Snapshot(h)
       \/ \E n \in Members, r \in Roles \cup {""}, p \in SUBSET Perms : UpsertNode(h, n, r, p)
       \/ \E ids \in SUBSET Members : InvalidateNodes(h, ids)
  \/ ApplySnapshot

PermSpec == PermInit /\ [][PermNext]_permVars

-----------------------------------------------------------------------------
(* Questions *)

ResolveRole(c, n) == IF n \in DOMAIN c.nodes THEN c.nodes[n] ELSE c.role

ResolvePerms(c, n) ==
  LET r == ResolveRole(c, n) IN IF r \in DOMAIN c.roles THEN c.roles[r] ELSE c.perms

ResolvePermsForRole(c, r) ==
  IF r \in DOMAIN c.roles THEN c.roles[r] ELSE IF r = c.role THEN c.perms ELSE {}

HasRole(c, r) == r = c.role \/ r \in DOMAIN c.roles

Has(c, n, p) == n = 0 \/ p = "" \/ {Wildcard, p} \cap ResolvePerms(c, n) # {}

-----------------------------------------------------------------------------
(* Properties *)

PermTypeOK ==
  /\ cfgOf \in [Handlers -> DOMAIN Settings] /\ addr \in [DOMAIN Settings -> Addresses]
  /\ sharedConfigs \in [Addresses -> Handlers \cup {"none"}]
  /\ building \subseteq Handlers /\ inst \in [Handlers -> Handlers \cup {"none"}]
  /\ \A c \in {conf[h] : h \in Handlers} \cup {replica} :
       /\ c.role \in Roles /\ c.perms \subseteq Perms
       /\ DOMAIN c.nodes \subseteq Members /\ DOMAIN c.roles \subseteq Roles
       /\ \A n \in DOMAIN c.nodes : c.nodes[n] \in Roles
       /\ \A r \in DOMAIN c.roles : c.roles[r] \subseteq Perms
  /\ synced \in Handlers \cup {"none"} /\ changes \in 0..MaxChanges

\* Handlers of one core config see each other's changes: however their first
\* calls race they have one Config, built from their own core config, unless
\* that got the address of a collected one whose Config is still stored.
OneShared ==
  \A g, h \in Handlers : (inst[g] # "none" /\ inst[h] # "none") =>
     /\ cfgOf[g] = cfgOf[h] => inst[g] = inst[h]
     /\ cfgOf[inst[h]] = cfgOf[h] \/ addr[cfgOf[inst[h]]] = addr[cfgOf[h]]

\* When the last snapshot has arrived and its Config has not changed since, the
\* other node answers every question about nodes and roles as that Config does,
\* unless a part of it is empty, which ApplySnapshot takes for absent.
SyncedUnlessEmpty ==
  (synced # "none" /\ wire = <<>>) =>
     LET c == conf[synced]
     IN  \/ c.perms = {} \/ c.nodes = <<>> \/ c.roles = <<>>
         \/ /\ \A n \in Members, p \in Perms : Has(replica, n, p) <=> Has(c, n, p)
            /\ \A r \in Roles : /\ HasRole(replica, r) <=> HasRole(c, r)
                              /\ ResolvePermsForRole(replica, r) = ResolvePermsForRole(c, r)
=============================================================================
