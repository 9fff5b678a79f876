--------------------------- MODULE SharedDirectories ---------------------------
(***************************************************************************)
(* Directories that applications share with the other system, added to the *)
(* handlers of UserGrants: the shared_file_info table, the share map that  *)
(* restricts what may be set below an application's data directory, and    *)
(* package events, which change the share map. The specification composes  *)
(* all of them.                                                            *)
(***************************************************************************)
EXTENDS UserGrants

(***************************************************************************)
(* The share map. A profile is loaded scope by scope; each addition takes  *)
(* the mutex of the map on its own.                                        *)
(***************************************************************************)
Add(entries, path, mode) ==
  [p \in DOMAIN entries \cup {path} |-> IF p = path THEN mode ELSE entries[p]]

(* The scopes of a profile that are well formed, by their place in it, and    *)
(* how many there are up to one of them; a malformed one is skipped.         *)
Loadable(p) ==
  {i \in DOMAIN p.scopes : p.scopes[i].path # <<>> /\ p.scopes[i].permission # "none"}
Number(p, i) == Cardinality({j \in Loadable(p) : j <= i})

(* What TransAndSetToMapInner does with a profile p of bundle b, in order:   *)
(* it adds scope after scope, and the first one too many, too, before the    *)
(* limit ends the profile like a scope that is not valid.                    *)
Limit(b, p) == [bundle |-> b, at |-> Len(p.scopes) + 1,
                scope |-> [path |-> <<>>, permission |-> "none"]]
Items(b, p) ==
  {[bundle |-> b, at |-> i, scope |-> p.scopes[i]] :
     i \in {j \in Loadable(p) : Number(p, j) <= MaxShareConfigCount + 1}}
  \cup {Limit(b, p) : i \in {j \in Loadable(p) : Number(p, j) > MaxShareConfigCount}}

ItemPath(item) == PathCompose(item.scope.path, item.bundle)
ItemMode(item) == PermissionToMode(item.scope.permission)
GoodItem(item) == ItemPath(item) # <<>> /\ ItemMode(item) # {}

(* What the bundle manager has for bundle b of user u, as items to load.     *)
Declared(b, u) == Items(b, profile[b][u])

(* Handler t has loaded some items of bundle b, and others not yet.          *)
Halfway(t, b) ==
  /\ call[t].pc = "load" /\ \E item \in call[t].load : item.bundle = b
  /\ call[t].load # Declared(b, call[t].user)

(* DeleteByBundleName: all users lose the bundle. What a handler that is     *)
(* halfway through it adds afterwards is a part of the profile: the bundle   *)
(* is torn until it is deleted again.                                        *)
DeleteByBundleName(t, b) ==
  /\ shareMap' = [shareMap EXCEPT ![b] = [u \in Users |-> Unset]]
  /\ bounds' = [bounds EXCEPT !.torn = IF \E u \in Threads \ {t} : Halfway(u, b)
                                       THEN @ \cup {b} ELSE @ \ {b}]

(* TransAndSetToMapInner and AddToMap on one scope: a path or permission     *)
(* that is not valid, or one scope too many, takes all that the bundle has   *)
(* out of the map again and ends the profile.                                *)
AddGood(t, item) ==
  /\ GoodItem(item)
  /\ shareMap' = [shareMap EXCEPT ![item.bundle][call[t].user] =
                    Add(@, ItemPath(item), ItemMode(item))]
  /\ Set(t, [call[t] EXCEPT !.load = @ \ {item}])
  /\ UNCHANGED bounds

AddToMapKeeps(t, item) ==
  \/ AddGood(t, item)
  \/ /\ ~GoodItem(item)
     /\ Set(t, [call[t] EXCEPT !.load = @ \ {item}])
     /\ UNCHANGED <<shareMap, bounds>>

AddToMap(t, item) ==
  \/ AddGood(t, item)
  \/ /\ ~GoodItem(item)
     /\ DeleteByBundleName(t, item.bundle)
     /\ Set(t, [call[t] EXCEPT !.load = {}])

LoadScope(t) ==
  /\ call[t].pc = "load"
  /\ \E item \in call[t].load :
       /\ \A other \in call[t].load : item.at <= other.at
       /\ AddToMap(t, item)
  /\ UNCHANGED <<Tables, rules, Outside>>

(* TransAndSetToMap starts with the next of the profiles that were read.     *)
LoadProfile(t) ==
  /\ call[t].pc = "load" /\ call[t].load = {}
  /\ \E next \in call[t].rest :
       Set(t, [call[t] EXCEPT !.load = next, !.rest = @ \ {next}])
  /\ UNCHANGED <<Tables, rules, Outside, shareMap, bounds>>

Loaded(c) == c.pc = "load" /\ c.load = {} /\ c.rest = {}

(* What is in the map when a profile was loaded into an empty one.           *)
Load(b, u) ==
  LET items == Declared(b, u)
      Latest(path) == CHOOSE i \in items :
                      ItemPath(i) = path /\ \A j \in items : ItemPath(j) = path => j.at <= i.at
  IN  IF items = {} \/ \E i \in items : ~GoodItem(i)
      THEN Unset
      ELSE [path \in {ItemPath(i) : i \in items} |-> ItemMode(Latest(path))]

(* The bundles the bundle manager may have for a user.                       *)
BundlesOf(u) == {BundleOf[k] : k \in {h \in Haps : UserOf[h] = u}}

(* GetAllShareCfg and GetShareCfgByBundle read profiles from the bundle      *)
(* manager, and load them one after the other.                               *)
ReadProfiles(t, c, B) ==
  Set(t, [c EXCEPT !.pc = "load", !.load = {}, !.rest = {Declared(b, c.user) : b \in B}])

-----------------------------------------------------------------------------
(***************************************************************************)
(* The shared_file_info table, written by the foundation process.          *)
(***************************************************************************)
SetShareFileInfo(t) ==
  \E k \in Haps, p \in Profiles :
    Begin(t, "setshare", "write", [Idle EXCEPT !.k = k, !.bundle = BundleOf[k], !.profile = p])

UpdateShareFileInfo(t) ==
  \E k \in Haps, p \in Profiles :
    Begin(t, "update", "write", [Idle EXCEPT !.k = k, !.bundle = BundleOf[k], !.profile = p])

(* Unset is also what Update does with an empty configuration.               *)
UnsetShareFileInfo(t) ==
  \E k \in Haps : Begin(t, "unshare", "drop", [Idle EXCEPT !.k = k, !.bundle = BundleOf[k]])

(* An update that is not valid drops the row, one without a shared directory *)
(* leaves it.                                                                *)
WriteEnds(t, ret) ==
  IF call[t].op = "update" THEN Set(t, [call[t] EXCEPT !.ret = ret, !.pc = "drop"])
  ELSE Return(t, ret)

WriteShareFileToDb(t) ==
  LET new == ProcessShareFileInfo(call[t].profile, call[t].bundle) IN
  /\ call[t].op \in {"setshare", "update"} /\ call[t].pc = "write"
  /\ \/ /\ new.ret = "skip"
        /\ Return(t, "ok") /\ UNCHANGED <<shared, bounds>>
     \/ /\ new.ret = "invalid"
        /\ WriteEnds(t, "invalid") /\ UNCHANGED <<shared, bounds>>
     \/ /\ new.ret = "ok"
        /\ shared' = [shared EXCEPT ![call[t].k] = new.row]
        /\ Return(t, "ok") /\ UNCHANGED bounds
     \/ /\ new.ret = "ok"
        /\ Fault /\ WriteEnds(t, "db") /\ UNCHANGED shared
  /\ UNCHANGED <<rows, ugc, rules, Outside, shareMap>>

DropShareRow(t) ==
  /\ call[t].op \in {"update", "unshare"} /\ call[t].pc = "drop"
  /\ \/ shared' = [shared EXCEPT ![call[t].k] = NoRow] /\ Return(t, call[t].ret) /\ UNCHANGED bounds
     \/ Fault /\ Return(t, IF call[t].op = "update" THEN call[t].ret ELSE "db")
        /\ UNCHANGED shared
  /\ UNCHANGED <<rows, ugc, rules, Outside, shareMap>>

-----------------------------------------------------------------------------
(***************************************************************************)
(* Grant and revoke of all shared directories of the caller's user.        *)
(***************************************************************************)
SharedOf(u) == {[row |-> shared[k], bundle |-> BundleOf[k]] :
                k \in {h \in Haps : UserOf[h] = u /\ shared[h] # NoRow}}

GrantSharedDirectoryPermission(t) ==
  \E k \in Callers : Begin(t, "gshare", "list", [Idle EXCEPT !.k = k, !.user = UserOf[k]])

RevokeSharedDirectoryPermission(t) ==
  \E k \in Callers : Begin(t, "rshare", "list", [Idle EXCEPT !.k = k, !.user = UserOf[k]])

ListFound(t, found) ==
  IF found = {} THEN Return(t, "ok")
  ELSE Set(t, [call[t] EXCEPT !.found = found,
               !.pc = IF call[t].op = "gshare" THEN "check" ELSE "unset"])

(* A query that breaks off answers with the rows it has so far.              *)
QuerySharedFileInfoByUserId(t) ==
  /\ call[t].op \in {"gshare", "rshare"} /\ call[t].pc = "list"
  /\ \/ ListFound(t, SharedOf(call[t].user)) /\ UNCHANGED bounds
     \/ Fault /\ \E seen \in SUBSET SharedOf(call[t].user) : ListFound(t, seen)
     \/ Fault /\ Return(t, "db")
  /\ UNCHANGED <<Tables, rules, Outside, shareMap>>

Permission(b, u, path) == FindPermission(shareMap[b][u], path)

(* One row of the list is decided: it is valid to set, or it is dropped.     *)
Decide(t, item, allowed) ==
  LET c == call[t]
      left == c.found \ {item}
      pols == IF allowed /\ item.row.mode # {} THEN c.pols \cup {item.row} ELSE c.pols
  IN  Set(t, [c EXCEPT !.found = left, !.pols = pols,
              !.pc = IF left # {} THEN "next" ELSE "set"])

(* CheckPathWithinShareMap on the first row: a miss loads the profiles of    *)
(* the user again, and a failing load refuses the row. A mode that is not    *)
(* valid is dropped before.                                                  *)
CheckFirst(t) ==
  /\ At(t, "gshare", "check")
  /\ \E item \in call[t].found :
       LET p == Permission(item.bundle, call[t].user, item.row.path)
           miss == item.row.mode # {} /\ p.is # "declared"
       IN
       \/ ~miss /\ Decide(t, item, CheckShareMode(p, item.row.mode)) /\ UNCHANGED bounds
       \/ miss /\ UNCHANGED bounds
          /\ ReadProfiles(t, [call[t] EXCEPT !.bundle = item.bundle], BundlesOf(call[t].user))
       \/ miss /\ Fault /\ Decide(t, item, FALSE)
  /\ UNCHANGED <<Tables, rules, Outside, shareMap>>

CheckAgain(t) ==
  /\ At(t, "gshare", "load") /\ Loaded(call[t])
  /\ \E item \in call[t].found :
       /\ item.bundle = call[t].bundle
       /\ Decide(t, item, CheckShareMode(Permission(item.bundle, call[t].user, item.row.path),
                                         item.row.mode))
  /\ UNCHANGED <<Tables, rules, Outside, shareMap, bounds>>

(* The others are decided by what the map has.                               *)
CheckNext(t) ==
  /\ At(t, "gshare", "next")
  /\ \E item \in call[t].found :
       Decide(t, item, CheckShareMode(Permission(item.bundle, call[t].user, item.row.path),
                                      item.row.mode))
  /\ UNCHANGED <<Tables, rules, Outside, shareMap, bounds>>

(* The kernel may refuse some of the entries; their results are dropped.     *)
SetShared(t) ==
  /\ At(t, "gshare", "set")
  /\ \/ rules' = rules \cup {call[t].k} \X call[t].pols /\ Return(t, "ok") /\ UNCHANGED bounds
     \/ /\ Fault /\ Return(t, "ok")
        /\ \E S \in SUBSET call[t].pols : rules' = rules \cup {call[t].k} \X S
     \/ call[t].pols # {} /\ Fault /\ Return(t, "mac") /\ UNCHANGED rules
  /\ UNCHANGED <<Tables, Outside, shareMap>>

UnsetShared(t) ==
  /\ At(t, "rshare", "unset")
  /\ \/ /\ rules' = rules \ ({call[t].k} \X {i.row : i \in call[t].found})
        /\ Return(t, "ok") /\ UNCHANGED bounds
     \/ /\ Fault /\ Return(t, "ok")
        /\ \E S \in SUBSET call[t].found : rules' = rules \ ({call[t].k} \X {i.row : i \in S})
     \/ Fault /\ Return(t, "mac") /\ UNCHANGED rules
  /\ UNCHANGED <<Tables, Outside, shareMap>>

ShareNext(t) ==
  \/ SetShareFileInfo(t) \/ UpdateShareFileInfo(t) \/ UnsetShareFileInfo(t)
  \/ WriteShareFileToDb(t) \/ DropShareRow(t)
  \/ GrantSharedDirectoryPermission(t) \/ RevokeSharedDirectoryPermission(t)
  \/ QuerySharedFileInfoByUserId(t) \/ CheckFirst(t) \/ CheckAgain(t) \/ CheckNext(t)
  \/ SetShared(t) \/ UnsetShared(t) \/ LoadProfile(t) \/ LoadScope(t)

-----------------------------------------------------------------------------
(***************************************************************************)
(* Package events: PackageChangedEventAction and OnReceiveEvent. What they *)
(* do with the records of preserved bundles is in BundlePreserve.          *)
(***************************************************************************)
(* A bundle is installed, updated or removed for a user: the bundle manager  *)
(* has a new profile. The event comes later.                                 *)
BundleChanges ==
  /\ bounds.updates < MaxUpdates /\ "package" \in offered
  /\ \E b \in Bundles, u \in Users, p \in Updates :
       p # profile[b][u] /\ profile' = [profile EXCEPT ![b][u] = p]
  /\ Count("updates")
  /\ UNCHANGED <<Tables, rules, opened, photo, offered, shareMap, call>>

OfApplication(k) == [Idle EXCEPT !.k = k, !.bundle = BundleOf[k], !.user = UserOf[k]]

PackageChanged(t) == \E k \in Haps : Begin(t, "package", "destroy", OfApplication(k))
OnReceiveEventRemove(t) == \E k \in Haps : Begin(t, "removed", "rows", OfApplication(k))
OnReceiveEventAdd(t) == \E k \in Haps : Begin(t, "added", "read", OfApplication(k))

(* CleanPolicyByPackageChanged: a failing ioctl is only logged; without the  *)
(* bundle manager the event ends here when the service was started for it,   *)
(* and goes on when the subscriber received it.                              *)
CleanPolicyByPackageChanged(t) ==
  /\ At(t, "package", "destroy")
  /\ \/ DestroySandboxPolicy(call[t].k) /\ Goto(t, "delete") /\ UNCHANGED bounds
     \/ Fault /\ UNCHANGED rules /\ (Goto(t, "delete") \/ Return(t, "denied"))
  /\ UNCHANGED <<Tables, Outside, shareMap>>

(* RemoveBundlePolicy, whose failure is not looked at; the rows of a         *)
(* preserved bundle stay. The event of a clone ends here.                    *)
RemoveBundlePolicy(t) ==
  /\ At(t, "removed", "rows")
  /\ rows' \in {rows, {r \in rows : r[1] # call[t].k}}
  /\ Goto(t, "delete") \/ Return(t, "ok")
  /\ UNCHANGED <<ugc, shared, rules, Outside, shareMap, bounds>>

(* Refresh deletes the bundle and reads one user's profile, a removal only   *)
(* deletes it.                                                               *)
DeleteBundle(t) ==
  /\ call[t].op \in {"package", "removed"} /\ call[t].pc = "delete"
  /\ DeleteByBundleName(t, call[t].bundle)
  /\ IF call[t].op = "package" THEN Goto(t, "read") ELSE Return(t, "ok")
  /\ UNCHANGED <<Tables, rules, Outside>>

(* Both callers drop the result of reading the profile.                      *)
GetShareCfgByBundle(t) ==
  LET read == profile[call[t].bundle][call[t].user] IN
  /\ call[t].op \in {"package", "added"} /\ call[t].pc = "read"
  /\ \/ ReadProfiles(t, [call[t] EXCEPT !.profile = read], {call[t].bundle}) /\ UNCHANGED bounds
     \/ Fault /\ Return(t, "ok")
  /\ UNCHANGED <<Tables, rules, Outside, shareMap>>

RefreshDone(t) ==
  /\ call[t].op \in {"package", "added"} /\ Loaded(call[t])
  /\ Return(t, "ok")
  /\ UNCHANGED <<Tables, rules, Outside, shareMap, bounds>>

PackageNext(t) ==
  \/ PackageChanged(t) \/ OnReceiveEventRemove(t) \/ OnReceiveEventAdd(t)
  \/ CleanPolicyByPackageChanged(t) \/ RemoveBundlePolicy(t) \/ DeleteBundle(t)
  \/ GetShareCfgByBundle(t) \/ RefreshDone(t)

-----------------------------------------------------------------------------
(* A running process opens a file through a rule it has.                     *)
Open ==
  \E r \in rules :
    /\ r[1] \in Haps /\ r \notin opened
    /\ opened' = opened \cup {r}
    /\ UNCHANGED <<Tables, rules, photo, profile, offered, shareMap, call, bounds>>

(* The service is unloaded or dies: its handlers are gone, tables and rules  *)
(* stay. InitShareMap loads the profiles of the foreground user, if it can.  *)
InitShareMap(u) ==
  [b \in Bundles |->
     [v \in Users |-> IF v = u /\ b \in BundlesOf(u) THEN Load(b, u) ELSE Unset]]

Restart ==
  /\ \E t \in Threads : call[t].pc # "done"
  /\ Fault
  /\ call' = [t \in Threads |-> Idle]
  /\ shareMap' \in {InitShareMap(u) : u \in Users \cup {0}}
  /\ UNCHANGED <<Tables, rules, Outside>>

Init ==
  /\ \E s \in Scenarios :
       /\ offered = s.ops
       /\ rows = s.rows
       /\ shared \in s.shared
       /\ profile \in s.profiles
  /\ rules \in {rows, {}}
  /\ ugc = [k \in Tokens |-> [p \in Policies |-> "none"]]
  /\ opened = {}
  /\ photo = Haps
  /\ shareMap = [b \in Bundles |-> [u \in Users |-> Unset]]
  /\ call = [t \in Threads |-> Idle]
  /\ bounds = [calls |-> 0, updates |-> 0, faults |-> 0, overlaps |-> 0, torn |-> {}]

Next ==
  \/ \E t \in Threads :
       GrantNext(t) \/ EraseNext(t) \/ CleanNext(t) \/ ShareNext(t) \/ PackageNext(t)
  \/ BundleChanges \/ Open \/ Restart

Spec == Init /\ [][Next]_vars

-----------------------------------------------------------------------------
(* The state has its shape, every shared row comes from a profile, and a     *)
(* handler loads what profiles have.                                         *)
AllItems == UNION {Items(b, p) : b \in Bundles, p \in Profiles}
OpNames == {"none", "grant", "revoke", "erase", "clean", "setshare", "update", "unshare",
            "gshare", "rshare", "package", "removed", "added"}
Points == {"done", "add", "set", "modify", "unset", "kill", "rows", "destroy", "ugc", "photo",
           "find", "byuser", "filter", "remove", "write", "drop", "list", "check", "next", "delete",
           "read", "load"}
Results == {"ok", "db", "mac", "kill", "media", "invalid", "denied"}
Handlers ==
  [op: OpNames, pc: Points, k: Tokens \cup {""}, user: Users \cup {0}, bundle: Bundles \cup {""},
   pols: SUBSET AllPolicies, left: SUBSET Policies, pol: Policies \cup {NoRow},
   path: CleanPaths \cup {<<>>}, below: SUBSET (Tokens \X Policies), unsure: SUBSET Tokens,
   profile: Profiles \cup {<<>>}, found: SUBSET [row: SharedPolicies, bundle: Bundles],
   load: SUBSET AllItems, rest: SUBSET SUBSET AllItems, ret: Results, clean: BOOLEAN]

TypeOK ==
  /\ rows \subseteq Tokens \X Policies
  /\ ugc \in [Tokens -> [Policies -> {"none", "granted", "denied"}]]
  /\ shared \in [Tokens -> SharedPolicies \cup {NoRow}]
  /\ rules \subseteq Tokens \X AllPolicies
  /\ opened \subseteq Haps \X AllPolicies
  /\ photo \subseteq Haps
  /\ profile \in [Bundles -> [Users -> Profiles]]
  /\ call \in [Threads -> Handlers]
  /\ bounds \in [calls: Nat, updates: Nat, faults: Nat, overlaps: {0, 1}, torn: SUBSET Bundles]

Returns(t, op, ret) ==
  /\ call[t].pc # "done" /\ call'[t].pc = "done"
  /\ call'[t].op = op /\ call'[t].ret = ret

(* What OK means of a handler that ran alone.  After RevokePermissionByUser   *)
(* no status says granted, no rule is left and no process of an application  *)
(* has a file open through one; after UnPersistPolicy(tokenId) the token has *)
(* no row, rule, open file or right in the media library; after a module     *)
(* update nobody but its user has the bundle in the share map, and the user  *)
(* has exactly the profile, or nothing when it could not be read: OK does    *)
(* not say which (SandboxManagerShare::Refresh drops the result).            *)
AccessEnded(k, policies) ==
  \A p \in policies : ugc'[k][p] # "granted" /\ <<k, p>> \notin rules' \cup opened'

Erased(k) ==
  k \notin photo' /\ \A p \in AllPolicies : <<k, p>> \notin rows' \cup rules' \cup opened'

Refreshed(b, user, read) ==
  /\ \A u \in Users \ {user} : shareMap'[b][u] = Unset
  /\ read = <<>> => shareMap'[b][user] = Unset
  /\ read = profile[b][user] => shareMap'[b][user] = Load(b, user)

OkMeansDone ==
  [][\A t \in Threads : call[t].clean /\ call'[t].clean =>
       /\ Returns(t, "revoke", "ok") => AccessEnded(call[t].k, call[t].pols)
       /\ Returns(t, "erase", "ok") => Erased(call[t].k)
       /\ Returns(t, "package", "ok") =>
            Refreshed(call[t].bundle, call[t].user, call[t].profile)]_vars

(* As long as no two handlers met, a rule that only the user granted has a   *)
(* status record, whatever fails and whenever the service dies: the record   *)
(* is written before the rule is set and removed after the rules are gone    *)
(* (GrantPermissionByUser, UnPersistPolicy).                                 *)
RuleIsRecorded ==
  bounds.overlaps = 0 =>
    \A r \in rules \cap (Tokens \X (Policies \ SharedPolicies)) :
      (\A s \in Scenarios : r \notin s.rows) => ugc[r[1]][r[2]] # "none"

(* A handler that works for one user or token takes no rule from a token of  *)
(* another user, and no row either, unless cleaning could not learn whose    *)
(* token it is: the lookup failed, or the token is no application            *)
(* (CleanPolicyByUserId, RemoveResultByUserIdAndPrefix, and the others).     *)
OtherUsersKeep ==
  [][\A t \in Threads, r \in (rows \ rows') \cup (rules \ rules') :
       call[t].pc # call'[t].pc =>
         \/ call[t].op = "clean" /\ call[t].user = UserOf[r[1]]
         \/ call[t].op = "clean" /\ rules' = rules /\ r[1] \in call[t].unsure
         \/ call[t].op # "clean" /\ call[t].k = r[1]]_vars

(* A profile of the bundle declares the directory of the row, or names it by *)
(* a path of the largest number of parts.                                    *)
DeclaredRow(b, row) ==
  \E p \in Profiles :
    \/ DeclaredIn(p, b, row)
    \/ MadeFrom(p, b, row) /\ Len(p.sharing.path) - 1 >= MaxPartsFormat

(* A row of shared_file_info lies within a scope that a profile of its own   *)
(* bundle declared, and so does every rule that GrantSharedDirectory-        *)
(* Permission set; the bundle is one of the caller's user.  That holds       *)
(* whatever profiles change to, handlers meet and accesses fail.             *)
SharedIsWithinScope ==
  /\ \A k \in Tokens :
       shared[k] # NoRow => k \in Haps /\ DeclaredRow(BundleOf[k], shared[k])
  /\ \A r \in rules :
       r[2] \notin Policies =>
         \E h \in Haps : UserOf[h] = UserOf[r[1]] /\ DeclaredRow(BundleOf[h], r[2])

(* As long as the bundle manager has the same profiles, whenever nothing is  *)
(* being loaded the share map has for a bundle and user the whole profile or *)
(* nothing, unless another handler deleted the bundle halfway through the    *)
(* load; then it has a part of the profile, and never a path or mode that    *)
(* the profile does not give.  That holds whatever handlers load and delete  *)
(* at the same time and whatever fails (AddToMap: "to maintain atomicity").  *)
PartOf(m, whole) == \A path \in DOMAIN m : path \in DOMAIN whole /\ m[path] = whole[path]

MapIsWhole ==
  (bounds.updates = 0 /\ \A t \in Threads : call[t].pc # "load") =>
    \A b \in Bundles, u \in Users :
      IF b \in bounds.torn THEN PartOf(shareMap[b][u], Load(b, u))
      ELSE shareMap[b][u] \in {Unset, Load(b, u)}
=============================================================================
