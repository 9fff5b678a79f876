---------------------------- MODULE BundlePreserve ----------------------------
(***************************************************************************)
(* What happens to an application's persisted policies when it is removed  *)
(* and installed again: the package events, PersistentPreserve and the     *)
(* tables persisted_policy and bundle_persistent_policy.                   *)
(*                                                                         *)
(* Every installation of an application gets an access token of its own.   *)
(* For an application that asks for it the rows of the removed token stay  *)
(* and a record remembers that token; the next installation's token takes  *)
(* the rows over.  A package event reaches the service by the common event *)
(* subscriber, by the on-demand start, or by both, each of which handles   *)
(* its events one after the other, one table access at a time.             *)
(***************************************************************************)
EXTENDS Naturals, Sequences, FiniteSets

CONSTANTS
  Apps,            \* application identifiers (of one user)
  Tokens,          \* access tokens the system may hand out
  Owner,           \* Owner[k]: the application that token k is for
  PreserveConfig,  \* per application: "true", "false", or "missing"
  Policies,        \* what can be persisted
  Channels,        \* how package events arrive: "subscriber", "demand"
  DoubleDelivery,  \* may one event arrive on several channels?
  NoToken,         \* the token of an application that is not installed
  NoRecord,        \* no record chosen yet
  MaxTime,         \* bound: last time stamp
  MaxEvents,       \* bound: package events in one behaviour
  MaxFaults        \* bound: failing table accesses and crashes

ASSUME OwnerAssumption ==
  /\ Owner \in [Tokens -> Apps]
  /\ PreserveConfig \in [Apps -> {"true", "false", "missing"}]
  /\ DoubleDelivery \in BOOLEAN
  /\ MaxTime \in Nat /\ MaxEvents \in Nat /\ MaxFaults \in Nat

Records == [app : Apps, orig : Tokens, ts : 0..MaxTime]

ASSUME NoneAssumption == NoToken \notin Tokens /\ NoRecord \notin Records

VARIABLES
  rows,        \* rows[k]: the policies of token k in persisted_policy
  records,     \* the rows of bundle_persistent_policy
  installed,   \* installed[a]: the token of application a, or NoToken
  used,        \* tokens handed out so far
  queue,       \* queue[c]: the events waiting on channel c
  job,         \* job[c]: the event channel c works on
  clock,       \* time(nullptr)
  events,      \* package events so far
  faults,      \* faults so far
  asked,       \* history: asked[a] is what application a ever persisted
  early        \* history: applications that persisted something before the
               \* event of their installation was handled

vars == <<rows, records, installed, used, queue, job, clock, events, faults, asked, early>>
world == <<installed, used, clock, events, asked, early>>

Events == [type : {"remove", "add"}, app : Apps, tok : Tokens]

Idle == [pc |-> "idle"]

Jobs == [pc : {"clear", "forget", "save", "fetch", "dedupe", "read", "move", "finish"},
         ev : Events, chosen : Records \cup {NoRecord}, old : SUBSET Records]

-----------------------------------------------------------------------------
(* The system around the service *)

(* A package event is queued on one channel or, with DoubleDelivery, several. *)
Post(e) ==
  /\ events < MaxEvents
  /\ events' = events + 1
  /\ \E to \in (SUBSET Channels) \ {{}} :
       /\ Cardinality(to) > 1 => DoubleDelivery
       /\ queue' = [c \in Channels |-> IF c \in to THEN Append(queue[c], e) ELSE queue[c]]

Install(a) ==
  /\ installed[a] = NoToken
  /\ \E k \in Tokens \ used :
       /\ Owner[k] = a
       /\ installed' = [installed EXCEPT ![a] = k]
       /\ used' = used \cup {k}
       /\ Post([type |-> "add", app |-> a, tok |-> k])
  /\ UNCHANGED <<rows, records, job, clock, faults, asked, early>>

Uninstall(a) ==
  /\ installed[a] # NoToken
  /\ Post([type |-> "remove", app |-> a, tok |-> installed[a]])
  /\ installed' = [installed EXCEPT ![a] = NoToken]
  /\ UNCHANGED <<rows, records, used, job, clock, faults, asked, early>>

(* PACKAGE_DATA_CLEARED is handled like a removal; the application stays.     *)
ClearData(a) ==
  /\ installed[a] # NoToken
  /\ Post([type |-> "remove", app |-> a, tok |-> installed[a]])
  /\ UNCHANGED <<rows, records, installed, used, job, clock, faults, asked, early>>

AddPending(a) ==
  \E c \in Channels :
    \/ \E i \in 1..Len(queue[c]) : queue[c][i].type = "add" /\ queue[c][i].app = a
    \/ job[c] # Idle /\ job[c].ev.type = "add" /\ job[c].ev.app = a

(* PersistPolicy stores a policy of the installed application.                *)
Persist(a) ==
  /\ installed[a] # NoToken
  /\ \E p \in Policies \ rows[installed[a]] :
       /\ rows' = [rows EXCEPT ![installed[a]] = @ \cup {p}]
       /\ asked' = [asked EXCEPT ![a] = @ \cup {p}]
  /\ early' = IF AddPending(a) THEN early \cup {a} ELSE early
  /\ UNCHANGED <<records, installed, used, queue, job, clock, events, faults>>

Tick ==
  /\ clock < MaxTime
  /\ clock' = clock + 1
  /\ UNCHANGED <<rows, records, installed, used, queue, job, events, faults, asked, early>>

-----------------------------------------------------------------------------
(* The service *)

FirstStepMutant(cfg) == IF cfg = "missing" THEN "none" ELSE "clear"
(* What OnReceiveEventRemove and PackageRemoveEventAction do first: keep the  *)
(* rows and save a record, delete the rows, or, when the event does not tell, *)
(* nothing.                                                                   *)
FirstStep(cfg) ==
  IF cfg = "true" THEN "forget" ELSE IF cfg = "false" THEN "clear" ELSE "none"

(* OnReceiveEvent and StartByEventAction: the next event of channel c.        *)
OnReceiveEvent(c) ==
  /\ job[c] = Idle
  /\ queue[c] # <<>>
  /\ LET e == Head(queue[c])
         pc == IF e.type = "add" THEN "fetch" ELSE FirstStep(PreserveConfig[e.app])
     IN  job' = [job EXCEPT ![c] =
           IF pc = "none" THEN Idle
           ELSE [pc |-> pc, ev |-> e, chosen |-> NoRecord, old |-> {}]]
  /\ queue' = [queue EXCEPT ![c] = Tail(@)]
  /\ UNCHANGED <<rows, records, world, faults>>

At(c, pc) == job[c].pc = pc
Goto(c, pc) == job' = [job EXCEPT ![c].pc = pc]
Finish(c) == job' = [job EXCEPT ![c] = Idle]

(* RemoveBundlePolicy.                                                        *)
RemoveBundlePolicy(c) ==
  /\ At(c, "clear")
  /\ rows' = [rows EXCEPT ![job[c].ev.tok] = {}]
  /\ Finish(c)
  /\ UNCHANGED <<records, world, queue, faults>>

(* DeleteBundlePersistentPolicies: at the start of saving, its failure        *)
(* ignored, and after a restore that went well.                               *)
DeleteBundlePersistentPolicies(c) ==
  /\ At(c, "forget") \/ At(c, "finish")
  /\ records' = {r \in records : r.app # job[c].ev.app}
  /\ IF At(c, "forget") THEN Goto(c, "save") ELSE Finish(c)
  /\ UNCHANGED <<rows, world, queue, faults>>

(* The time stamp of a record, in seconds.                                    *)
SaveTime == clock

SaveBundlePersistentPolicies(c) ==
  /\ At(c, "save")
  /\ records' = records \cup
       {[app |-> job[c].ev.app, orig |-> job[c].ev.tok, ts |-> SaveTime]}
  /\ Finish(c)
  /\ UNCHANGED <<rows, world, queue, faults>>

RecordsForMutant(a) == records
RecordsFor(a) == {r \in records : r.app = a}

(* FindBundleRecord: none, the only one, or the latest of several (of equally *)
(* late ones the first the query returned).                                   *)
FindBundleRecord(c) ==
  LET found == RecordsFor(job[c].ev.app)
      latest == {r \in found : \A s \in found : s.ts <= r.ts}
  IN /\ At(c, "fetch")
     /\ \/ found = {} /\ Goto(c, "finish")
        \/ \E r \in latest :
             job' = [job EXCEPT ![c].chosen = r, ![c].old = found \ {r},
                                ![c].pc = IF found = {r} THEN "read" ELSE "dedupe"]
     /\ UNCHANGED <<rows, records, world, queue, faults>>

(* HandleDuplicateBundleRecords deletes the other records one by one, each by *)
(* application and original token.                                            *)
HandleDuplicateBundleRecords(c) ==
  /\ At(c, "dedupe")
  /\ \E o \in job[c].old :
       /\ records' = {r \in records : r.app # job[c].ev.app \/ r.orig # o.orig}
       /\ job' = [job EXCEPT ![c].old = @ \ {o},
                             ![c].pc = IF job[c].old = {o} THEN "read" ELSE "dedupe"]
  /\ UNCHANGED <<rows, world, queue, faults>>

(* GetPersistedPoliciesByTokenId: without rows there is nothing to restore.   *)
GetPersistedPoliciesByTokenId(c) ==
  /\ At(c, "read")
  /\ Goto(c, IF rows[job[c].chosen.orig] = {} THEN "finish" ELSE "move")
  /\ UNCHANGED <<rows, records, world, queue, faults>>

TakenOverMutant(orig, new) == [rows EXCEPT ![orig] = @ \cup rows[new], ![new] = {}]
TakenOver(orig, new) ==
  IF orig = new THEN rows ELSE [rows EXCEPT ![new] = @ \cup rows[orig], ![orig] = {}]

(* The one UPDATE of RestoreBundlePersistentPolicies.  A row the new token    *)
(* already has violates the primary key: the statement fails as a whole.      *)
RestoreBundlePersistentPolicies(c) ==
  LET orig == job[c].chosen.orig
      new == job[c].ev.tok
  IN /\ At(c, "move")
     /\ IF orig # new /\ rows[orig] \cap rows[new] # {}
        THEN Finish(c) /\ UNCHANGED rows
        ELSE Goto(c, "finish") /\ rows' = TakenOver(orig, new)
     /\ UNCHANGED <<records, world, queue, faults>>

(* A table access fails.  Deleting records before saving and deleting         *)
(* duplicates ignore it; every other step ends the handler.                   *)
DbError(c) ==
  /\ job[c] # Idle
  /\ faults < MaxFaults
  /\ faults' = faults + 1
  /\ \/ At(c, "forget") /\ Goto(c, "save")
     \/ /\ At(c, "dedupe")
        /\ \E o \in job[c].old :
             job' = [job EXCEPT ![c].old = @ \ {o},
                                ![c].pc = IF job[c].old = {o} THEN "read" ELSE "dedupe"]
     \/ ~ At(c, "forget") /\ ~ At(c, "dedupe") /\ Finish(c)
  /\ UNCHANGED <<rows, records, world, queue>>

(* The service dies: handlers end where they are, and events queued for its   *)
(* subscriber are lost.                                                       *)
Crash ==
  /\ faults < MaxFaults
  /\ faults' = faults + 1
  /\ job' = [c \in Channels |-> Idle]
  /\ queue' = [c \in Channels |-> IF c = "subscriber" THEN <<>> ELSE queue[c]]
  /\ UNCHANGED <<rows, records, world>>

-----------------------------------------------------------------------------
Init ==
  /\ rows = [k \in Tokens |-> {}]
  /\ records = {}
  /\ installed = [a \in Apps |-> NoToken]
  /\ used = {}
  /\ queue = [c \in Channels |-> <<>>]
  /\ job = [c \in Channels |-> Idle]
  /\ clock = 0
  /\ events = 0
  /\ faults = 0
  /\ asked = [a \in Apps |-> {}]
  /\ early = {}

Work(c) ==
  \/ OnReceiveEvent(c) \/ RemoveBundlePolicy(c)
  \/ DeleteBundlePersistentPolicies(c) \/ SaveBundlePersistentPolicies(c)
  \/ FindBundleRecord(c) \/ HandleDuplicateBundleRecords(c)
  \/ GetPersistedPoliciesByTokenId(c) \/ RestoreBundlePersistentPolicies(c)
  \/ DbError(c)

Next ==
  \/ \E a \in Apps : Install(a) \/ Uninstall(a) \/ ClearData(a) \/ Persist(a)
  \/ \E c \in Channels : Work(c)
  \/ Tick
  \/ Crash

Spec == Init /\ [][Next]_vars

-----------------------------------------------------------------------------
(* Properties *)

TypeOK ==
  /\ rows \in [Tokens -> SUBSET Policies]
  /\ records \subseteq Records
  /\ installed \in [Apps -> Tokens \cup {NoToken}]
  /\ used \subseteq Tokens
  /\ queue \in [Channels -> Seq(Events)]
  /\ job \in [Channels -> Jobs \cup {Idle}]
  /\ clock \in 0..MaxTime
  /\ events \in 0..MaxEvents
  /\ faults \in 0..MaxFaults
  /\ asked \in [Apps -> SUBSET Policies]
  /\ early \subseteq Apps

TokensOf(a) == {k \in Tokens : Owner[k] = a}

(* No application inherits what another one persisted: whatever the order,    *)
(* duplication or loss of package events and whichever accesses fail, the     *)
(* rows of a token were persisted by the application the token is for.        *)
OnlyOwnPolicies == \A k \in Tokens : rows[k] \subseteq asked[Owner[k]]

(* Records name tokens of their own application, and so does a handler's copy *)
(* of one: with this OnlyOwnPolicies is inductive.                            *)
RecordsOwn ==
  /\ \A r \in records : Owner[r.orig] = r.app
  /\ \A a \in Apps : installed[a] # NoToken => Owner[installed[a]] = a
  /\ \A c \in Channels : \A i \in 1..Len(queue[c]) :
       Owner[queue[c][i].tok] = queue[c][i].app
  /\ \A c \in Channels : job[c] # Idle =>
       /\ Owner[job[c].ev.tok] = job[c].ev.app
       /\ job[c].pc \in {"dedupe", "read", "move"} =>
            Owner[job[c].chosen.orig] = job[c].ev.app

OwnInv == TypeOK /\ OnlyOwnPolicies /\ RecordsOwn

(* What an application that is preserved persisted is never lost from the     *)
(* table, not even by two channels that restore it at the same time, by a     *)
(* failing UPDATE or by a crash in between.                                   *)
PreservedNeverErased ==
  \A a \in Apps : PreserveConfig[a] = "true" =>
    asked[a] \subseteq UNION {rows[k] : k \in TokensOf(a)}

Quiet == \A c \in Channels : job[c] = Idle /\ queue[c] = <<>>

Followed(a) ==
  IF installed[a] # NoToken
  THEN asked[a] \subseteq rows[installed[a]]
  ELSE asked[a] # {} => \E r \in records : r.app = a /\ asked[a] \subseteq rows[r.orig]

(* All that a preserved application persisted belongs to its present token    *)
(* or, while it is removed, to the token the record names.                    *)
PreservedFollow ==
  \A a \in Apps \ early : PreserveConfig[a] = "true" => Followed(a)

(* An application that is not preserved has no row under a token of an        *)
(* earlier installation.                                                      *)
RemovedErased ==
  \A a \in Apps : PreserveConfig[a] = "false" =>
    \A k \in TokensOf(a) \ {installed[a]} : rows[k] = {}

(* Once every event is handled, all that a preserved application persisted    *)
(* belongs to its present token or, while it is removed, to the token the     *)
(* record names, however often it was removed, cleared and installed, if it   *)
(* never persisted before the event of its installation was handled; and an   *)
(* application that is not preserved has no row under a token of an earlier   *)
(* installation (README_zh.md: persistent rules hold until the application is *)
(* removed).  (One channel, no failing access.)                               *)
RowsFollowApplication == Quiet => PreservedFollow /\ RemovedErased
=============================================================================
