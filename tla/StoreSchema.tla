---------------------------- MODULE StoreSchema ----------------------------
(***************************************************************************)
(* How a database comes to have its tables and its identity (Store::open,  *)
(* Store::migrate and Store::identity in store.rs).                        *)
(*                                                                         *)
(* migrate runs a batch of statements for each version the file lacks; the *)
(* last of a batch is the one that moves user_version.  A batch is not one *)
(* transaction: a process may die, or be told that the file is busy,       *)
(* between any two statements, and another process may be at it as well,   *)
(* for two games share one file.                                           *)
(***************************************************************************)
EXTENDS Integers, Sequences

CONSTANTS
    Openers,     \* processes that open the file
    Creates,     \* how many CREATE statements the batch of each version has
    NoKey,       \* no identity
    BadKey,      \* an identity row of the wrong length
    MaxLives,    \* bound on how often a process is started
    MaxFailures, \* bound on statements that fail
    MaxDamage    \* bound on identity rows that are damaged

ASSUME CreatesAssumption == Creates \in Seq(Nat \ {0})
ASSUME KeyAssumption == NoKey # BadKey /\ {NoKey, BadKey} \cap Nat = {}
ASSUME SchemaBoundsAssumption == MaxLives \in Nat /\ MaxFailures \in Nat /\ MaxDamage \in Nat

SchemaVersion == Len(Creates)
Versions == 1..SchemaVersion

VARIABLES
    userVersion, \* PRAGMA user_version
    created,     \* the tables and indexes of each version that exist
    secret,      \* the identity row
    minted,      \* SecretKey::generate: how many keys there are
    opener,      \* where Node::open of each process is
    saw,         \* the version migrate read
    batch,       \* the batch it is at...
    next,        \* ...and the statement
    identity,    \* the key the process runs with
    lives, failures, damage

schemaVars == <<userVersion, created, secret, minted, opener, saw, batch, next, identity,
                lives, failures, damage>>
fileVars == <<userVersion, created, secret, minted>>
atVars == <<saw, batch, next>>

(* A file an earlier release made, or none.                                *)
SchemaInit ==
    /\ userVersion \in 0..SchemaVersion
    /\ created = [v \in Versions |-> IF v <= userVersion THEN Creates[v] ELSE 0]
    /\ secret \in {NoKey} \cup (IF userVersion > 0 THEN {1} ELSE {})
    /\ minted = 1
    /\ opener = [p \in Openers |-> "off"]
    /\ saw = [p \in Openers |-> 0] /\ batch = [p \in Openers |-> 1] /\ next = [p \in Openers |-> 1]
    /\ identity = [p \in Openers |-> NoKey]
    /\ lives = 0 /\ failures = 0 /\ damage = 0

OpenerGoes(p, from, to) == opener[p] = from /\ opener' = [opener EXCEPT ![p] = to]

-----------------------------------------------------------------------------
(* Store::open reads the version once, whatever it is by the next line.    *)
OpenStore(p) ==
    /\ lives < MaxLives /\ lives' = lives + 1
    /\ OpenerGoes(p, "off", "migrate")
    /\ saw' = [saw EXCEPT ![p] = userVersion]
    /\ batch' = [batch EXCEPT ![p] = 1] /\ next' = [next EXCEPT ![p] = 1]
    /\ UNCHANGED <<fileVars, identity, failures, damage>>

SkipBatch(p) ==
    /\ opener[p] = "migrate" /\ batch[p] \in Versions /\ saw[p] >= batch[p]
    /\ batch' = [batch EXCEPT ![p] = @ + 1]
    /\ UNCHANGED <<fileVars, opener, saw, next, identity, lives, failures, damage>>

InBatch(p) == opener[p] = "migrate" /\ batch[p] \in Versions /\ saw[p] < batch[p]

(* Mutation: the batch moves the version first.                            *)
VersionFirst(p) ==
    /\ InBatch(p)
    /\ next' = [next EXCEPT ![p] = IF @ > Creates[batch[p]] THEN 1 ELSE @ + 1]
    /\ batch' = [batch EXCEPT ![p] = IF next[p] > Creates[@] THEN @ + 1 ELSE @]
    /\ userVersion' = IF next[p] = 1 THEN batch[p] ELSE userVersion
    /\ created' = [created EXCEPT ![batch[p]] = IF next[p] > @ + 1 THEN @ + 1 ELSE @]
    /\ UNCHANGED <<secret, minted, opener, saw, identity, lives, failures, damage>>

(* One statement of execute_batch: CREATE ... IF NOT EXISTS, or the pragma.*)
Statement(p) ==
    /\ InBatch(p)
    /\ LET v == batch[p] IN
       IF next[p] <= Creates[v]
       THEN /\ created' = [created EXCEPT ![v] = IF next[p] > @ THEN next[p] ELSE @]
            /\ next' = [next EXCEPT ![p] = @ + 1]
            /\ UNCHANGED <<userVersion, batch>>
       ELSE /\ userVersion' = v
            /\ batch' = [batch EXCEPT ![p] = v + 1] /\ next' = [next EXCEPT ![p] = 1]
            /\ UNCHANGED created
    /\ UNCHANGED <<secret, minted, opener, saw, identity, lives, failures, damage>>

Migrated(p) ==
    /\ batch[p] > SchemaVersion
    /\ OpenerGoes(p, "migrate", "identity")
    /\ UNCHANGED <<fileVars, atVars, identity, lives, failures, damage>>

-----------------------------------------------------------------------------
(* Store::identity: a key that is there...                                 *)
ReadKey(p) ==
    /\ secret \notin {NoKey, BadKey}
    /\ OpenerGoes(p, "identity", "open")
    /\ identity' = [identity EXCEPT ![p] = secret]
    /\ UNCHANGED <<fileVars, atVars, lives, failures, damage>>

(* ...or none, or a damaged one, to be deleted...                          *)
NoKeyYet(p) ==
    /\ secret = NoKey
    /\ OpenerGoes(p, "identity", "mint")
    /\ UNCHANGED <<fileVars, atVars, identity, lives, failures, damage>>

FindBadKey(p) ==
    /\ secret = BadKey
    /\ OpenerGoes(p, "identity", "delete")
    /\ UNCHANGED <<fileVars, atVars, identity, lives, failures, damage>>

DeleteKey(p) ==
    /\ OpenerGoes(p, "delete", "mint")
    /\ secret' = NoKey
    /\ UNCHANGED <<userVersion, created, minted, atVars, identity, lives, failures, damage>>

(* Mutation: INSERT OR REPLACE.                                            *)
ReplaceKey(p) ==
    /\ minted' = minted + 1
    /\ OpenerGoes(p, "mint", "open")
    /\ secret' = minted' /\ identity' = [identity EXCEPT ![p] = minted']
    /\ UNCHANGED <<userVersion, created, atVars, lives, failures, damage>>

(* ...and a new one, unless somebody else's is there by now: the row's id  *)
(* is 1, and the INSERT fails.                                             *)
MintKey(p) ==
    /\ minted' = minted + 1
    /\ \/ /\ secret = NoKey
          /\ OpenerGoes(p, "mint", "open")
          /\ secret' = minted' /\ identity' = [identity EXCEPT ![p] = minted']
       \/ /\ secret # NoKey
          /\ OpenerGoes(p, "mint", "off")
          /\ UNCHANGED <<secret, identity>>
    /\ UNCHANGED <<userVersion, created, atVars, lives, failures, damage>>

(* A statement fails (the file is busy), and with it Node::open.           *)
StatementFails(p) ==
    /\ failures < MaxFailures /\ failures' = failures + 1
    /\ opener[p] \notin {"off", "open"}
    /\ opener' = [opener EXCEPT ![p] = "off"]
    /\ UNCHANGED <<fileVars, atVars, identity, lives, damage>>

(* The process dies or the node closes, anywhere.                          *)
OpenerDies(p) ==
    /\ opener[p] # "off"
    /\ opener' = [opener EXCEPT ![p] = "off"]
    /\ identity' = [identity EXCEPT ![p] = NoKey]
    /\ UNCHANGED <<fileVars, atVars, lives, failures, damage>>

Damage ==
    /\ damage < MaxDamage /\ secret # NoKey
    /\ damage' = damage + 1
    /\ secret' = BadKey
    /\ UNCHANGED <<userVersion, created, minted, opener, atVars, identity, lives, failures>>

SchemaNext ==
    \/ \E p \in Openers :
         \/ OpenStore(p) \/ SkipBatch(p) \/ Statement(p) \/ Migrated(p)
         \/ ReadKey(p) \/ NoKeyYet(p) \/ FindBadKey(p) \/ DeleteKey(p) \/ MintKey(p)
         \/ StatementFails(p) \/ OpenerDies(p)
    \/ Damage

SchemaSpec == SchemaInit /\ [][SchemaNext]_schemaVars

-----------------------------------------------------------------------------
SchemaTypeOK ==
    /\ userVersion \in 0..SchemaVersion
    /\ created \in [Versions -> Nat] /\ \A v \in Versions : created[v] <= Creates[v]
    /\ minted \in Nat /\ secret \in {NoKey, BadKey} \cup 1..minted
    /\ opener \in [Openers -> {"off", "migrate", "identity", "delete", "mint", "open"}]
    /\ saw \in [Openers -> 0..SchemaVersion] /\ batch \in [Openers -> 1..SchemaVersion + 1]
    /\ next \in [Openers -> Nat \ {0}]
    /\ identity \in [Openers -> {NoKey} \cup 1..minted]
    /\ lives \in 0..MaxLives /\ failures \in 0..MaxFailures /\ damage \in 0..MaxDamage

(* Whoever is past migrate has every table, and a file never claims a      *)
(* version some table of which it lacks: a process that died half way, or  *)
(* one that moved the version back under another, leaves a file the next   *)
(* one completes (store.rs:108, IF NOT EXISTS).                            *)
SchemaComplete ==
    /\ \A v \in Versions : v <= userVersion => created[v] = Creates[v]
    /\ \A p \in Openers :
        opener[p] \in {"identity", "delete", "mint", "open"} => \A v \in Versions : created[v] = Creates[v]

(* As long as no row is damaged, every process runs with the key that is   *)
(* on the disk ("a player's node id must survive a restart").              *)
IdentityKept == damage = 0 => \A p \in Openers : identity[p] \in {NoKey, secret}

(* A file that was opened can be relied on, whatever happened before.      *)
StoreSound == SchemaComplete /\ IdentityKept
=============================================================================
