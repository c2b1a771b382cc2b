------------------------------- MODULE KvStore -------------------------------
(***************************************************************************)
(* The kv_store table: entries with a time to live, written through the    *)
(* connection all coroutines share.  AdminSession and SessionAffinity build*)
(* their calls from these statements.                                      *)
(***************************************************************************)
EXTENDS Naturals

CONSTANTS
    Key,      \* keys of one prefix: tokens, or session ids
    Value,
    NoValue,
    Ttl,      \* ttl_seconds, in ticks
    MaxTime   \* bound: ticks the clock makes

ASSUME KvAssumption == NoValue \notin Value /\ Ttl \in Nat \ {0} /\ MaxTime \in Nat

VARIABLES
    kv,       \* the entries every statement sees
    kvDisk,   \* the entries as of the last commit
    now       \* time()

kvVars == <<kv, kvDisk, now>>

Entry == [value : Value, expires_at : 0..(MaxTime + Ttl)]
NoEntry == [value |-> NoValue, expires_at |-> 0]

KvTypeOK ==
    /\ kv \in [Key -> Entry \cup {NoEntry}]
    /\ kvDisk \in [Key -> Entry \cup {NoEntry}]
    /\ now \in 0..MaxTime

KvInit ==
    /\ kv = [k \in Key |-> NoEntry]
    /\ kvDisk = [k \in Key |-> NoEntry]
    /\ now = 0

\* INSERT OR REPLACE INTO kv_store
PutEntry(k, value, expires_at) ==
    /\ kv' = [kv EXCEPT ![k] = [value |-> value, expires_at |-> expires_at]]
    /\ UNCHANGED <<kvDisk, now>>

\* DELETE FROM kv_store WHERE key = ?
DropEntry(k) ==
    /\ kv' = [kv EXCEPT ![k] = NoEntry]
    /\ UNCHANGED <<kvDisk, now>>

CommitEntries ==
    /\ kvDisk' = kv
    /\ UNCHANGED <<kv, now>>

\* An entry read at time t is past its end: strictly, in the code.
PastEnd(entry, t) == entry.expires_at < t

Tick ==
    /\ now < MaxTime
    /\ now' = now + 1
    /\ UNCHANGED <<kv, kvDisk>>

\* The process dies: the open transaction is rolled back.
LoseUncommitted ==
    /\ kv' = kvDisk
    /\ UNCHANGED <<kvDisk, now>>
=============================================================================
