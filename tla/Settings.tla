------------------------------ MODULE Settings ------------------------------
(***************************************************************************)
(* Secrets and feature flags, app/secret_store.py and                      *)
(* app/feature_flags.py: a row of the database overrides the environment,  *)
(* and every process caches what it has read until it is restarted or      *)
(* saves a value itself.                                                   *)
(*                                                                         *)
(* A reader fills the cache in a step after the one in which it read; a    *)
(* save empties it in a step after its commit.  One setting.               *)
(***************************************************************************)
EXTENDS Integers, FiniteSets

CONSTANTS
    Hosts,       \* processes
    Threads,     \* threads, of which each serves one request at a time
    HostOf(_),   \* the process of a thread
    Values,      \* values the admin may save
    FromEnv      \* what the environment or the default says

ASSUME SettingsAssumption == FromEnv \notin Values /\ \A t \in Threads : HostOf(t) \in Hosts

NoValue == "none"

VARIABLES
    stored,   \* the row of secrets, NoValue when there is none
    cached,   \* cached[h]: _cache of process h
    thread,   \* thread[t]: what thread t is at
    \* History, read by the properties only:
    behind    \* processes that need not know the stored value

settingVars == <<stored, cached, thread, behind>>

Resting == [at |-> "rest", value |-> NoValue]

Effective == IF stored = NoValue THEN FromEnv ELSE stored
Others(t) == {u \in Threads \ {t} : HostOf(u) = HostOf(t)}

SettingsTypeOK ==
    /\ stored \in Values \union {NoValue}
    /\ cached \in [Hosts -> Values \union {NoValue, FromEnv}]
    /\ thread \in [Threads -> [at : {"rest", "read", "saved"},
                               value : Values \union {NoValue, FromEnv}]]
    /\ behind \subseteq Hosts

SettingsInit ==
    /\ stored = NoValue
    /\ cached = [h \in Hosts |-> NoValue]
    /\ thread = [t \in Threads |-> Resting]
    /\ behind = {}

-----------------------------------------------------------------------------
\* get_secret finds nothing in the cache and asks the database; an error is as no row.
ReadSetting(t, fails) ==
    LET value == IF fails THEN FromEnv ELSE Effective
    IN  /\ thread[t] = Resting
        /\ cached[HostOf(t)] = NoValue
        /\ thread' = [thread EXCEPT ![t] = [at |-> "read", value |-> value]]
        /\ behind' = IF value # Effective THEN behind \union {HostOf(t)} ELSE behind
        /\ UNCHANGED <<stored, cached>>

FillCache(t) ==
    /\ thread[t].at = "read"
    /\ cached' = [cached EXCEPT ![HostOf(t)] = thread[t].value]
    /\ thread' = [thread EXCEPT ![t] = Resting]
    /\ UNCHANGED <<stored, behind>>

\* set_secret commits; an empty value deletes the row.
SaveSetting(t, value) ==
    /\ thread[t] = Resting
    /\ stored' = value
    /\ thread' = [thread EXCEPT ![t] = [at |-> "saved", value |-> value]]
    /\ behind' = Hosts
    /\ UNCHANGED cached

\* A fault: the cache is kept when the row was deleted.
KeptIfCleared(t) == IF thread[t].value = NoValue THEN cached[HostOf(t)] ELSE NoValue

\* invalidate_cache
Emptied(t) == NoValue

Invalidate(t) ==
    /\ thread[t].at = "saved"
    /\ cached' = [cached EXCEPT ![HostOf(t)] = Emptied(t)]
    /\ thread' = [thread EXCEPT ![t] = Resting]
    /\ behind' = IF \A u \in Others(t) : thread[u].at = "rest"
                 THEN behind \ {HostOf(t)} ELSE behind
    /\ UNCHANGED stored

\* A process is restarted, or dies with the requests in it.
RestartHost(h) ==
    /\ cached' = [cached EXCEPT ![h] = NoValue]
    /\ thread' = [t \in Threads |-> IF HostOf(t) = h THEN Resting ELSE thread[t]]
    /\ behind' = behind \ {h}
    /\ UNCHANGED stored

SettingsNext ==
    \/ \E t \in Threads :
          \/ \E fails \in BOOLEAN : ReadSetting(t, fails)
          \/ FillCache(t)
          \/ \E value \in Values \union {NoValue} : SaveSetting(t, value)
          \/ Invalidate(t)
    \/ \E h \in Hosts : RestartHost(h)

SettingsSpec == SettingsInit /\ [][SettingsNext]_settingVars

-----------------------------------------------------------------------------
\* "Clearing a DB row reverts to env", "toggle without a deploy": a process that has saved
\* a setting, or was restarted since the last save, uses the stored one; unless it was
\* reading when the cache was emptied, or once found the database away.
SavedIsUsed == \A h \in Hosts : cached[h] \notin {NoValue, Effective} => h \in behind
=============================================================================
