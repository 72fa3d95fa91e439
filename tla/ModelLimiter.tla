---------------------------- MODULE ModelLimiter ----------------------------
(***************************************************************************)
(* The concurrency governor of one model (internal/models/limiter).  Every *)
(* background call passes a gate: with Redis, a sorted set of leases that  *)
(* the holders' heartbeats renew; in Lite mode, a channel of the process.  *)
(* Whatever goes wrong opens the gate instead of blocking the call.        *)
(*                                                                         *)
(* The actions are those of one call; a module that has calls to make      *)
(* composes them with its own.  The key's own expiry is left out: it is    *)
(* pushed out with each lease, so it comes after the last one has lapsed.  *)
(***************************************************************************)
EXTENDS Integers, FiniteSets

CONSTANTS
  Calls,    \* calls of this model; each acquires with a token of its own
  Default,  \* the limit at start-up
  Limits    \* the limits an operator may set; zero and below: no limit

VARIABLES
  lite,     \* the process-local limiter is installed, not the Redis one
  limit,    \* governorN
  cap,      \* the capacity of Lite mode's channel, 0 before there is one
  gate,     \* each call: idle, waiting, holding a slot, let through, over
  asked,    \* the limit that each waiting call has read, else 0
  leases,   \* tokens in the sorted set whose score is in the future
  beats     \* tokens whose heartbeat will write once more

GateTypeOK ==
  /\ lite \in BOOLEAN
  /\ limit \in Limits \cup {Default} /\ cap \in Int
  /\ gate \in [Calls -> {"idle", "waiting", "held", "open", "over"}]
  /\ asked \in [Calls -> Int]
  /\ leases \in SUBSET Calls /\ beats \in SUBSET Calls

GateInit ==
  /\ lite \in BOOLEAN
  /\ limit = Default
  /\ cap = 0
  /\ gate = [c \in Calls |-> "idle"]
  /\ asked = [c \in Calls |-> 0]
  /\ leases = {} /\ beats = {}

Holders == {c \in Calls : gate[c] = "held"}

\* GateNamedN: read the limit; the local channel is made at its first use.
Enter(c) ==
  /\ gate[c] = "idle"
  /\ gate' = [gate EXCEPT ![c] = IF limit <= 0 THEN "open" ELSE "waiting"]
  /\ asked' = [asked EXCEPT ![c] = IF limit <= 0 THEN 0 ELSE limit]
  /\ cap' = IF lite /\ cap = 0 /\ limit > 0 THEN limit ELSE cap
  /\ UNCHANGED <<lite, limit, leases, beats>>

\* Faulty variant: a slot that nothing renews.
AdmitUnrenewed(c) ==
  /\ gate[c] = "waiting"
  /\ Cardinality(leases) < asked[c]
  /\ gate' = [gate EXCEPT ![c] = "held"]
  /\ leases' = leases \cup {c}
  /\ asked' = [asked EXCEPT ![c] = 0]
  /\ UNCHANGED <<lite, limit, cap, beats>>

\* The script finds room among the leases that have not lapsed; hold starts
\* the heartbeat.
AdmitRemote(c) ==
  /\ gate[c] = "waiting"
  /\ Cardinality(leases) < asked[c]
  /\ gate' = [gate EXCEPT ![c] = "held"]
  /\ leases' = leases \cup {c}
  /\ beats' = beats \cup {c}
  /\ asked' = [asked EXCEPT ![c] = 0]
  /\ UNCHANGED <<lite, limit, cap>>

\* The send on the channel succeeds.
AdmitLocal(c) ==
  /\ gate[c] = "waiting"
  /\ Cardinality(Holders) < cap
  /\ gate' = [gate EXCEPT ![c] = "held"]
  /\ asked' = [asked EXCEPT ![c] = 0]
  /\ UNCHANGED <<lite, limit, cap, leases, beats>>

Admit(c) == (lite /\ AdmitLocal(c)) \/ (~lite /\ AdmitRemote(c))

\* A Redis error, or the call's context is done: it goes through without a
\* slot, although the script may have run and its reply been lost.
LetThrough(c, ran) ==
  /\ gate[c] = "waiting"
  /\ gate' = [gate EXCEPT ![c] = "open"]
  /\ leases' = IF ran /\ Cardinality(leases) < asked[c] THEN leases \cup {c} ELSE leases
  /\ asked' = [asked EXCEPT ![c] = 0]
  /\ UNCHANGED <<lite, limit, cap, beats>>

\* release: stop the heartbeat, remove the token.  The removal may fail, and a
\* write of the heartbeat that is under way may come late, after it.
Release(c, removed, late) ==
  /\ gate[c] \in {"held", "open"}
  /\ gate' = [gate EXCEPT ![c] = "over"]
  /\ leases' = IF removed THEN leases \ {c} ELSE leases
  /\ beats' = IF late THEN beats ELSE beats \ {c}
  /\ UNCHANGED <<lite, limit, cap, asked>>

\* The process of the call dies, and its heartbeat with it.
Die(c) ==
  /\ gate' = [gate EXCEPT ![c] = "over"]
  /\ beats' = beats \ {c}
  /\ asked' = [asked EXCEPT ![c] = 0]
  /\ UNCHANGED <<lite, limit, cap, leases>>

\* Faulty variant: a heartbeat that does not see that it was stopped.
BeatOn(c) ==
  /\ c \in beats
  /\ leases' = leases \cup {c}
  /\ UNCHANGED <<lite, limit, cap, gate, asked, beats>>

\* A tick of the heartbeat: ZADD, also of a token that is no longer there.
Beat(c) ==
  /\ c \in beats
  /\ leases' = leases \cup {c}
  /\ beats' = IF gate[c] = "held" THEN beats ELSE beats \ {c}
  /\ UNCHANGED <<lite, limit, cap, gate, asked>>

\* The lease time passes without a heartbeat.
Lapse(c) ==
  /\ c \in leases \ beats
  /\ leases' = leases \ {c}
  /\ UNCHANGED <<lite, limit, cap, gate, asked, beats>>

\* The holder's process stands still, or its heartbeats fail, that long.
Stall(c) ==
  /\ c \in leases \cap beats
  /\ leases' = leases \ {c}
  /\ UNCHANGED <<lite, limit, cap, gate, asked, beats>>

\* SetGlobalLimit
SetGlobalLimit(n) ==
  /\ limit' = n
  /\ UNCHANGED <<lite, cap, gate, asked, leases, beats>>
=============================================================================
