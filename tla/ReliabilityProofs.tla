-------------------------- MODULE ReliabilityProofs --------------------------
(***************************************************************************)
(* Proofs about calls that fail, are repeated or come late: the circuit    *)
(* breaker, the idempotency of requests, and the outbox relay with the     *)
(* event bus.  The three systems share no state; each part uses the        *)
(* definitions of its own module only.                                     *)
(***************************************************************************)
EXTENDS CircuitBreaker, Idempotency, Delivery, TLAPS, SequenceTheorems,
        FiniteSetTheorems

(***************************************************************************)
(* CircuitBreaker, for any number of threads and any threshold.            *)
(***************************************************************************)
(* A half-open breaker has timed out, or a probe could run too early.      *)
ProbeInTime == state = "HALF_OPEN" => expired

(* The two properties, the types and the state a probe is made in are      *)
(* inductive together.                                                     *)
BreakerInv == BreakerTypeOK /\ CountMatchesState /\ OpenAdmitsNobody /\ ProbeInTime

(* A new breaker is closed with nothing on its account.                    *)
LEMMA InitBreaker == BreakerInit => BreakerInv
<1> SUFFICES ASSUME BreakerInit PROVE BreakerInv
  OBVIOUS
<1>1. failure_count \in 0 .. CountCap /\ failure_count < Threshold
  BY BreakerAssumption DEF BreakerInit
<1>2. BreakerTypeOK
  BY <1>1, Zenon DEF BreakerInit, BreakerTypeOK
<1>3. CountMatchesState /\ OpenAdmitsNobody /\ ProbeInTime
  BY <1>1 DEF BreakerInit, CountMatchesState, OpenAdmitsNobody, ProbeInTime
<1> QED
  BY <1>2, <1>3 DEF BreakerInv

(* Every step of every thread keeps the two fields in agreement.           *)
LEMMA NextBreaker == BreakerInv /\ [BreakerNext]_breakerVars => BreakerInv'
<1> SUFFICES ASSUME BreakerInv, [BreakerNext]_breakerVars PROVE BreakerInv'
  OBVIOUS
<1> USE BreakerAssumption DEF BreakerInv, BreakerTypeOK, CountMatchesState, OpenAdmitsNobody, ProbeInTime
<1>1. ASSUME NEW t \in Threads, Call(t) PROVE BreakerInv'
  BY <1>1 DEF Call, Enter
<1>2. ASSUME NEW t \in Threads, Reject(t) PROVE BreakerInv'
  BY <1>2 DEF Reject, breakerVars, fields
<1>3. ASSUME NEW t \in Threads, OnSuccess(t) PROVE BreakerInv'
  BY <1>3 DEF OnSuccess, Enter
<1>4. ASSUME NEW t \in Threads, OnFailure(t) PROVE BreakerInv'
  <2>1. Counted \in 0 .. CountCap /\ (failure_count >= Threshold => Counted >= Threshold)
    BY DEF Counted
  <2>2. state = "HALF_OPEN" => Counted >= Threshold
    BY <2>1
  <2>3. CASE Counted >= Threshold
    <3>1. state' = "OPEN" /\ failure_count' = Counted /\ since' = {}
      BY <1>4, <2>3 DEF OnFailure
    <3>2. /\ expired' \in BOOLEAN /\ healthy' \in BOOLEAN /\ since' \subseteq Threads
          /\ phase' \in [Threads -> {"idle", "operation", "succeeded", "failed"}]
      BY <1>4 DEF OnFailure, Enter
    <3> QED
      BY <2>1, <2>3, <3>1, <3>2
  <2>4. CASE Counted < Threshold
    <3>1. state' = state /\ failure_count' = Counted /\ since' = since
      BY <1>4, <2>1, <2>2, <2>4 DEF OnFailure
    <3>2. state = "CLOSED"
      BY <2>1, <2>2, <2>4
    <3>3. /\ expired' \in BOOLEAN /\ healthy' \in BOOLEAN /\ since' \subseteq Threads
          /\ phase' \in [Threads -> {"idle", "operation", "succeeded", "failed"}]
      BY <1>4 DEF OnFailure, Enter
    <3> QED
      BY <2>1, <2>4, <3>1, <3>2, <3>3
  <2> QED
    BY <2>1, <2>3, <2>4
<1>5. ASSUME NEW t \in Threads, Operation(t) \/ Unexpected(t) PROVE BreakerInv'
  BY <1>5 DEF Operation, Unexpected, fields, Enter
<1>6. CASE Timeout
  BY <1>6 DEF Timeout
<1>7. CASE Dependency
  BY <1>7 DEF Dependency, fields
<1>8. CASE UNCHANGED breakerVars
  BY <1>8 DEF breakerVars, fields
<1> QED
  BY <1>1, <1>2, <1>3, <1>4, <1>5, <1>6, <1>7, <1>8 DEF BreakerNext, Proceed

(* For any number of threads and in any order of their outcomes the        *)
(* breaker is closed exactly while its count is below failure_threshold.   *)
THEOREM CountDecides == BreakerSpec => []CountMatchesState
<1>1. BreakerSpec => []BreakerInv
  BY InitBreaker, NextBreaker, PTL DEF BreakerSpec
<1> QED
  BY <1>1, PTL DEF BreakerInv

(* For any number of threads no operation is admitted between a trip and   *)
(* the end of its recovery timeout.                                        *)
THEOREM OpenFailsFast == BreakerSpec => []OpenAdmitsNobody
<1>1. BreakerSpec => []BreakerInv
  BY InitBreaker, NextBreaker, PTL DEF BreakerSpec
<1> QED
  BY <1>1, PTL DEF BreakerInv

(***************************************************************************)
(* Idempotency, for any number of processes, keys and retries.  The        *)
(* invariant follows a key in one process: while nothing excuses it, the   *)
(* request that executes owns the entry, and an operation that took effect *)
(* is either about to be recorded or recorded.                             *)
(***************************************************************************)
(* Request r is between set_in_progress and its answer.                    *)
Holder(p, k, r) == pc[r] \in Busy /\ proc[r] = p /\ key[r] = k

HolderOwns ==
    \A p \in Processes, k \in Keys, r \in Requests :
        ~ excused[p][k] /\ Holder(p, k, r) =>
            /\ store[p][k] # None
            /\ store[p][k].status = "IN_PROGRESS"
            /\ store[p][k].body = r
            /\ store[p][k].live

EffectRecorded ==
    \A p \in Processes, k \in Keys : ~ excused[p][k] =>
        \A r \in window[p][k] :
            \/ Holder(p, k, r) /\ pc[r] = "complete"
            \/ /\ store[p][k] # None
               /\ store[p][k].status = "COMPLETED"
               /\ store[p][k].body = r
               /\ store[p][k].live

(* A record in a store is the result of an answered request.               *)
RecordGenuine ==
    \A p \in Processes, k \in Keys :
        store[p][k] # None /\ store[p][k].status = "COMPLETED" =>
            key[store[p][k].body] = k /\ pc[store[p][k].body] = "done"

(* A request that returned says what it did.                               *)
Truthful(r) ==
    pc[r] \in {"complete", "done"} =>
        result[r] = IF r \in took THEN "COMPLETED" ELSE "FAILED"

(* Nothing has happened before the operation is called.                    *)
Untouched(r) == pc[r] \in {"idle", "acquire", "execute"} => r \notin took

Answers == \A r \in Requests : Truthful(r) /\ Untouched(r)

(* A replay is of an answered request with the same key.                   *)
ReplayOfAnswer ==
    \A r \in Requests :
        pc[r] = "replayed" =>
            body[r] # None /\ key[body[r]] = key[r] /\ pc[body[r]] = "done"

(* A request that is past get has a process.                               *)
Served ==
    \A r \in Requests : pc[r] \in Busy \cup {"acquire"} => proc[r] \in Processes

TypeInv == TypeOK /\ Served

IInv == TypeInv /\ HolderOwns /\ EffectRecorded

GInv == TypeInv /\ RecordGenuine /\ ReplayOfAnswer /\ Answers

(* Writing one cell of a table indexed by process and key.                 *)
LEMMA Nested ==
    ASSUME NEW S, NEW f \in [Processes -> [Keys -> S]],
           NEW p \in Processes, NEW k \in Keys, NEW v \in S
    PROVE  [f EXCEPT ![p][k] = v] \in [Processes -> [Keys -> S]]
    OBVIOUS

Stores == [Processes -> [Keys -> Entry \cup {None}]]

(* The stores and the requests keep their types.                           *)
LEMMA TypeStep == TypeInv /\ [Next]_vars => TypeInv'
<1> SUFFICES ASSUME TypeOK, Served, [Next]_vars PROVE TypeOK' /\ Served'
    BY DEF TypeInv
<1> USE IdempotencyAssumption DEF Busy
<1>e. \A r \in Requests, st \in {"IN_PROGRESS", "COMPLETED"} :
         [status |-> st, body |-> r, live |-> TRUE] \in Entry
    BY DEF Entry
<1>x. \A e \in Entry :
         e.body \in Requests /\ [e EXCEPT !.live = FALSE] \in Entry
    BY DEF Entry
<1>n. /\ store \in Stores
      /\ None \in Entry \cup {None}
      /\ \A p \in Processes, k \in Keys : store[p][k] \in Entry \cup {None}
    BY DEF TypeOK, Stores
<1>c. \A p \in Processes, k \in Keys :
         \A e \in Entry \cup {None} : [store EXCEPT ![p][k] = e] \in Stores
    BY <1>n, Nested DEF Stores
<1>1. ASSUME NEW r \in Requests, NEW p \in Processes, Get(r, p) PROVE TypeOK' /\ Served'
    <2>1. store' \in Stores
        BY <1>1, <1>c, <1>n DEF Get
    <2>2. body' \in [Requests -> Requests \cup {None}]
        <3>1. CASE Live(p, key[r]) /\ store[p][key[r]].status = "COMPLETED"
            <4>1. store[p][key[r]] \in Entry
                BY <3>1, <1>n DEF Live
            <4> QED BY <1>1, <3>1, <4>1, <1>x DEF Get, TypeOK, Served
        <3>2. CASE ~ (Live(p, key[r]) /\ store[p][key[r]].status = "COMPLETED")
            BY <1>1, <3>2 DEF Get, TypeOK, Served
        <3> QED BY <3>1, <3>2
    <2> QED BY <1>1, <2>1, <2>2 DEF Get, Goto, TypeOK, Served, Stores, told, ghosts, counters
<1>2. ASSUME NEW r \in Requests, Step(r) PROVE TypeOK' /\ Served'
    <2> USE DEF Goto, told, ghosts, counters
    <2>1. CASE SetInProgress(r)
        <3>1. store' \in Stores
            <4>1. CASE Live(proc[r], key[r])
                BY <2>1, <4>1, <1>n DEF SetInProgress
            <4>2. CASE ~ Live(proc[r], key[r])
                <5>1. proc[r] \in Processes /\ key[r] \in Keys
                    BY <2>1 DEF SetInProgress, Served
                <5>2. [status |-> "IN_PROGRESS", body |-> r, live |-> TRUE] \in Entry
                    BY <1>e
                <5>3. store' = [store EXCEPT ![proc[r]][key[r]] =
                          [status |-> "IN_PROGRESS", body |-> r, live |-> TRUE]]
                    BY <2>1, <4>2 DEF SetInProgress
                <5> QED BY <5>1, <5>2, <5>3, <1>c
            <4> QED BY <4>1, <4>2
        <3> QED BY <2>1, <3>1 DEF SetInProgress, TypeOK, Served, Stores
    <2>w. ASSUME Effect(r),
                 proc[r] \in Processes
          PROVE  /\ window' \in [Processes -> [Keys -> SUBSET Requests]]
                 /\ took' \subseteq Requests
        BY <2>w DEF Effect, TypeOK
    <2>2. CASE Execute(r)
        BY <2>2, <2>w DEF Execute, TypeOK, Served
    <2>3. CASE ExecuteFails(r) \/ ExecuteRefused(r)
        BY <2>3 DEF ExecuteFails, ExecuteRefused, TypeOK, Served
    <2>4. CASE ExecuteFailsLate(r)
        BY <2>4, <2>w DEF ExecuteFailsLate, TypeOK, Served
    <2>5. CASE SetCompleted(r)
        <3>1. store' \in Stores
            BY <2>5, <1>c, <1>e DEF SetCompleted, Served
        <3> QED BY <2>5, <3>1 DEF SetCompleted, TypeOK, Served, Stores
    <2>6. CASE Clear(r)
        BY <2>6 DEF Clear, TypeOK, Served
    <2> QED BY <1>2, <2>1, <2>2, <2>3, <2>4, <2>5, <2>6 DEF Step
<1>3. ASSUME NEW p \in Processes, NEW k \in Keys, LeaseExpires(p, k)
      PROVE  TypeOK' /\ Served'
    <2>1. store' \in Stores
        <3>1. store[p][k] \in Entry
            BY <1>3, <1>n DEF LeaseExpires, Live
        <3> QED BY <1>3, <3>1, <1>x, <1>c DEF LeaseExpires
    <2> QED BY <1>3, <2>1 DEF LeaseExpires, told, TypeOK, Served, Stores
<1>4. ASSUME NEW p \in Processes, NEW k \in Keys, RecordExpires(p, k)
      PROVE  TypeOK' /\ Served'
    <2>1. store' \in Stores
        <3>1. store[p][k] \in Entry
            BY <1>4, <1>n DEF RecordExpires, Live
        <3> QED BY <1>4, <3>1, <1>x, <1>c DEF RecordExpires
    <2> QED BY <1>4, <2>1 DEF RecordExpires, TypeOK, Served, Stores, told, counters
<1>5. ASSUME NEW p \in Processes, Restart(p) PROVE TypeOK' /\ Served'
    BY <1>5 DEF Restart, told, TypeOK, Served
<1>6. CASE UNCHANGED vars
    BY <1>6 DEF vars, told, ghosts, counters, TypeOK, Served
<1> QED BY <1>1, <1>2, <1>3, <1>4, <1>5, <1>6 DEF Next

(* What the writing operations of the store leave in it.                   *)
LEMMA Cell ==
    ASSUME NEW S, NEW f \in [Processes -> [Keys -> S]],
           NEW p \in Processes, NEW k \in Keys, NEW v
    PROVE  \A q \in Processes, l \in Keys :
              [f EXCEPT ![p][k] = v][q][l] = IF q = p /\ l = k THEN v ELSE f[q][l]
    OBVIOUS

(* get drops an entry that has expired, and nothing else.                  *)
LEMMA GetStore ==
    ASSUME TypeInv, NEW r \in Requests, NEW p \in Processes, Get(r, p),
           ~ Live(p, key[r])
    PROVE  \A q \in Processes, l \in Keys :
              store'[q][l] = IF q = p /\ l = key[r] THEN None ELSE store[q][l]
<1>1. store \in [Processes -> [Keys -> Entry \cup {None}]] /\ key[r] \in Keys
    BY IdempotencyAssumption DEF TypeInv, TypeOK
<1>2. store' = [store EXCEPT ![p][key[r]] = None]
    BY DEF Get
<1> QED BY ONLY <1>1, <1>2, Cell

Taken(r) == [status |-> "IN_PROGRESS", body |-> r, live |-> TRUE]
Recorded(r) == [status |-> "COMPLETED", body |-> r, live |-> TRUE]

(* set_in_progress adds the entry of the caller.                           *)
LEMMA SetInProgressStore ==
    ASSUME TypeInv, NEW r \in Requests, SetInProgress(r),
           ~ Live(proc[r], key[r])
    PROVE  \A q \in Processes, l \in Keys :
              store'[q][l] = IF q = proc[r] /\ l = key[r] THEN Taken(r)
                                                          ELSE store[q][l]
<1>1. /\ store \in [Processes -> [Keys -> Entry \cup {None}]]
      /\ key[r] \in Keys /\ proc[r] \in Processes
    BY IdempotencyAssumption DEF TypeInv, TypeOK, Served, SetInProgress
<1>2. store' = [store EXCEPT ![proc[r]][key[r]] = Taken(r)]
    BY DEF SetInProgress, Taken
<1> QED BY ONLY <1>1, <1>2, Cell

(* set_completed replaces it by the response of the caller.                *)
LEMMA SetCompletedStore ==
    ASSUME TypeInv, NEW r \in Requests, SetCompleted(r)
    PROVE  \A q \in Processes, l \in Keys :
              store'[q][l] = IF q = proc[r] /\ l = key[r] THEN Recorded(r)
                                                          ELSE store[q][l]
<1>1. /\ store \in [Processes -> [Keys -> Entry \cup {None}]]
      /\ key[r] \in Keys /\ proc[r] \in Processes
    BY IdempotencyAssumption DEF TypeInv, TypeOK, Served, SetCompleted, Busy
<1>2. store' = [store EXCEPT ![proc[r]][key[r]] = Recorded(r)]
    BY DEF SetCompleted, Recorded
<1> QED BY ONLY <1>1, <1>2, Cell

(* An entry written is an entry.                                           *)
LEMMA EntryNotNone ==
    ASSUME NEW r \in Requests
    PROVE  Taken(r) # None /\ Recorded(r) # None
<1>1. Taken(r) \in Entry /\ Recorded(r) \in Entry
    BY DEF Taken, Recorded, Entry
<1> QED BY <1>1, IdempotencyAssumption

(* The stores are empty at the start.                                      *)
LEMMA TypeInit == Init => TypeInv
    BY IdempotencyAssumption DEF Init, TypeInv, TypeOK, Served, Busy

(* Two operations of an unexcused key that took effect in one process are  *)
(* one: each is the body of the entry.                                     *)
LEMMA InvImplies == IInv => OncePerProcess
<1> SUFFICES ASSUME IInv,
                    NEW p \in Processes, NEW k \in Keys, ~ excused[p][k],
                    NEW r \in window[p][k], NEW s \in window[p][k]
             PROVE  r = s
    BY DEF OncePerProcess
<1>1. r \in Requests /\ s \in Requests
    BY DEF IInv, TypeInv, TypeOK
<1>2. \A q \in {r, s} :
        \/ /\ store[p][k].status = "IN_PROGRESS" /\ store[p][k].body = q
        \/ /\ store[p][k].status = "COMPLETED" /\ store[p][k].body = q
    BY <1>1 DEF IInv, HolderOwns, EffectRecorded, Holder
<1> QED BY <1>2

(* Nothing has taken effect at the start.                                  *)
LEMMA InvInit == Init => IInv
    BY TypeInit DEF Init, IInv, HolderOwns, EffectRecorded, Holder, Busy

(* One case for each action of the handler, the clock and the processes.   *)
LEMMA InvStep == IInv /\ [Next]_vars => IInv'
<1> SUFFICES ASSUME IInv, [Next]_vars PROVE IInv'
    OBVIOUS
<1>t. TypeInv /\ TypeInv'
    BY TypeStep DEF IInv
<1> SUFFICES HolderOwns' /\ EffectRecorded'
    BY <1>t DEF IInv
<1> USE IdempotencyAssumption, <1>t
    DEF IInv, TypeInv, TypeOK, Served, HolderOwns, EffectRecorded, Holder, Busy, Entry, Goto
<1>1. ASSUME NEW r \in Requests, NEW p \in Processes, Get(r, p)
      PROVE  HolderOwns' /\ EffectRecorded'
    <2>1. CASE Live(p, key[r])
        BY <1>1, <2>1 DEF Get, Live, told, ghosts, counters
    <2>2. CASE ~ Live(p, key[r])
        <3>1. HolderOwns'
            BY <1>1, <2>2 DEF Get, Live, told, ghosts, counters
        <3>2. EffectRecorded'
            BY <1>1, <2>2 DEF Get, Live, told, ghosts, counters
        <3> QED BY <3>1, <3>2
    <2> QED BY <2>1, <2>2
<1>2. ASSUME NEW r \in Requests, Step(r)
      PROVE  HolderOwns' /\ EffectRecorded'
    <2> USE DEF told, ghosts, counters
    <2>1. CASE SetInProgress(r)
        <3>1. HolderOwns'
            <4>1. CASE Live(proc[r], key[r])
                BY <2>1, <4>1 DEF SetInProgress
            <4>2. CASE ~ Live(proc[r], key[r])
                <5> SUFFICES ASSUME NEW p \in Processes, NEW k \in Keys,
                                    NEW s \in Requests, ~ excused[p][k],
                                    Holder(p, k, s)'
                             PROVE  /\ store'[p][k] # None
                                    /\ store'[p][k].status = "IN_PROGRESS"
                                    /\ store'[p][k].body = s
                                    /\ store'[p][k].live
                    BY <2>1 DEF SetInProgress
                <5>1. CASE s = r
                    <6>1. proc'[r] = p /\ proc[r] = p /\ key[r] = k
                        BY <2>1, <5>1 DEF SetInProgress
                    <6>2. store'[p][k] = Taken(r)
                        BY <2>1, <4>2, <6>1, SetInProgressStore
                    <6> QED BY <5>1, <6>2, EntryNotNone DEF Taken
                <5>2. CASE s # r
                    <6>1. Holder(p, k, s)
                        BY <2>1, <5>2 DEF SetInProgress
                    <6>2. ~ (p = proc[r] /\ k = key[r])
                        BY <6>1, <4>2 DEF Live
                    <6>3. store'[p][k] = store[p][k]
                        BY <2>1, <4>2, <6>2, SetInProgressStore
                    <6> QED BY <6>1, <6>3
                <5> QED BY <5>1, <5>2
            <4> QED BY <4>1, <4>2
        <3>2. EffectRecorded'
            <4> SUFFICES ASSUME NEW p \in Processes, NEW k \in Keys, ~ excused[p][k],
                                NEW s \in window[p][k]
                         PROVE  \/ Holder(p, k, s)' /\ pc'[s] = "complete"
                                \/ /\ store'[p][k] # None
                                   /\ store'[p][k].status = "COMPLETED"
                                   /\ store'[p][k].body = s
                                   /\ store'[p][k].live
                BY <2>1 DEF SetInProgress
            <4>1. CASE Holder(p, k, s) /\ pc[s] = "complete"
                BY <2>1, <4>1 DEF SetInProgress
            <4>2. CASE /\ store[p][k] # None
                       /\ store[p][k].status = "COMPLETED"
                       /\ store[p][k].body = s
                       /\ store[p][k].live
                <5>1. CASE Live(proc[r], key[r])
                    BY <2>1, <4>2, <5>1 DEF SetInProgress
                <5>2. CASE ~ Live(proc[r], key[r])
                    <6>1. ~ (p = proc[r] /\ k = key[r])
                        BY <4>2, <5>2 DEF Live
                    <6>2. store'[p][k] = store[p][k]
                        BY <2>1, <5>2, <6>1, SetInProgressStore
                    <6> QED BY <4>2, <6>2
                <5> QED BY <5>1, <5>2
            <4> QED BY <4>1, <4>2
        <3> QED BY <3>1, <3>2
    <2>2. CASE Execute(r)
        BY <2>2 DEF Execute, Effect
    <2>3. CASE ExecuteFails(r) \/ ExecuteRefused(r)
        BY <2>3 DEF ExecuteFails, ExecuteRefused
    <2>4. CASE ExecuteFailsLate(r)
        BY <2>4 DEF ExecuteFailsLate, Effect
    <2>5. CASE SetCompleted(r)
        <3>1. HolderOwns'
            BY <2>5 DEF SetCompleted
        <3>2. EffectRecorded'
            <4> SUFFICES ASSUME NEW p \in Processes, NEW k \in Keys,
                                ~ excused[p][k], NEW s \in window[p][k]
                         PROVE  \/ Holder(p, k, s)' /\ pc'[s] = "complete"
                                \/ /\ store'[p][k] # None
                                   /\ store'[p][k].status = "COMPLETED"
                                   /\ store'[p][k].body = s
                                   /\ store'[p][k].live
                BY <2>5 DEF SetCompleted
            <4>1. CASE p = proc[r] /\ k = key[r]
                <5>1. Holder(p, k, r)
                    BY <2>5, <4>1 DEF SetCompleted
                <5>2. s = r
                    BY <5>1
                <5>3. store'[p][k] = Recorded(r)
                    BY <2>5, <4>1, SetCompletedStore
                <5> QED BY <5>2, <5>3, EntryNotNone DEF Recorded
            <4>2. CASE ~ (p = proc[r] /\ k = key[r])
                <5>1. store'[p][k] = store[p][k]
                    BY <2>5, <4>2 DEF SetCompleted
                <5>2. Holder(p, k, s) => s # r
                    BY <4>2
                <5> QED BY <2>5, <5>1, <5>2 DEF SetCompleted
            <4> QED BY <4>1, <4>2
        <3> QED BY <3>1, <3>2
    <2>6. CASE Clear(r)
        BY <2>6 DEF Clear
    <2> QED BY <1>2, <2>1, <2>2, <2>3, <2>4, <2>5, <2>6 DEF Step
<1>3. ASSUME NEW p \in Processes, NEW k \in Keys, LeaseExpires(p, k)
      PROVE  HolderOwns' /\ EffectRecorded'
    BY <1>3 DEF LeaseExpires, Live, told
<1>4. ASSUME NEW p \in Processes, NEW k \in Keys, RecordExpires(p, k)
      PROVE  HolderOwns' /\ EffectRecorded'
    BY <1>4 DEF RecordExpires, Live, told, counters
<1>5. ASSUME NEW p \in Processes, Restart(p)
      PROVE  HolderOwns' /\ EffectRecorded'
    BY <1>5 DEF Restart, told
<1>6. CASE UNCHANGED vars
    BY <1>6 DEF vars, told, ghosts, counters
<1> QED BY <1>1, <1>2, <1>3, <1>4, <1>5, <1>6 DEF Next

(* However retries of a key race in a process, the operation takes effect  *)
(* once there while the key is remembered, unless the lease ran out or the *)
(* operation failed after its effect (handle_idempotent_operation).        *)
THEOREM OnceInAProcess == Spec => []OncePerProcess
<1>1. Spec => []IInv
    BY InvInit, InvStep, PTL DEF Spec
<1> QED BY <1>1, InvImplies, PTL

(* There is nothing to replay at the start.                                *)
LEMMA GenuineInit == Init => GInv
    BY TypeInit DEF Init, GInv, RecordGenuine, ReplayOfAnswer, Answers, Truthful, Untouched

(* What an operation returned and whether it took effect is settled in one *)
(* step, and nothing changes it later.                                     *)
LEMMA AnswersStep == TypeInv /\ Answers /\ [Next]_vars => Answers'
<1> SUFFICES ASSUME TypeInv, Answers, [Next]_vars, NEW s \in Requests
             PROVE  Truthful(s)' /\ Untouched(s)'
    BY DEF Answers
<1> USE DEF TypeInv, TypeOK, Answers, Truthful, Untouched, Goto, told, ghosts, Busy
<1>1. ASSUME NEW r \in Requests, NEW p \in Processes, Get(r, p)
      PROVE  Truthful(s)' /\ Untouched(s)'
    BY <1>1 DEF Get
<1>2. ASSUME NEW r \in Requests, Step(r)
      PROVE  Truthful(s)' /\ Untouched(s)'
    <2>1. CASE SetInProgress(r)
        BY <2>1 DEF SetInProgress
    <2>2. CASE Execute(r)
        BY <2>2 DEF Execute, Effect
    <2>3. CASE ExecuteRefused(r)
        BY <2>3 DEF ExecuteRefused
    <2>4. CASE ExecuteFails(r)
        BY <2>4 DEF ExecuteFails
    <2>5. CASE ExecuteFailsLate(r)
        BY <2>5 DEF ExecuteFailsLate, Effect
    <2>6. CASE SetCompleted(r)
        BY <2>6 DEF SetCompleted
    <2>7. CASE Clear(r)
        BY <2>7 DEF Clear
    <2> QED BY <1>2, <2>1, <2>2, <2>3, <2>4, <2>5, <2>6, <2>7 DEF Step
<1>3. ASSUME NEW p \in Processes, NEW k \in Keys, LeaseExpires(p, k) \/ RecordExpires(p, k)
      PROVE  Truthful(s)' /\ Untouched(s)'
    BY <1>3 DEF LeaseExpires, RecordExpires
<1>4. ASSUME NEW p \in Processes, Restart(p)
      PROVE  Truthful(s)' /\ Untouched(s)'
    BY <1>4 DEF Restart
<1>5. CASE UNCHANGED vars
    BY <1>5 DEF vars
<1> QED BY <1>1, <1>2, <1>3, <1>4, <1>5 DEF Next

(* Only set_completed stores a response, and only get hands one out.       *)
LEMMA GenuineStep == GInv /\ [Next]_vars => GInv'
<1> SUFFICES ASSUME GInv, [Next]_vars PROVE GInv'
    OBVIOUS
<1>t. TypeInv /\ TypeInv'
    BY TypeStep DEF GInv
<1>a. Answers'
    BY AnswersStep DEF GInv
<1> SUFFICES RecordGenuine' /\ ReplayOfAnswer'
    BY <1>t, <1>a DEF GInv
<1> USE IdempotencyAssumption, <1>t
    DEF GInv, TypeInv, TypeOK, Served, RecordGenuine, ReplayOfAnswer, Busy, Entry, Goto
<1>1. ASSUME NEW r \in Requests, NEW p \in Processes, Get(r, p)
      PROVE  RecordGenuine' /\ ReplayOfAnswer'
    <2>1. CASE Live(p, key[r])
        <3>1. RecordGenuine'
            BY <1>1, <2>1 DEF Get, Live, told, ghosts, counters
        <3>2. ReplayOfAnswer'
            <4> SUFFICES ASSUME NEW s \in Requests, pc'[s] = "replayed"
                         PROVE  /\ body'[s] # None /\ key[body'[s]] = key[s]
                                /\ pc'[body'[s]] = "done"
                OBVIOUS
            <4>1. \A q \in Requests : q # r => pc'[q] = pc[q] /\ body'[q] = body[q]
                BY <1>1, <2>1 DEF Get
            <4>2. pc[r] = "idle"
                BY <1>1 DEF Get
            <4>3. CASE s = r
                <5>1. /\ store[p][key[r]].status = "COMPLETED"
                      /\ body'[r] = store[p][key[r]].body
                    BY <1>1, <2>1, <4>3 DEF Get
                <5> QED BY <2>1, <4>1, <4>2, <4>3, <5>1 DEF Live
            <4>4. CASE s # r
                BY <4>1, <4>2, <4>4
            <4> QED BY <4>3, <4>4
        <3> QED BY <3>1, <3>2
    <2>2. CASE ~ Live(p, key[r])
        <3>1. /\ \A s \in Requests : s # r => pc'[s] = pc[s]
              /\ pc[r] = "idle" /\ pc'[r] = "acquire" /\ body' = body
            BY <1>1, <2>2 DEF Get
        <3>2. \A q \in Processes, k \in Keys :
                 store'[q][k] = None \/ store'[q][k] = store[q][k]
            BY <1>1, <2>2, GetStore
        <3>3. RecordGenuine'
            BY <3>1, <3>2
        <3>4. ReplayOfAnswer'
            BY <3>1
        <3> QED BY <3>3, <3>4
    <2> QED BY <2>1, <2>2
<1>2. ASSUME NEW r \in Requests, Step(r)
      PROVE  RecordGenuine' /\ ReplayOfAnswer'
    <2> USE DEF told, ghosts, counters
    <2>1. CASE SetInProgress(r)
        <3>1. RecordGenuine'
            <4>1. \A s \in Requests : pc[s] = "done" => pc'[s] = "done"
                BY <2>1 DEF SetInProgress
            <4>2. \A p \in Processes, k \in Keys :
                     \/ store'[p][k] = store[p][k]
                     \/ store'[p][k].status = "IN_PROGRESS"
                <5>1. CASE Live(proc[r], key[r])
                    BY <2>1, <5>1 DEF SetInProgress
                <5>2. CASE ~ Live(proc[r], key[r])
                    <6>1. Taken(r).status = "IN_PROGRESS"
                        BY DEF Taken
                    <6> QED BY <2>1, <5>2, <6>1, SetInProgressStore
                <5> QED BY <5>1, <5>2
            <4> SUFFICES ASSUME NEW p \in Processes, NEW k \in Keys,
                                store'[p][k] # None, store'[p][k].status = "COMPLETED"
                         PROVE  /\ key[store'[p][k].body] = k
                                /\ pc'[store'[p][k].body] = "done"
                OBVIOUS
            <4>3. store'[p][k] = store[p][k]
                BY <4>2
            <4>4. store[p][k].body \in Requests
                BY <4>3
            <4> QED BY <4>1, <4>3, <4>4
        <3>2. ReplayOfAnswer'
            <4>1. /\ body' = body
                  /\ \A s \in Requests :
                        /\ pc'[s] = "replayed" => pc[s] = "replayed"
                        /\ pc[s] = "done" => pc'[s] = "done"
                BY <2>1 DEF SetInProgress
            <4> QED BY <4>1
        <3> QED BY <3>1, <3>2
    <2>2. CASE Execute(r)
        BY <2>2 DEF Execute, Effect
    <2>3. CASE ExecuteFails(r) \/ ExecuteRefused(r)
        BY <2>3 DEF ExecuteFails, ExecuteRefused
    <2>4. CASE ExecuteFailsLate(r)
        BY <2>4 DEF ExecuteFailsLate, Effect
    <2>5. CASE SetCompleted(r)
        BY <2>5 DEF SetCompleted
    <2>6. CASE Clear(r)
        BY <2>6 DEF Clear
    <2> QED BY <1>2, <2>1, <2>2, <2>3, <2>4, <2>5, <2>6 DEF Step
<1>3. ASSUME NEW p \in Processes, NEW k \in Keys, LeaseExpires(p, k)
      PROVE  RecordGenuine' /\ ReplayOfAnswer'
    BY <1>3 DEF LeaseExpires, Live, told
<1>4. ASSUME NEW p \in Processes, NEW k \in Keys, RecordExpires(p, k)
      PROVE  RecordGenuine' /\ ReplayOfAnswer'
    BY <1>4 DEF RecordExpires, Live, told, counters
<1>5. ASSUME NEW p \in Processes, Restart(p)
      PROVE  RecordGenuine' /\ ReplayOfAnswer'
    BY <1>5 DEF Restart, told
<1>6. CASE UNCHANGED vars
    BY <1>6 DEF vars, told, ghosts, counters
<1> QED BY <1>1, <1>2, <1>3, <1>4, <1>5, <1>6 DEF Next

(* A retry answered from the store always carries what another request     *)
(* with the same key returned and was answered itself, and it is told the  *)
(* truth: COMPLETED if that request took effect, FAILED if it was refused, *)
(* whatever leases, failures and restarts do (handle_idempotent_operation  *)
(* and pay_fine).                                                          *)
THEOREM ReplaysAreGenuine == Spec => []ReplayIsGenuine
<1>1. Spec => []GInv
    BY GenuineInit, GenuineStep, PTL DEF Spec
<1>2. GInv => ReplayIsGenuine
    BY IdempotencyAssumption
       DEF GInv, TypeInv, TypeOK, ReplayIsGenuine, ReplayOfAnswer, Answers, Truthful
<1> QED BY <1>1, <1>2, PTL

(***************************************************************************)
(* OutboxRelay, and Delivery that composes it with the event bus, for any  *)
(* set of events, relays and consumers, any batch sizes and retry limit,   *)
(* and any number of crashes and errors.                                   *)
(***************************************************************************)
(* A relay holds nothing between batches and one event at a time, and has  *)
(* published the event it is about to mark.                                *)
StepOK ==
    \A w \in Relays :
        /\ step[w] = "idle" => batch[w] = {} /\ current[w] = {}
        /\ step[w] = "next" => current[w] = {}
        /\ batch[w] \cap current[w] = {}
        /\ \A e, f \in current[w] : e = f
        /\ step[w] = "mark" => \A e \in current[w] : delivered[e] > 0

(* An event that may still be published has as many failures counted as    *)
(* deliveries made; only the one publication under way, or the last one,   *)
(* is ahead of the count.                                                  *)
Unpublished(e) ==
    \/ status[e] \in {"NONE", "PENDING", "FAILED"}
    \/ \E w \in Relays : e \in batch[w] \/ (step[w] = "publish" /\ e \in current[w])

CountOK ==
    \A e \in Events :
        /\ delivered[e] <= retry[e] + 1
        /\ Unpublished(e) => delivered[e] <= retry[e]
        /\ retry[e] <= MaxRetry
        /\ status[e] # "FAILED" => retry[e] < MaxRetry

OutboxInv == RelayTypeOK /\ OneOwner /\ StepOK /\ CountOK /\ PublishedWasDelivered

(* Empty table, idle relays.                                               *)
LEMMA InitOutbox == RelayInit => OutboxInv
<1> SUFFICES ASSUME RelayInit PROVE OutboxInv
  OBVIOUS
<1>1. RelayTypeOK
  BY DEF RelayInit, RelayTypeOK
<1>2. OneOwner /\ StepOK /\ PublishedWasDelivered
  BY DEF RelayInit, OneOwner, Owned, StepOK, PublishedWasDelivered
<1>3. CountOK
  BY OutboxAssumption DEF RelayInit, CountOK
<1> QED
  BY <1>1, <1>2, <1>3 DEF OutboxInv

(* A relay that forgets its claims, on an error or a crash, leaves the     *)
(* rows as they are.                                                       *)
LEMMA ForgetOutbox ==
    ASSUME OutboxInv, NEW w \in Relays, Forget(w),
           UNCHANGED <<table, delivered, up>>, crashes' \in Nat, dbErrors' \in Nat
    PROVE  OutboxInv'
<1> USE DEF OutboxInv
<1>1. RelayTypeOK'
  BY DEF RelayTypeOK, Forget, table
<1>2. OneOwner'
  BY DEF RelayTypeOK, OneOwner, Owned, Forget, table
<1>3. StepOK'
  BY DEF RelayTypeOK, StepOK, Forget, table
<1>4. CountOK' /\ PublishedWasDelivered'
  BY DEF RelayTypeOK, CountOK, Unpublished, PublishedWasDelivered, Forget, table
<1> QED
  BY <1>1, <1>2, <1>3, <1>4

(* Every step of every relay, of the database and of the broker.           *)
LEMMA NextOutbox == OutboxInv /\ [RelayNext]_relayVars => OutboxInv'
<1> SUFFICES ASSUME OutboxInv, [RelayNext]_relayVars PROVE OutboxInv'
  OBVIOUS
<1> USE OutboxAssumption DEF OutboxInv
<1>1. ASSUME NEW e \in Events, SaveEvent(e) PROVE OutboxInv'
  <2>1. RelayTypeOK'
    BY <1>1 DEF SaveEvent, RelayTypeOK, bounds
  <2>2. OneOwner' /\ StepOK' /\ PublishedWasDelivered'
    BY <1>1 DEF SaveEvent, RelayTypeOK, OneOwner, Owned, StepOK, PublishedWasDelivered
  <2>3. CountOK'
    BY <1>1 DEF SaveEvent, RelayTypeOK, CountOK, Unpublished
  <2> QED
    BY <2>1, <2>2, <2>3
<1>2. ASSUME NEW w \in Relays, NEW S \in SUBSET Events, Fetch(w, S) PROVE OutboxInv'
  <2>0. \A e \in S : status[e] = "PENDING"
    BY <1>2 DEF Fetch, Fetchable, Pending
  <2>1. RelayTypeOK'
    BY <1>2 DEF Fetch, RelayTypeOK, bounds
  <2>2. OneOwner'
    BY <1>2, <2>0 DEF Fetch, RelayTypeOK, OneOwner, Owned, StepOK
  <2>3. StepOK' /\ PublishedWasDelivered'
    BY <1>2, <2>0 DEF Fetch, RelayTypeOK, StepOK, PublishedWasDelivered
  <2>4. CountOK'
    BY <1>2, <2>0 DEF Fetch, RelayTypeOK, CountOK, Unpublished
  <2> QED
    BY <2>1, <2>2, <2>3, <2>4
<1>3. ASSUME NEW w \in Relays, NEW e \in Events, Take(w, e) PROVE OutboxInv'
  <2>1. RelayTypeOK'
    BY <1>3 DEF Take, RelayTypeOK, table, bounds
  <2>2. OneOwner'
    BY <1>3 DEF Take, RelayTypeOK, OneOwner, Owned, table
  <2>3. StepOK' /\ PublishedWasDelivered'
    BY <1>3 DEF Take, RelayTypeOK, StepOK, PublishedWasDelivered, table
  <2>4. CountOK'
    BY <1>3 DEF Take, RelayTypeOK, CountOK, Unpublished, table
  <2> QED
    BY <2>1, <2>2, <2>3, <2>4
<1>4. ASSUME NEW w \in Relays, Finish(w) PROVE OutboxInv'
  BY <1>4 DEF Finish, RelayTypeOK, OneOwner, Owned, StepOK, CountOK, Unpublished,
              PublishedWasDelivered, table, bounds
<1>5. ASSUME NEW w \in Relays, NEW e \in Events, Publish(w, e) \/ PublishError(w, e)
      PROVE OutboxInv'
  <2>0. /\ delivered' = delivered \/ delivered' = [delivered EXCEPT ![e] = @ + 1]
        /\ \/ step' = [step EXCEPT ![w] = "mark"] /\ delivered'[e] > 0
           \/ step' = [step EXCEPT ![w] = "mark_failed"]
        /\ step[w] = "publish" /\ e \in current[w]
        /\ UNCHANGED <<status, retry, batch, current, up, crashes, dbErrors>>
    BY <1>5 DEF Publish, PublishError, RelayTypeOK, table, bounds
  <2>1. RelayTypeOK'
    BY <2>0 DEF RelayTypeOK
  <2>2. OneOwner'
    BY <2>0 DEF RelayTypeOK, OneOwner, Owned
  <2>3. StepOK' /\ PublishedWasDelivered'
    BY <2>0 DEF RelayTypeOK, StepOK, PublishedWasDelivered
  <2>4. CountOK'
    BY <2>0 DEF RelayTypeOK, CountOK, Unpublished, OneOwner, Owned, StepOK
  <2> QED
    BY <2>1, <2>2, <2>3, <2>4
<1>6. ASSUME NEW w \in Relays, NEW e \in Events, MarkPublished(w, e) PROVE OutboxInv'
  <2>1. RelayTypeOK'
    BY <1>6 DEF MarkPublished, RelayTypeOK, bounds
  <2>2. OneOwner'
    BY <1>6 DEF MarkPublished, RelayTypeOK, OneOwner, Owned, StepOK
  <2>3. StepOK' /\ PublishedWasDelivered'
    BY <1>6 DEF MarkPublished, RelayTypeOK, StepOK, PublishedWasDelivered
  <2>4. CountOK'
    BY <1>6 DEF MarkPublished, RelayTypeOK, CountOK, Unpublished, OneOwner, Owned
  <2> QED
    BY <2>1, <2>2, <2>3, <2>4
<1>7. ASSUME NEW w \in Relays, MarkPublishedError(w) PROVE OutboxInv'
  BY <1>7 DEF MarkPublishedError, RelayTypeOK, OneOwner, Owned, StepOK, CountOK, Unpublished,
              PublishedWasDelivered, table
<1>8. ASSUME NEW w \in Relays, NEW e \in Events, MarkFailed(w, e) PROVE OutboxInv'
  <2>1. RelayTypeOK'
    BY <1>8 DEF MarkFailed, RelayTypeOK, bounds
  <2>2. OneOwner'
    BY <1>8 DEF MarkFailed, RelayTypeOK, OneOwner, Owned, StepOK
  <2>3. StepOK' /\ PublishedWasDelivered'
    BY <1>8 DEF MarkFailed, RelayTypeOK, StepOK, PublishedWasDelivered
  <2>4. CountOK'
    BY <1>8 DEF MarkFailed, RelayTypeOK, CountOK, Unpublished, OneOwner, Owned
  <2> QED
    BY <2>1, <2>2, <2>3, <2>4
<1>9. ASSUME NEW w \in Relays, MarkFailedError(w) \/ Crash(w) PROVE OutboxInv'
  BY <1>9, ForgetOutbox DEF MarkFailedError, Crash, RelayTypeOK
<1>10. CASE Broker
  BY <1>10 DEF Broker, RelayTypeOK, OneOwner, Owned, StepOK, CountOK, Unpublished,
               PublishedWasDelivered, table, bounds
<1>11. CASE UNCHANGED relayVars
  BY <1>11 DEF relayVars, RelayTypeOK, OneOwner, Owned, StepOK, CountOK, Unpublished,
               PublishedWasDelivered, table, bounds
<1> QED
  BY <1>1, <1>2, <1>3, <1>4, <1>5, <1>6, <1>7, <1>8, <1>9, <1>10, <1>11 DEF RelayNext, Work

(* For any number of relays: no event is ever in the hands of two of them. *)
THEOREM ClaimsAreExclusive == RelaySpec => []OneOwner
<1>1. RelaySpec => []OutboxInv
  BY InitOutbox, NextOutbox, PTL DEF RelaySpec
<1> QED
  BY <1>1, PTL DEF OutboxInv

(* An event marked PUBLISHED is at the broker, whatever failed meanwhile.  *)
THEOREM NoFalsePublication == RelaySpec => []PublishedWasDelivered
<1>1. RelaySpec => []OutboxInv
  BY InitOutbox, NextOutbox, PTL DEF RelaySpec
<1> QED
  BY <1>1, PTL DEF OutboxInv

(* Crashes, lost answers and database errors never deliver an event more   *)
(* often than its counted failures plus one, nor more than MaxRetry times. *)
THEOREM DuplicatesBounded == RelaySpec => []DuplicatesAreCounted
<1>1. RelaySpec => []OutboxInv
  BY InitOutbox, NextOutbox, PTL DEF RelaySpec
<1>2. OutboxInv => DuplicatesAreCounted
  BY OutboxAssumption DEF OutboxInv, RelayTypeOK, CountOK, Unpublished, DuplicatesAreCounted
<1> QED
  BY <1>1, <1>2, PTL

-----------------------------------------------------------------------------
(***************************************************************************)
(* The relay inside the whole.  What a consumer does is invisible to the   *)
(* relay, so every theorem above holds of Delivery too.                    *)
(***************************************************************************)
(* Relays and event bus together behave, seen from the outbox, like the    *)
(* relays alone.                                                           *)
THEOREM DeliveryImplementsRelay == DSpec => RelaySpec
<1>1. DInit => RelayInit
  BY DEF DInit
<1>2. [DNext]_all => [RelayNext]_relayVars
  BY DEF DNext, all, Subscribe, StopConsumer, Consume, Read, Handle, Ack, ReadLost, AckError,
         ConsumerCrash, Abandon
<1> QED
  BY <1>1, <1>2, PTL DEF DSpec, RelaySpec

(***************************************************************************)
(* The event bus.  The ids a consumer has read are consecutive, no two     *)
(* consumers share one, and only the first of them may have been handled.  *)
(***************************************************************************)
StreamEntry == [event : Events, handled : Nat, acked : BOOLEAN]

BusType ==
    /\ stream \in Seq(StreamEntry)
    /\ lastId \in Nat /\ lastId <= Len(stream) /\ losses \in Nat
    /\ inbox \in [Consumers -> Seq(Nat)]
    /\ cstep \in [Consumers -> {"read", "handle", "ack"}]

BatchOK(c) ==
    /\ cstep[c] = "read" <=> Len(inbox[c]) = 0
    /\ Len(inbox[c]) <= Count
    /\ \A j \in 1 .. Len(inbox[c]) :
          inbox[c][j] = inbox[c][1] + (j - 1) /\ inbox[c][j] \in 1 .. lastId

InboxOK ==
    /\ \A c \in Consumers : BatchOK(c)
    /\ \A c \in Consumers : \A d \in Consumers \ {c} :
          \A j \in 1 .. Len(inbox[c]), k \in 1 .. Len(inbox[d]) :
             inbox[c][j] # inbox[d][k]

HandledOK ==
    /\ \A i \in 1 .. Len(stream) : stream[i].handled <= 1
    /\ \A i \in 1 .. Len(stream) : i > lastId => stream[i].handled = 0
    /\ \A c \in Consumers : \A j \in 1 .. Len(inbox[c]) :
          (j > 1 \/ cstep[c] = "handle") => stream[inbox[c][j]].handled = 0

Entries(e) == {i \in 1 .. Len(stream) : stream[i].event = e}

EntriesCounted == \A e \in Events : Cardinality(Entries(e)) = delivered[e]

BusInv ==
    OutboxInv /\ BusType /\ InboxOK /\ HandledOK /\ EntriesCounted /\ OrphansAreLosses

(* An empty stream, and consumers that have read nothing.                  *)
LEMMA InitBus == DInit => BusInv
<1> SUFFICES ASSUME DInit PROVE BusInv
  OBVIOUS
<1>1. OutboxInv
  BY InitOutbox DEF DInit
<1>2. /\ stream = <<>> /\ Len(stream) = 0 /\ lastId = 0 /\ losses = 0
      /\ \A c \in Consumers : inbox[c] = <<>> /\ Len(inbox[c]) = 0 /\ cstep[c] = "read"
  BY DEF DInit
<1>3. BusType
  BY <1>2 DEF DInit, BusType
<1>4. InboxOK /\ HandledOK
  BY <1>2, DeliveryAssumption DEF BatchOK, InboxOK, HandledOK
<1>5. EntriesCounted
  <2>1. \A e \in Events : Entries(e) = {} /\ delivered[e] = 0
    BY <1>2 DEF Entries, DInit, RelayInit
  <2> QED
    BY <2>1, FS_EmptySet DEF EntriesCounted
<1>6. OrphansAreLosses
  <2>1. Orphans = {}
    BY <1>2 DEF Orphans
  <2> QED
    BY <1>2, <2>1, FS_EmptySet, DeliveryAssumption DEF OrphansAreLosses
<1> QED
  BY <1>1, <1>3, <1>4, <1>5, <1>6 DEF BusInv

(* A step of the relays appends nothing, or publishes one event.           *)
LEMMA OnePublication ==
    ASSUME OutboxInv, RelayNext
    PROVE  \/ delivered' = delivered
           \/ \E e \in Events : delivered' = [delivered EXCEPT ![e] = @ + 1]
BY DEF RelayNext, Work, SaveEvent, Fetch, Take, Publish, PublishError, MarkPublished, MarkFailed,
       Finish, MarkPublishedError, MarkFailedError, Crash, Broker

(* The orphans are finitely many entries.                                  *)
LEMMA OrphansFinite ==
    ASSUME BusType
    PROVE  IsFiniteSet(Orphans) /\ Cardinality(Orphans) \in Nat
<1>1. IsFiniteSet(1 .. lastId) /\ Orphans \subseteq 1 .. lastId
  BY FS_Interval DEF BusType, Orphans
<1> QED
  BY <1>1, FS_Subset, FS_CardinalityType

(* A step after which at most n ids more are orphans, for n at most Count, *)
(* and that is counted as a loss, or after which none is.                  *)
LEMMA OrphansGrow ==
    ASSUME BusType, BusType', OrphansAreLosses,
           NEW a \in Nat, NEW n \in Nat, n <= Count,
           Orphans' \subseteq Orphans \cup (a + 1 .. a + n),
           losses' = losses + 1
    PROVE  OrphansAreLosses'
<1>1. /\ IsFiniteSet(Orphans) /\ Cardinality(Orphans) \in Nat
      /\ IsFiniteSet(Orphans') /\ Cardinality(Orphans') \in Nat
  <2>1. IsFiniteSet(1 .. lastId') /\ Orphans' \subseteq 1 .. lastId'
    BY FS_Interval DEF BusType, Orphans
  <2> QED
    BY <2>1, OrphansFinite, FS_Subset, FS_CardinalityType
<1> DEFINE lost == a + 1 .. a + n
<1>2. IsFiniteSet(lost) /\ Cardinality(lost) = n
  BY FS_Interval
<1>3. /\ IsFiniteSet(Orphans \cup lost)
      /\ Cardinality(Orphans \cup lost)
            = Cardinality(Orphans) + Cardinality(lost) - Cardinality(Orphans \cap lost)
      /\ Cardinality(Orphans \cap lost) \in Nat
  <2> HIDE DEF lost
  <2> QED
    BY <1>1, <1>2, FS_Union, FS_Intersection, FS_CardinalityType
<1>4. Cardinality(Orphans') <= Cardinality(Orphans) + n
  <2>1. Cardinality(Orphans') <= Cardinality(Orphans \cup lost)
    BY <1>3, FS_Subset
  <2> HIDE DEF lost
  <2> QED
    BY <1>1, <1>2, <1>3, <2>1
<1>5. Count * losses + Count = Count * losses'
  BY DeliveryAssumption DEF BusType
<1>6. Count * losses \in Nat
  BY DeliveryAssumption DEF BusType
<1> QED
  BY <1>1, <1>4, <1>5, <1>6, DeliveryAssumption DEF OrphansAreLosses, BusType

(* The same, when no id is orphaned.                                       *)
LEMMA OrphansKept ==
    ASSUME BusType, OrphansAreLosses, Orphans' \subseteq Orphans, losses' = losses
    PROVE  OrphansAreLosses'
<1>1. /\ IsFiniteSet(Orphans) /\ Cardinality(Orphans) \in Nat
      /\ Cardinality(Orphans') <= Cardinality(Orphans) /\ IsFiniteSet(Orphans')
  BY OrphansFinite, FS_Subset
<1>2. Cardinality(Orphans') \in Nat
  BY <1>1, FS_CardinalityType
<1>3. Count * losses \in Nat
  BY DeliveryAssumption DEF BusType
<1> QED
  BY <1>1, <1>2, <1>3 DEF OrphansAreLosses

(* A consumer changes flags of entries, not which events they carry.       *)
LEMMA EntriesKept ==
    ASSUME EntriesCounted, UNCHANGED delivered, Len(stream') = Len(stream),
           \A i \in 1 .. Len(stream) : stream'[i].event = stream[i].event
    PROVE  EntriesCounted'
<1>1. \A e : Entries(e)' = Entries(e)
  BY DEF Entries
<1> QED
  BY <1>1 DEF EntriesCounted

(* Steps that leave the stream and the consumers alone.                    *)
LEMMA SameBus ==
    ASSUME BusInv, OutboxInv',
           UNCHANGED <<stream, lastId, inbox, cstep, losses, delivered>>
    PROVE  BusInv'
<1>1. BusType'
  BY DEF BusInv, BusType
<1>2. InboxOK'
  <2>1. \A c \in Consumers : BatchOK(c)'
    BY DEF BusInv, InboxOK, BatchOK
  <2> QED
    BY <2>1 DEF BusInv, InboxOK
<1>3. HandledOK'
  BY DEF BusInv, HandledOK
<1>4. EntriesCounted'
  BY EntriesKept DEF BusInv
<1>5. Orphans' = Orphans
  BY DEF Orphans
<1>6. OrphansAreLosses'
  BY <1>5 DEF BusInv, OrphansAreLosses
<1> QED
  BY <1>1, <1>2, <1>3, <1>4, <1>6 DEF BusInv

(* A step of the relays, and the entry that it adds.                       *)
LEMMA RelayBus ==
    ASSUME BusInv, RelayNext, Appended, UNCHANGED consumers
    PROVE  BusInv'
<1>1. OutboxInv'
  BY NextOutbox DEF BusInv
<1>2. UNCHANGED <<lastId, inbox, cstep, losses>>
  BY DEF consumers
<1>3. CASE delivered' = delivered
  <2>1. stream' = stream
    BY <1>3 DEF Appended
  <2> QED
    BY <1>1, <1>2, <1>3, <2>1, SameBus
<1>4. ASSUME NEW e \in Events, delivered' = [delivered EXCEPT ![e] = @ + 1]
      PROVE  BusInv'
  <2>0. delivered \in [Events -> Nat]
    BY DEF BusInv, OutboxInv, RelayTypeOK
  <2>1. delivered' # delivered /\ \A f \in Events : delivered'[f] # delivered[f] <=> f = e
    BY <1>4, <2>0
  <2>2. (CHOOSE f \in Events : delivered'[f] # delivered[f]) = e
    BY <2>1
  <2> DEFINE entry == [event |-> e, handled |-> 0, acked |-> FALSE]
             n == Len(stream)
  <2>3. stream' = Append(stream, entry) /\ entry \in StreamEntry
    BY <2>1, <2>2 DEF Appended, StreamEntry
  <2>4. stream \in Seq(StreamEntry) /\ n \in Nat /\ lastId \in Nat /\ lastId <= n
    BY DEF BusInv, BusType
  <2>5. /\ stream' \in Seq(StreamEntry) /\ Len(stream') = n + 1
        /\ stream'[n + 1] = entry /\ \A i \in 1 .. n : stream'[i] = stream[i]
    BY <2>3, <2>4, AppendProperties
  <2>6. entry.event = e /\ entry.handled = 0
    OBVIOUS
  <2> HIDE DEF entry, n
  <2>7. BusType'
    BY <1>2, <2>4, <2>5 DEF BusInv, BusType, n
  <2>8. InboxOK'
    BY <1>2 DEF BusInv, BatchOK, InboxOK
  <2>9. HandledOK'
    <3>1. \A i \in 1 .. n + 1 : stream'[i].handled <= 1
      BY <2>4, <2>5, <2>6 DEF BusInv, HandledOK, n
    <3>2. \A i \in 1 .. n + 1 : i > lastId => stream'[i].handled = 0
      BY <2>4, <2>5, <2>6 DEF BusInv, HandledOK, n
    <3>3. \A c \in Consumers : \A j \in 1 .. Len(inbox[c]) : inbox[c][j] \in 1 .. n
      BY <2>4 DEF BusInv, BatchOK, InboxOK
    <3> QED
      BY <1>2, <2>5, <3>1, <3>2, <3>3 DEF BusInv, HandledOK
  <2>10. EntriesCounted'
    <3>1. \A f \in Events \ {e} : Entries(f)' = Entries(f) /\ delivered'[f] = delivered[f]
      BY <2>1, <2>4, <2>5, <2>6 DEF Entries, n
    <3>2. Entries(e)' = Entries(e) \cup {n + 1} /\ n + 1 \notin Entries(e)
      BY <2>4, <2>5, <2>6 DEF Entries, n
    <3>3. IsFiniteSet(Entries(e))
      <4>1. Entries(e) \subseteq 1 .. n /\ IsFiniteSet(1 .. n)
        BY <2>4, FS_Interval DEF Entries, n
      <4> QED
        BY <4>1, FS_Subset
    <3>4. Cardinality(Entries(e)') = Cardinality(Entries(e)) + 1
      BY <3>2, <3>3, FS_AddElement
    <3>5. delivered'[e] = delivered[e] + 1
      BY <1>4, <2>0
    <3> QED
      BY <3>1, <3>4, <3>5 DEF BusInv, EntriesCounted
  <2>11. OrphansAreLosses'
    <3>1. Orphans' = Orphans
      BY <1>2, <2>4, <2>5 DEF Orphans
    <3> QED
      BY <1>2, <3>1 DEF BusInv, OrphansAreLosses
  <2> QED
    BY <1>1, <2>7, <2>8, <2>9, <2>10, <2>11 DEF BusInv
<1> QED
  BY <1>3, <1>4, OnePublication DEF BusInv

(* The ids XREADGROUP gives out: at least one, at most Count, the next.    *)
LEMMA NextIdsAre ==
    ASSUME BusType, NextIds # <<>>
    PROVE  /\ NextIds \in Seq(Nat)
           /\ Len(NextIds) \in 1 .. Count /\ lastId + Len(NextIds) <= Len(stream)
           /\ \A i \in 1 .. Len(NextIds) : NextIds[i] = lastId + i
<1> DEFINE m == IF Len(stream) - lastId < Count THEN Len(stream) - lastId ELSE Count
<1>1. m \in Nat /\ m <= Count /\ lastId + m <= Len(stream) /\ lastId \in Nat
  BY DeliveryAssumption DEF BusType
<1>2. NextIds = [i \in 1 .. m |-> lastId + i]
  BY DEF NextIds
<1> HIDE DEF m
<1>3. NextIds \in Seq(Nat) /\ Len(NextIds) = m
  BY <1>1, <1>2
<1>4. m # 0
  BY <1>1, <1>3, EmptySeq
<1> QED
  BY <1>1, <1>2, <1>3, <1>4, DeliveryAssumption

(* A consumer that reads a batch.                                          *)
LEMMA ReadBus ==
    ASSUME BusInv, NEW c \in Consumers, Read(c)
    PROVE  BusType' /\ InboxOK' /\ HandledOK' /\ EntriesCounted' /\ OrphansAreLosses'
<1>0. BusType /\ InboxOK /\ HandledOK
  BY DEF BusInv
<1> DEFINE n == Len(NextIds)
<1>1. /\ NextIds \in Seq(Nat) /\ n \in 1 .. Count /\ lastId + n <= Len(stream)
      /\ \A i \in 1 .. n : NextIds[i] = lastId + i
  BY <1>0, NextIdsAre DEF Read
<1>2. n \in Nat /\ n > 0 /\ n <= Count /\ lastId \in Nat /\ Len(stream) \in Nat
  BY <1>0, <1>1, DeliveryAssumption DEF BusType
<1>3. /\ cstep[c] = "read" /\ Len(inbox[c]) = 0
      /\ inbox'[c] = NextIds /\ Len(inbox'[c]) = n /\ cstep'[c] = "handle"
      /\ \A d \in Consumers \ {c} : inbox'[d] = inbox[d] /\ cstep'[d] = cstep[d]
      /\ lastId' = lastId + n
      /\ UNCHANGED <<stream, losses, delivered>>
  BY <1>0 DEF Read, Polls, BusType, BatchOK, InboxOK, relayVars
<1>4. \A i \in 1 .. n : inbox'[c][i] = lastId + i
  BY <1>1, <1>3
<1>5. BusType'
  BY <1>0, <1>1, <1>2, <1>3 DEF Read, BusType
<1> HIDE DEF n
<1>6. InboxOK'
  <2>1. \A d \in Consumers : \A j \in 1 .. Len(inbox[d]) :
           inbox[d][j] \in Nat /\ inbox[d][j] <= lastId /\ inbox[d][j] \in 1 .. lastId + n
    BY <1>0, <1>2 DEF BatchOK, InboxOK
  <2>2. \A j \in 1 .. n : /\ inbox'[c][j] = inbox'[c][1] + (j - 1)
                           /\ inbox'[c][j] \in 1 .. lastId + n /\ inbox'[c][j] > lastId
    BY <1>2, <1>4
  <2>3. ASSUME NEW d \in Consumers
        PROVE  BatchOK(d)'
    <3>1. CASE d = c
      BY <1>2, <1>3, <2>2, <3>1 DEF BatchOK
    <3>2. CASE d # c
      <4>1. inbox'[d] = inbox[d] /\ cstep'[d] = cstep[d] /\ BatchOK(d)
        BY <1>0, <1>3, <3>2 DEF InboxOK
      <4> QED
        BY <1>3, <2>1, <4>1 DEF BatchOK
    <3> QED
      BY <3>1, <3>2
  <2>4. ASSUME NEW d \in Consumers, NEW f \in Consumers \ {d},
               NEW j \in 1 .. Len(inbox'[d]), NEW k \in 1 .. Len(inbox'[f])
        PROVE  inbox'[d][j] # inbox'[f][k]
    <3>1. CASE d = c
      <4>1. inbox'[d][j] > lastId /\ inbox'[d][j] \in Nat
        BY <1>2, <1>3, <2>2, <3>1
      <4>2. inbox'[f][k] <= lastId /\ inbox'[f][k] \in Nat
        BY <1>3, <2>1, <3>1
      <4> QED
        BY <1>2, <4>1, <4>2
    <3>2. CASE f = c
      <4>1. inbox'[f][k] > lastId /\ inbox'[f][k] \in Nat
        BY <1>2, <1>3, <2>2, <3>2
      <4>2. inbox'[d][j] <= lastId /\ inbox'[d][j] \in Nat
        BY <1>3, <2>1, <3>2
      <4> QED
        BY <1>2, <4>1, <4>2
    <3>3. CASE d # c /\ f # c
      <4>1. inbox'[d] = inbox[d] /\ inbox'[f] = inbox[f]
        BY <1>3, <3>3
      <4> QED
        BY <1>0, <4>1 DEF InboxOK
    <3> QED
      BY <3>1, <3>2, <3>3
  <2> QED
    BY <1>3, <2>3, <2>4 DEF BatchOK, InboxOK
<1>7. HandledOK'
  <2>1. \A j \in 1 .. n : stream[inbox'[c][j]].handled = 0
    <3> SUFFICES ASSUME NEW j \in 1 .. n PROVE stream[inbox'[c][j]].handled = 0
      OBVIOUS
    <3>1. PICK i : i = inbox'[c][j]
      OBVIOUS
    <3>2. i = lastId + j
      BY <1>4, <3>1
    <3>3. i \in 1 .. Len(stream) /\ i > lastId
      BY <1>1, <1>2, <3>2
    <3>4. stream[i].handled = 0
      BY <1>0, <3>3 DEF HandledOK
    <3> QED
      BY <3>1, <3>4
  <2>2. \A i \in 1 .. Len(stream) : i > lastId + n => i > lastId
    BY <1>2
  <2> QED
    BY <1>0, <1>3, <2>1, <2>2 DEF HandledOK
<1>8. EntriesCounted'
  BY <1>3 DEF BusInv, EntriesCounted, Entries
<1>9. Orphans' \subseteq Orphans
  <2> SUFFICES ASSUME NEW i \in Orphans' PROVE i \in Orphans
    OBVIOUS
  <2>1. /\ i \in 1 .. lastId + n /\ ~ stream[i].acked
        /\ \A d \in Consumers : \A j \in 1 .. Len(inbox'[d]) : inbox'[d][j] # i
    BY <1>3 DEF Orphans
  <2>2. i \in 1 .. lastId
    <3>1. ASSUME i > lastId PROVE FALSE
      <4>1. i - lastId \in 1 .. n /\ i = lastId + (i - lastId)
        BY <1>2, <2>1, <3>1
      <4> QED
        BY <1>3, <1>4, <2>1, <4>1
    <3> QED
      BY <1>2, <2>1, <3>1
  <2>3. \A d \in Consumers : \A j \in 1 .. Len(inbox[d]) : inbox[d][j] # i
    BY <1>3, <2>1
  <2> QED
    BY <2>1, <2>2, <2>3 DEF Orphans
<1>10. OrphansAreLosses'
  BY <1>0, <1>3, <1>9, OrphansKept DEF BusInv
<1> QED
  BY <1>5, <1>6, <1>7, <1>8, <1>10

(* The batch that an error takes on its way to the consumer.               *)
LEMMA ReadLostBus ==
    ASSUME BusInv, NEW c \in Consumers, ReadLost(c)
    PROVE  BusType' /\ InboxOK' /\ HandledOK' /\ EntriesCounted' /\ OrphansAreLosses'
<1>0. BusType /\ InboxOK /\ HandledOK
  BY DEF BusInv
<1> DEFINE n == Len(NextIds)
<1>1. n \in 1 .. Count /\ lastId + n <= Len(stream)
  BY <1>0, NextIdsAre DEF ReadLost
<1>2. n \in Nat /\ n > 0 /\ n <= Count /\ lastId \in Nat /\ Len(stream) \in Nat
  BY <1>0, <1>1, DeliveryAssumption DEF BusType
<1>3. /\ lastId' = lastId + n /\ losses' = losses + 1
      /\ UNCHANGED <<stream, inbox, cstep, delivered>>
  BY DEF ReadLost, relayVars
<1> HIDE DEF n
<1>4. BusType'
  BY <1>0, <1>1, <1>2, <1>3 DEF BusType
<1>5. InboxOK'
  <2>1. 1 .. lastId \subseteq 1 .. lastId + n
    BY <1>2
  <2> QED
    BY <1>0, <1>3, <2>1 DEF BatchOK, InboxOK
<1>6. HandledOK'
  <2>1. \A i \in 1 .. Len(stream) : i > lastId + n => i > lastId
    BY <1>2
  <2> QED
    BY <1>0, <1>3, <2>1 DEF HandledOK
<1>7. EntriesCounted'
  BY <1>3 DEF BusInv, EntriesCounted, Entries
<1>8. Orphans' \subseteq Orphans \cup (lastId + 1 .. lastId + n)
  <2>1. 1 .. lastId + n = (1 .. lastId) \cup (lastId + 1 .. lastId + n)
    BY <1>2
  <2> QED
    BY <1>3, <2>1 DEF Orphans
<1>9. OrphansAreLosses'
  BY <1>0, <1>2, <1>3, <1>4, <1>8, OrphansGrow DEF BusInv
<1> QED
  BY <1>4, <1>5, <1>6, <1>7, <1>9

(* What a consumer with a batch in hand works on.                          *)
LEMMA HeadOfInbox ==
    ASSUME BusType, InboxOK, NEW c \in Consumers, cstep[c] # "read"
    PROVE  /\ inbox[c] \in Seq(Nat) /\ Len(inbox[c]) \in Nat /\ Len(inbox[c]) > 0
           /\ inbox[c] # <<>> /\ Head(inbox[c]) = inbox[c][1]
           /\ inbox[c][1] \in 1 .. lastId /\ inbox[c][1] \in 1 .. Len(stream)
           /\ stream[inbox[c][1]] \in StreamEntry
<1>1. inbox[c] \in Seq(Nat) /\ Len(inbox[c]) \in Nat /\ Len(inbox[c]) > 0
  BY DEF BusType, BatchOK, InboxOK
<1>2. inbox[c] # <<>> /\ Head(inbox[c]) = inbox[c][1]
  BY <1>1
<1>3. inbox[c][1] \in 1 .. lastId
  BY <1>1 DEF BatchOK, InboxOK
<1>4. inbox[c][1] \in 1 .. Len(stream)
  BY <1>3 DEF BusType
<1>5. stream[inbox[c][1]] \in StreamEntry
  BY <1>4, ElementOfSeq DEF BusType
<1> QED
  BY <1>1, <1>2, <1>3, <1>4, <1>5

(* The handlers of the entry at the head of the batch.                     *)
LEMMA HandleBus ==
    ASSUME BusInv, NEW c \in Consumers, Handle(c)
    PROVE  BusType' /\ InboxOK' /\ HandledOK' /\ EntriesCounted' /\ OrphansAreLosses'
<1>0. BusType /\ InboxOK /\ HandledOK
  BY DEF BusInv
<1> DEFINE h == inbox[c][1]
           x == [stream[h] EXCEPT !.handled = @ + 1]
<1>1. /\ inbox[c] \in Seq(Nat) /\ Len(inbox[c]) \in Nat /\ Len(inbox[c]) > 0
      /\ Head(inbox[c]) = h /\ h \in 1 .. lastId /\ h \in 1 .. Len(stream)
      /\ stream[h] \in StreamEntry
  BY <1>0, HeadOfInbox DEF Handle
<1>2. stream[h].handled = 0
  <2>1. 1 \in 1 .. Len(inbox[c]) /\ cstep[c] = "handle"
    BY <1>1 DEF Handle
  <2> QED
    BY <1>0, <2>1 DEF HandledOK
<1>3. /\ x \in StreamEntry /\ x.handled = 1
      /\ x.event = stream[h].event /\ x.acked = stream[h].acked
  BY <1>1, <1>2 DEF StreamEntry
<1>4. stream' = [stream EXCEPT ![h] = x]
  BY <1>1 DEF Handle
<1> HIDE DEF x
<1>5. /\ stream' \in Seq(StreamEntry) /\ Len(stream') = Len(stream)
      /\ \A i \in 1 .. Len(stream) : stream'[i] = IF i = h THEN x ELSE stream[i]
  BY <1>0, <1>1, <1>3, <1>4, ExceptSeq DEF BusType
<1>6. /\ cstep[c] = "handle" /\ cstep'[c] = "ack"
      /\ \A d \in Consumers \ {c} : cstep'[d] = cstep[d]
      /\ UNCHANGED <<lastId, inbox, losses, delivered>>
  BY <1>0 DEF Handle, BusType, relayVars
<1>7. BusType'
  BY <1>0, <1>5, <1>6 DEF Handle, BusType
<1>8. InboxOK'
  <2>1. ASSUME NEW d \in Consumers PROVE BatchOK(d)'
    <3>1. BatchOK(d) /\ inbox'[d] = inbox[d] /\ lastId' = lastId
      BY <1>0, <1>6 DEF InboxOK
    <3>2. cstep'[d] = "read" <=> Len(inbox[d]) = 0
      <4>1. CASE d = c
        BY <1>1, <1>6, <4>1
      <4>2. CASE d # c
        BY <1>6, <3>1, <4>2 DEF BatchOK
      <4> QED
        BY <4>1, <4>2
    <3> QED
      BY <3>1, <3>2 DEF BatchOK
  <2> QED
    BY <1>0, <1>6, <2>1 DEF InboxOK
<1>9. HandledOK'
  <2>1. \A i \in 1 .. Len(stream) : stream'[i].handled <= 1
    BY <1>0, <1>3, <1>5 DEF HandledOK
  <2>2. \A i \in 1 .. Len(stream) : i > lastId => stream'[i].handled = 0
    BY <1>0, <1>1, <1>5 DEF HandledOK, BusType
  <2>3. ASSUME NEW d \in Consumers, NEW j \in 1 .. Len(inbox[d]),
               j > 1 \/ cstep'[d] = "handle"
        PROVE  stream'[inbox[d][j]].handled = 0
    <3>1. inbox[d][j] \in 1 .. Len(stream)
      BY <1>0 DEF BatchOK, InboxOK, BusType
    <3>2. j > 1 \/ cstep[d] = "handle"
      BY <1>6, <2>3
    <3>3. stream[inbox[d][j]].handled = 0
      BY <1>0, <3>2 DEF HandledOK
    <3>4. inbox[d][j] # h
      <4>1. CASE d = c
        <5>1. j > 1 /\ j \in Nat /\ h \in Nat
          BY <1>1, <1>6, <2>3, <4>1
        <5>2. inbox[d][j] = h + (j - 1)
          BY <1>0, <4>1 DEF BatchOK, InboxOK
        <5> QED
          BY <5>1, <5>2
      <4>2. CASE d # c
        BY <1>0, <1>1, <4>2 DEF BatchOK, InboxOK
      <4> QED
        BY <4>1, <4>2
    <3> QED
      BY <1>5, <3>1, <3>3, <3>4
  <2> QED
    BY <1>5, <1>6, <2>1, <2>2, <2>3 DEF HandledOK
<1>10. EntriesCounted'
  BY <1>3, <1>5, <1>6, EntriesKept DEF BusInv
<1>11. OrphansAreLosses'
  <2>1. \A i \in 1 .. lastId : stream'[i].acked = stream[i].acked
    BY <1>0, <1>3, <1>5 DEF BusType
  <2>2. Orphans' \subseteq Orphans
    BY <1>6, <2>1 DEF Orphans
  <2> QED
    BY <1>0, <1>6, <2>2, OrphansKept DEF BusInv
<1> QED
  BY <1>7, <1>8, <1>9, <1>10, <1>11

(* XACK sets one flag and nothing else.                                    *)
LEMMA AckedStream ==
    ASSUME BusType, NEW h \in 1 .. Len(stream),
           stream' \in {stream, [stream EXCEPT ![h].acked = TRUE]}
    PROVE  /\ stream' \in Seq(StreamEntry) /\ Len(stream') = Len(stream)
           /\ \A i \in 1 .. Len(stream) :
                 /\ stream'[i].event = stream[i].event
                 /\ stream'[i].handled = stream[i].handled
                 /\ stream[i].acked => stream'[i].acked
           /\ stream' # stream => stream'[h].acked
<1> DEFINE x == [stream[h] EXCEPT !.acked = TRUE]
<1>1. stream[h] \in StreamEntry
  BY ElementOfSeq DEF BusType
<1>2. /\ x \in StreamEntry /\ x.acked
      /\ x.event = stream[h].event /\ x.handled = stream[h].handled
  BY <1>1 DEF StreamEntry
<1>3. stream' = stream \/ stream' = [stream EXCEPT ![h] = x]
  OBVIOUS
<1> HIDE DEF x
<1>4. CASE stream' = stream
  BY <1>4 DEF BusType
<1>5. CASE stream' = [stream EXCEPT ![h] = x]
  <2>1. /\ stream' \in Seq(StreamEntry) /\ Len(stream') = Len(stream)
        /\ \A i \in 1 .. Len(stream) : stream'[i] = IF i = h THEN x ELSE stream[i]
    BY <1>2, <1>5, ExceptSeq DEF BusType
  <2> QED
    BY <1>2, <2>1
<1> QED
  BY <1>3, <1>4, <1>5

(* The acknowledgement of the head of the batch.                           *)
LEMMA AckBus ==
    ASSUME BusInv, NEW c \in Consumers, Ack(c)
    PROVE  BusType' /\ InboxOK' /\ HandledOK' /\ EntriesCounted' /\ OrphansAreLosses'
<1>0. BusType /\ InboxOK /\ HandledOK
  BY DEF BusInv
<1> DEFINE h == inbox[c][1]
           n == Len(inbox[c])
<1>1. /\ inbox[c] \in Seq(Nat) /\ n \in Nat /\ n > 0 /\ inbox[c] # <<>>
      /\ Head(inbox[c]) = h /\ h \in 1 .. lastId /\ h \in 1 .. Len(stream)
      /\ stream[h] \in StreamEntry
  BY <1>0, HeadOfInbox DEF Ack
<1>2. stream' = [stream EXCEPT ![h].acked = TRUE]
  BY <1>1 DEF Ack
<1>3. /\ stream' \in Seq(StreamEntry) /\ Len(stream') = Len(stream)
      /\ \A i \in 1 .. Len(stream) :
            /\ stream'[i].event = stream[i].event
            /\ stream'[i].handled = stream[i].handled
            /\ stream[i].acked => stream'[i].acked
  BY <1>0, <1>1, <1>2, AckedStream
<1>4. stream'[h].acked
  BY <1>0, <1>1, <1>2, ElementOfSeq DEF BusType, StreamEntry
<1>5. /\ inbox'[c] = Tail(inbox[c]) /\ inbox'[c] \in Seq(Nat)
      /\ Len(inbox'[c]) = n - 1
      /\ \A j \in 1 .. n - 1 : inbox'[c][j] = inbox[c][j + 1]
      /\ \A d \in Consumers \ {c} : inbox'[d] = inbox[d]
  <2>1. /\ Tail(inbox[c]) \in Seq(Nat) /\ Len(Tail(inbox[c])) = n - 1
        /\ \A j \in 1 .. n - 1 : Tail(inbox[c])[j] = inbox[c][j + 1]
    BY <1>1, HeadTailProperties
  <2> QED
    BY <1>0, <2>1 DEF Ack, BusType
<1>6. /\ cstep[c] = "ack" /\ cstep'[c] = (IF n = 1 THEN "read" ELSE "handle")
      /\ \A d \in Consumers \ {c} : cstep'[d] = cstep[d]
      /\ UNCHANGED <<lastId, losses, delivered>>
  BY <1>0 DEF Ack, BusType, relayVars
<1>7. BusType'
  BY <1>0, <1>3, <1>5, <1>6 DEF Ack, BusType
<1> HIDE DEF h, n
<1>8. /\ \A j \in 1 .. n : inbox[c][j] = h + (j - 1) /\ inbox[c][j] \in 1 .. lastId
      /\ n <= Count /\ h \in Nat
  BY <1>0, <1>1 DEF BatchOK, InboxOK, h, n
<1>9. InboxOK'
  <2>0. n \in Nat /\ n > 0
    BY <1>1
  <2>1. ASSUME NEW j \in 1 .. n - 1
        PROVE  inbox'[c][j] = inbox'[c][1] + (j - 1) /\ inbox'[c][j] \in 1 .. lastId
    <3>1. 1 \in 1 .. n - 1 /\ j + 1 \in 1 .. n /\ 1 + 1 \in 1 .. n
      BY <2>0
    <3>2. inbox'[c][j] = inbox[c][j + 1] /\ inbox'[c][1] = inbox[c][1 + 1]
      BY <1>5, <3>1
    <3>3. /\ inbox[c][j + 1] = h + ((j + 1) - 1) /\ inbox[c][1 + 1] = h + ((1 + 1) - 1)
          /\ inbox[c][j + 1] \in 1 .. lastId
      BY <1>8, <3>1
    <3> QED
      BY <1>8, <2>0, <3>2, <3>3
  <2>2. n - 1 <= Count /\ (n - 1 = 0 <=> n = 1)
    BY <1>1, <1>8, DeliveryAssumption
  <2>3. ASSUME NEW d \in Consumers
        PROVE  BatchOK(d)'
    <3>1. CASE d = c
      BY <1>5, <1>6, <2>1, <2>2, <3>1 DEF BatchOK
    <3>2. CASE d # c
      <4>1. inbox'[d] = inbox[d] /\ cstep'[d] = cstep[d] /\ BatchOK(d)
        BY <1>0, <1>5, <1>6, <3>2 DEF InboxOK
      <4> QED
        BY <1>6, <4>1 DEF BatchOK
    <3> QED
      BY <3>1, <3>2
  <2>4. ASSUME NEW d \in Consumers, NEW j \in 1 .. Len(inbox'[d])
        PROVE  \E k \in 1 .. Len(inbox[d]) : inbox'[d][j] = inbox[d][k]
    <3>1. CASE d = c
      <4>0. j \in 1 .. n - 1
        BY <1>5, <3>1
      <4>1. j + 1 \in 1 .. n /\ j \in 1 .. n - 1
        BY <2>0, <4>0
      <4> QED
        BY <1>5, <3>1, <4>1 DEF n
    <3>2. CASE d # c
      BY <1>5, <3>2
    <3> QED
      BY <3>1, <3>2
  <2>5. ASSUME NEW d \in Consumers, NEW f \in Consumers \ {d},
               NEW j \in 1 .. Len(inbox'[d]), NEW k \in 1 .. Len(inbox'[f])
        PROVE  inbox'[d][j] # inbox'[f][k]
    BY <1>0, <2>4 DEF BatchOK, InboxOK
  <2> QED
    BY <1>6, <2>3, <2>5 DEF BatchOK, InboxOK
<1>10. HandledOK'
  <2>1. ASSUME NEW d \in Consumers, NEW j \in 1 .. Len(inbox'[d]),
               j > 1 \/ cstep'[d] = "handle"
        PROVE  stream'[inbox'[d][j]].handled = 0
    <3>0. inbox'[d][j] \in 1 .. Len(stream)
      BY <1>0, <1>6, <1>7, <1>9, <1>3 DEF BatchOK, InboxOK, BusType
    <3>1. CASE d = c
      <4>a. n \in Nat /\ n > 0
        BY <1>1
      <4>b. j \in 1 .. n - 1
        BY <1>5, <3>1
      <4>c. j + 1 \in 1 .. n /\ j + 1 > 1
        BY <4>a, <4>b
      <4>1. j + 1 \in 1 .. n /\ j + 1 > 1 /\ inbox'[d][j] = inbox[c][j + 1]
        BY <1>5, <3>1, <4>b, <4>c
      <4>2. stream[inbox[c][j + 1]].handled = 0
        BY <1>0, <4>1 DEF HandledOK, n
      <4> QED
        BY <1>3, <3>0, <4>1, <4>2
    <3>2. CASE d # c
      <4>1. stream[inbox[d][j]].handled = 0
        BY <1>0, <1>5, <1>6, <2>1, <3>2 DEF HandledOK
      <4> QED
        BY <1>3, <1>5, <3>0, <3>2, <4>1
    <3> QED
      BY <3>1, <3>2
  <2> QED
    BY <1>0, <1>3, <1>6, <2>1 DEF HandledOK
<1>11. EntriesCounted'
  BY <1>3, <1>6, EntriesKept DEF BusInv
<1>12. Orphans' \subseteq Orphans
  <2> SUFFICES ASSUME NEW i \in Orphans' PROVE i \in Orphans
    OBVIOUS
  <2>1. /\ i \in 1 .. lastId /\ ~ stream'[i].acked
        /\ \A d \in Consumers : \A j \in 1 .. Len(inbox'[d]) : inbox'[d][j] # i
    BY <1>6 DEF Orphans
  <2>2. i \in 1 .. Len(stream) /\ ~ stream[i].acked /\ i # h
    BY <1>0, <1>3, <1>4, <2>1 DEF BusType
  <2>3. \A j \in 1 .. n : inbox[c][j] # i
    <3> SUFFICES ASSUME NEW j \in 1 .. n, inbox[c][j] = i PROVE FALSE
      OBVIOUS
    <3>1. CASE j = 1
      BY <2>2, <3>1 DEF h
    <3>2. CASE j # 1
      <4>1. j - 1 \in 1 .. n - 1 /\ (j - 1) + 1 = j
        BY <1>1, <3>2
      <4> QED
        BY <1>5, <2>1, <4>1
    <3> QED
      BY <3>1, <3>2
  <2> QED
    BY <1>5, <2>1, <2>2, <2>3 DEF Orphans, n
<1>13. OrphansAreLosses'
  BY <1>0, <1>6, <1>12, OrphansKept DEF BusInv
<1> QED
  BY <1>7, <1>9, <1>10, <1>11, <1>13

(* A batch that is dropped half-way.                                       *)
LEMMA AbandonBus ==
    ASSUME BusInv, NEW c \in Consumers, cstep[c] # "read", Abandon(c),
           stream' \in {stream, [stream EXCEPT ![Head(inbox[c])].acked = TRUE]}
    PROVE  BusType' /\ InboxOK' /\ HandledOK' /\ EntriesCounted' /\ OrphansAreLosses'
<1>0. BusType /\ InboxOK /\ HandledOK
  BY DEF BusInv
<1> DEFINE h == inbox[c][1]
           n == Len(inbox[c])
<1>1. /\ n \in Nat /\ n > 0 /\ Head(inbox[c]) = h
      /\ h \in 1 .. lastId /\ h \in 1 .. Len(stream)
  BY <1>0, HeadOfInbox
<1>3. /\ stream' \in Seq(StreamEntry) /\ Len(stream') = Len(stream)
      /\ \A i \in 1 .. Len(stream) :
            /\ stream'[i].event = stream[i].event
            /\ stream'[i].handled = stream[i].handled
            /\ stream[i].acked => stream'[i].acked
  BY <1>0, <1>1, AckedStream
<1>4. /\ inbox'[c] = <<>> /\ Len(inbox'[c]) = 0 /\ cstep'[c] = "read"
      /\ \A d \in Consumers \ {c} : inbox'[d] = inbox[d] /\ cstep'[d] = cstep[d]
      /\ losses' = losses + 1
      /\ UNCHANGED <<lastId, delivered>>
  BY <1>0 DEF Abandon, BusType, relayVars
<1>5. BusType'
  BY <1>0, <1>3, <1>4 DEF Abandon, BusType
<1>a. \A d \in Consumers : \A j \in 1 .. Len(inbox'[d]) : d # c
  BY <1>4
<1>6. InboxOK'
  <2>1. ASSUME NEW d \in Consumers
        PROVE  BatchOK(d)'
    <3>1. CASE d = c
      BY <1>4, <1>a, <3>1, DeliveryAssumption DEF BatchOK
    <3>2. CASE d # c
      <4>1. inbox'[d] = inbox[d] /\ cstep'[d] = cstep[d] /\ BatchOK(d)
        BY <1>0, <1>4, <3>2 DEF InboxOK
      <4> QED
        BY <1>4, <4>1 DEF BatchOK
    <3> QED
      BY <3>1, <3>2
  <2> QED
    BY <1>0, <1>4, <1>a, <2>1 DEF InboxOK
<1>7. HandledOK'
  <2>1. ASSUME NEW d \in Consumers, NEW j \in 1 .. Len(inbox'[d])
        PROVE  d # c /\ inbox'[d][j] = inbox[d][j] /\ inbox[d][j] \in 1 .. Len(stream)
    <3>1. d # c /\ inbox'[d] = inbox[d] /\ BatchOK(d)
      BY <1>0, <1>4, <1>a DEF InboxOK
    <3> QED
      BY <1>0, <3>1 DEF BatchOK, BusType
  <2> QED
    BY <1>0, <1>3, <1>4, <2>1 DEF HandledOK
<1>8. EntriesCounted'
  BY <1>3, <1>4, EntriesKept DEF BusInv
<1>9. Orphans' \subseteq Orphans \cup ((h - 1) + 1 .. (h - 1) + n)
  <2> SUFFICES ASSUME NEW i \in Orphans', i \notin Orphans
               PROVE  i \in (h - 1) + 1 .. (h - 1) + n
    OBVIOUS
  <2>1. /\ i \in 1 .. lastId /\ ~ stream'[i].acked
        /\ \A d \in Consumers : \A j \in 1 .. Len(inbox'[d]) : inbox'[d][j] # i
    BY <1>4 DEF Orphans
  <2>2. ~ stream[i].acked
    BY <1>0, <1>3, <2>1 DEF BusType
  <2>3. PICK j \in 1 .. n : inbox[c][j] = i
    BY <1>4, <2>1, <2>2 DEF Orphans
  <2>4. i = h + (j - 1) /\ h \in Nat
    BY <1>0, <1>1, <2>3 DEF BatchOK, InboxOK
  <2> QED
    BY <1>1, <2>4
<1>10. OrphansAreLosses'
  <2>1. h - 1 \in Nat /\ n <= Count
    BY <1>0, <1>1 DEF BatchOK, InboxOK, BusType
  <2> HIDE DEF h, n
  <2> QED
    BY <1>0, <1>1, <1>4, <1>5, <1>9, <2>1, OrphansGrow DEF BusInv
<1> QED
  BY <1>5, <1>6, <1>7, <1>8, <1>10

(* Every step of relays and consumers keeps the invariant of the bus.      *)
LEMMA NextBus == BusInv /\ [DNext]_all => BusInv'
<1> SUFFICES ASSUME BusInv, [DNext]_all PROVE BusInv'
  OBVIOUS
<1>1. CASE RelayNext /\ Appended /\ UNCHANGED consumers
  BY <1>1, RelayBus
<1>2. ASSUME NEW c \in Consumers,
             Consume(c) \/ ReadLost(c) \/ AckError(c) \/ ConsumerCrash(c)
      PROVE  BusInv'
  <2>1. UNCHANGED relayVars
    BY <1>2 DEF Consume, Read, Handle, Ack, ReadLost, AckError, ConsumerCrash, Abandon
  <2>2. OutboxInv'
    BY <2>1, NextOutbox DEF BusInv
  <2>3. CASE AckError(c) \/ ConsumerCrash(c)
    BY <2>2, <2>3, AbandonBus DEF AckError, ConsumerCrash, BusInv
  <2>4. CASE Consume(c) \/ ReadLost(c)
    BY <2>2, <2>4, ReadBus, ReadLostBus, HandleBus, AckBus DEF Consume, BusInv
  <2> QED
    BY <1>2, <2>3, <2>4
<1>3. CASE \/ UNCHANGED all
           \/ \E c \in Consumers : Subscribe(c) \/ StopConsumer(c)
  <2>1. UNCHANGED relayVars /\ UNCHANGED <<stream, lastId, inbox, cstep, losses, delivered>>
    BY <1>3 DEF all, consumers, relayVars, Subscribe, StopConsumer
  <2>2. OutboxInv'
    BY <2>1, NextOutbox DEF BusInv
  <2> QED
    BY <2>1, <2>2, SameBus
<1> QED
  BY <1>1, <1>2, <1>3 DEF DNext

(* However many consumers share the group, however relays and consumers    *)
(* fail: no entry is handled twice, and an event is handled at most once   *)
(* more than its row has failures counted.                                 *)
THEOREM HandlingsCounted == DSpec => []HandledAsOftenAsCounted
<1>1. DSpec => []BusInv
  BY InitBus, NextBus, PTL DEF DSpec
<1>2. BusInv => HandledAsOftenAsCounted
  <2> SUFFICES ASSUME BusInv PROVE HandledAsOftenAsCounted
    OBVIOUS
  <2>1. \A i \in 1 .. Len(stream) : stream[i].handled <= 1
    BY DEF BusInv, HandledOK
  <2>2. ASSUME NEW e \in Events
        PROVE  Cardinality(Handlings(e)) <= retry[e] + 1
    <3>1. IsFiniteSet(1 .. Len(stream)) /\ Entries(e) \subseteq 1 .. Len(stream)
      BY FS_Interval DEF BusInv, BusType, Entries
    <3>2. IsFiniteSet(Entries(e)) /\ Handlings(e) \subseteq Entries(e)
      BY <3>1, FS_Subset DEF Handlings, Entries
    <3>3. /\ Cardinality(Handlings(e)) \in Nat
          /\ Cardinality(Handlings(e)) <= Cardinality(Entries(e))
      BY <3>2, FS_Subset, FS_CardinalityType
    <3>4. Cardinality(Entries(e)) = delivered[e] /\ delivered[e] <= retry[e] + 1
      BY DEF BusInv, EntriesCounted, OutboxInv, CountOK
    <3>5. delivered[e] \in Nat /\ retry[e] \in Nat
      BY DEF BusInv, OutboxInv, RelayTypeOK
    <3> QED
      BY <3>3, <3>4, <3>5
  <2> QED
    BY <2>1, <2>2 DEF HandledAsOftenAsCounted
<1> QED
  BY <1>1, <1>2, PTL

(* What stays pending for ever is at most one batch for each loss.         *)
THEOREM OrphansBounded == DSpec => []OrphansAreLosses
<1>1. DSpec => []BusInv
  BY InitBus, NextBus, PTL DEF DSpec
<1> QED
  BY <1>1, PTL DEF BusInv
=============================================================================
