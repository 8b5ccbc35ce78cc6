----------------------------- MODULE Idempotency -----------------------------
(***************************************************************************)
(* api/idempotency.py: handle_idempotent_operation around the writing      *)
(* endpoints (issue, return, pay) of the API processes.  The only store    *)
(* the application builds, default_idempotency_store, has no Redis client: *)
(* every process keeps its own dictionary, and a restart empties it.       *)
(* A key stands for the result of _make_key; the requests that carry it    *)
(* are the first attempt of a client and its retries.                      *)
(*                                                                         *)
(* get, set_in_progress, set_completed and clear are atomic (they hold the *)
(* store's lock); the operation runs between them without it.  Time is     *)
(* what the store compares: an entry is live until its expires_at passes.  *)
(***************************************************************************)
EXTENDS Naturals, FiniteSets

CONSTANTS
    Requests,
    Keys,
    key,          \* [Requests -> Keys]: the Idempotency-Key of a request
    Processes,    \* API processes behind the load balancer
    None,
    MaxOverruns,  \* bound: operations that outlast the 60 s lease
    MaxLate,      \* bound: operations that raise after their effect
    MaxRestarts   \* bound: restarts of a process

Entry ==
    [status : {"IN_PROGRESS", "COMPLETED"}, body : Requests, live : BOOLEAN]

ASSUME IdempotencyAssumption ==
    /\ key \in [Requests -> Keys]
    /\ None \notin Requests \cup Processes \cup Entry
    /\ MaxOverruns \in Nat /\ MaxLate \in Nat /\ MaxRestarts \in Nat

VARIABLES
    store,       \* _memory_store of each process
    pc, proc,    \* where a request is, and the process that serves it
    result,      \* what the operation of a request returned, if it did
    body,        \* whose result a request was answered with
    took,        \* history: requests whose operation took effect
    window,      \* history: the same by process and key, since its start and
                 \* until the completed entry is forgotten
    excused,     \* a lease ran out, or an operation failed late
    overruns, late, restarts

counters == <<overruns, late, restarts>>
told == <<result, body>>
ghosts == <<took, window, excused>>
vars == <<store, pc, proc, told, ghosts, counters>>

Busy == {"execute", "complete", "clear"}

Init ==
    /\ store = [p \in Processes |-> [k \in Keys |-> None]]
    /\ pc = [r \in Requests |-> "idle"]
    /\ proc = [r \in Requests |-> None]
    /\ result = [r \in Requests |-> None]
    /\ body = [r \in Requests |-> None]
    /\ took = {}
    /\ window = [p \in Processes |-> [k \in Keys |-> {}]]
    /\ excused = [p \in Processes |-> [k \in Keys |-> FALSE]]
    /\ overruns = 0 /\ late = 0 /\ restarts = 0

Live(p, k) == store[p][k] # None /\ store[p][k].live

Goto(r, l) == pc' = [pc EXCEPT ![r] = l]

(* Fault: whatever get returns is taken for the stored response.           *)
GetAnyStatus(r, p) ==
    LET k == key[r]
    IN  /\ pc[r] = "idle"
        /\ proc' = [proc EXCEPT ![r] = p]
        /\ IF Live(p, k)
           THEN /\ body' = [body EXCEPT ![r] = store[p][k].body]
                /\ Goto(r, "replayed")
                /\ UNCHANGED store
           ELSE /\ store' = [store EXCEPT ![p][k] = None]
                /\ Goto(r, "acquire")
                /\ UNCHANGED body
        /\ UNCHANGED <<result, ghosts, counters>>

(* get: an entry past its time is deleted.                                 *)
Get(r, p) ==
    LET k == key[r]
    IN  /\ pc[r] = "idle"
        /\ proc' = [proc EXCEPT ![r] = p]
        /\ IF Live(p, k)
           THEN /\ IF store[p][k].status = "COMPLETED"
                   THEN /\ body' = [body EXCEPT ![r] = store[p][k].body]
                        /\ Goto(r, "replayed")
                   ELSE Goto(r, "conflict") /\ UNCHANGED body
                /\ UNCHANGED store
           ELSE /\ store' = [store EXCEPT ![p][k] = None]
                /\ Goto(r, "acquire")
                /\ UNCHANGED body
        /\ UNCHANGED <<result, ghosts, counters>>

(* Fault: the key is written without looking whether it is there.          *)
SetInProgressBlind(r) ==
    /\ pc[r] = "acquire"
    /\ store' = [store EXCEPT ![proc[r]][key[r]] =
                    [status |-> "IN_PROGRESS", body |-> r, live |-> TRUE]]
    /\ Goto(r, "execute")
    /\ UNCHANGED <<proc, told, ghosts, counters>>

(* set_in_progress: by then another request may have taken the key, or     *)
(* have completed.                                                         *)
SetInProgress(r) ==
    /\ pc[r] = "acquire"
    /\ IF Live(proc[r], key[r])
       THEN Goto(r, "conflict") /\ UNCHANGED store
       ELSE /\ store' = [store EXCEPT ![proc[r]][key[r]] =
                            [status |-> "IN_PROGRESS", body |-> r, live |-> TRUE]]
            /\ Goto(r, "execute")
    /\ UNCHANGED <<proc, told, ghosts, counters>>

Effect(r) ==
    /\ took' = took \cup {r}
    /\ window' = [window EXCEPT ![proc[r]][key[r]] = @ \cup {r}]

(* operation_fn has done what was asked and says so ...                    *)
Execute(r) ==
    /\ pc[r] = "execute"
    /\ Effect(r)
    /\ result' = [result EXCEPT ![r] = "COMPLETED"]
    /\ Goto(r, "complete")
    /\ UNCHANGED <<store, proc, body, excused, counters>>

(* ... or returns that it did not: pay_fine answers a payment its strategy *)
(* refuses with the status FAILED and raises nothing ...                   *)
ExecuteRefused(r) ==
    /\ pc[r] = "execute"
    /\ result' = [result EXCEPT ![r] = "FAILED"]
    /\ Goto(r, "complete")
    /\ UNCHANGED <<store, proc, body, ghosts, counters>>

(* ... or raises and has changed nothing ...                               *)
ExecuteFails(r) ==
    /\ pc[r] = "execute"
    /\ Goto(r, "clear")
    /\ UNCHANGED <<store, proc, told, ghosts, counters>>

(* ... or raises when the change is made: pay_fine has taken the money and *)
(* save_user fails, issue_physical_book has committed and a notification   *)
(* observer raises.                                                        *)
ExecuteFailsLate(r) ==
    /\ pc[r] = "execute" /\ late < MaxLate
    /\ late' = late + 1
    /\ Effect(r)
    /\ excused' = [excused EXCEPT ![proc[r]][key[r]] = TRUE]
    /\ Goto(r, "clear")
    /\ UNCHANGED <<store, proc, told, overruns, restarts>>

(* set_completed overwrites whatever is there, and does not look at what   *)
(* it stores: a refusal is kept for ttl_seconds like a success.            *)
SetCompleted(r) ==
    /\ pc[r] = "complete"
    /\ store' = [store EXCEPT ![proc[r]][key[r]] =
                    [status |-> "COMPLETED", body |-> r, live |-> TRUE]]
    /\ body' = [body EXCEPT ![r] = r]
    /\ Goto(r, "done")
    /\ UNCHANGED <<proc, result, ghosts, counters>>

(* Fault: the exception handler does not release the key.                  *)
ClearNothing(r) ==
    /\ pc[r] = "clear"
    /\ Goto(r, "error")
    /\ UNCHANGED <<store, proc, told, ghosts, counters>>

(* clear removes whatever is there, and the exception is raised again.     *)
Clear(r) ==
    /\ pc[r] = "clear"
    /\ store' = [store EXCEPT ![proc[r]][key[r]] = None]
    /\ Goto(r, "error")
    /\ UNCHANGED <<proc, told, ghosts, counters>>

(* 60 seconds have passed and the operation still runs.                    *)
LeaseExpires(p, k) ==
    /\ Live(p, k) /\ store[p][k].status = "IN_PROGRESS"
    /\ overruns < MaxOverruns
    /\ overruns' = overruns + 1
    /\ store' = [store EXCEPT ![p][k].live = FALSE]
    /\ excused' = [excused EXCEPT ![p][k] = TRUE]
    /\ UNCHANGED <<pc, proc, told, took, window, late, restarts>>

(* ttl_seconds have passed: the operation may be done again.               *)
RecordExpires(p, k) ==
    /\ Live(p, k) /\ store[p][k].status = "COMPLETED"
    /\ store' = [store EXCEPT ![p][k].live = FALSE]
    /\ window' = [window EXCEPT ![p][k] = {}]
    /\ UNCHANGED <<pc, proc, told, took, excused, counters>>

(* The process ends with its requests and its dictionary.                  *)
Restart(p) ==
    /\ restarts < MaxRestarts
    /\ restarts' = restarts + 1
    /\ store' = [store EXCEPT ![p] = [k \in Keys |-> None]]
    /\ window' = [window EXCEPT ![p] = [k \in Keys |-> {}]]
    /\ excused' = [excused EXCEPT ![p] = [k \in Keys |-> FALSE]]
    /\ pc' = [r \in Requests |->
                 IF proc[r] = p /\ pc[r] \in Busy \cup {"acquire"}
                 THEN "error" ELSE pc[r]]
    /\ UNCHANGED <<proc, told, took, overruns, late>>

Step(r) ==
    \/ SetInProgress(r)
    \/ Execute(r) \/ ExecuteRefused(r)
    \/ ExecuteFails(r) \/ ExecuteFailsLate(r)
    \/ SetCompleted(r) \/ Clear(r)

Next ==
    \/ \E r \in Requests, p \in Processes : Get(r, p)
    \/ \E r \in Requests : Step(r)
    \/ \E p \in Processes, k \in Keys : LeaseExpires(p, k) \/ RecordExpires(p, k)
    \/ \E p \in Processes : Restart(p)

Spec == Init /\ [][Next]_vars

(* The thread that serves a request keeps running.                         *)
FairSpec == Spec /\ \A r \in Requests : WF_vars(Step(r))

-----------------------------------------------------------------------------
(* Every variable keeps the shape the code gives it.                       *)
TypeOK ==
    /\ store \in [Processes -> [Keys -> Entry \cup {None}]]
    /\ pc \in [Requests -> {"idle", "acquire", "replayed", "conflict", "done",
                            "error"} \cup Busy]
    /\ proc \in [Requests -> Processes \cup {None}]
    /\ result \in [Requests -> {"COMPLETED", "FAILED", None}]
    /\ body \in [Requests -> Requests \cup {None}]
    /\ took \subseteq Requests
    /\ window \in [Processes -> [Keys -> SUBSET Requests]]
    /\ excused \in [Processes -> [Keys -> BOOLEAN]]
    /\ overruns \in Nat /\ late \in Nat /\ restarts \in Nat

(* What the handler does guarantee: in one process, between its start and  *)
(* the end of the record's life, retries of a key make the operation take  *)
(* effect once, however they race, unless the lease ran out under a        *)
(* running operation or an operation failed after its effect.              *)
OncePerProcess ==
    \A p \in Processes, k \in Keys :
        ~ excused[p][k] => \A r, s \in window[p][k] : r = s

(* A retry that is answered from the store gets what another request with  *)
(* the same key was answered itself, never the result of one that raised   *)
(* or is still running; and what it is told is true: COMPLETED if that     *)
(* request took effect, FAILED if it was refused and changed nothing.  A   *)
(* refusal is replayed too, so a retry cannot make a refused payment good. *)
ReplayIsGenuine ==
    \A r \in Requests :
        pc[r] = "replayed" =>
            /\ body[r] # None /\ key[body[r]] = key[r] /\ pc[body[r]] = "done"
            /\ result[body[r]] = IF body[r] \in took THEN "COMPLETED" ELSE "FAILED"

(* A key does not stay taken: the entry of a request that failed is gone   *)
(* when the request is answered, so a later retry is not refused for the   *)
(* rest of the lease.                                                      *)
KeyReleased ==
    \A p \in Processes, k \in Keys :
        store[p][k] # None /\ store[p][k].status = "IN_PROGRESS" ~>
            (store[p][k] = None \/ store[p][k].status = "COMPLETED")
=============================================================================
